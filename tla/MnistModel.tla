----------------------------- MODULE MnistModel -----------------------------
(***************************************************************************)
(* The model of models/mnist_valid_q.h that the firmware ships encrypted:  *)
(* what the header of each layer says of its type, matrices, sizes and     *)
(* offsets, as TmEngine reads it.                                          *)
(***************************************************************************)
EXTENDS Integers, Sequences

Dim(rows, cols, chans) == [h |-> rows, w |-> cols, c |-> chans]

Record(type, size, in_oft, out_oft, in, out) ==
    [type |-> type, is_out |-> FALSE, size |-> size, in_oft |-> in_oft, out_oft |-> out_oft,
     in_oft1 |-> 0, from1 |-> 0, in |-> in, out |-> out,
     k |-> 1, s |-> 1, dil |-> 1, pad |-> 0, dmul |-> 0,
     ws_oft |-> 0, w_oft |-> 0, b_oft |-> 0]

Conv3(size, in_oft, out_oft, in, out, w, b) ==
    [Record("CONV2D", size, in_oft, out_oft, in, out)
        EXCEPT !.k = 3, !.s = 2, !.ws_oft = 80, !.w_oft = w, !.b_oft = b]

\* The file header and six layers; weights, scales and biases are left out.
mdl_data ==
    [out_deq |-> TRUE,
     layers |-> <<
       Conv3(152, 0, 784, Dim(28, 28, 1), Dim(13, 13, 4), 96, 136),
       Conv3(432, 784, 0, Dim(13, 13, 4), Dim(6, 6, 8), 112, 400),
       Conv3(1360, 0, 1400, Dim(6, 6, 8), Dim(2, 2, 16), 144, 1296),
       Record("GAP", 48, 1400, 0, Dim(2, 2, 16), Dim(1, 1, 16)),
       [Record("FC", 304, 0, 1448, Dim(1, 1, 16), Dim(1, 1, 10))
           EXCEPT !.ws_oft = 64, !.w_oft = 104, !.b_oft = 264],
       [Record("SOFTMAX", 48, 1448, 0, Dim(1, 1, 10), Dim(1, 1, 10)) EXCEPT !.is_out = TRUE]>>]
=============================================================================
