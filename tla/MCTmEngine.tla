----------------------------- MODULE MCTmEngine -----------------------------
(* The shipped model and small models with the other layer types and with  *)
(* layers tm_run refuses.                                                  *)
EXTENDS TmLayout, MnistModel

\* A pointwise and a padded depthwise convolution, added, averaged, reshaped.
Residual(deq) ==
    [out_deq |-> deq,
     layers |-> <<
       [Record("CONV2D", 176, 0, 784, Dim(2, 2, 1), Dim(2, 2, 10))
           EXCEPT !.ws_oft = 80, !.w_oft = 120, !.b_oft = 136],
       [Record("DWCONV2D", 256, 784, 0, Dim(2, 2, 10), Dim(2, 2, 10))
           EXCEPT !.k = 3, !.pad = 1, !.dmul = 1, !.ws_oft = 80, !.w_oft = 120, !.b_oft = 216],
       [Record("ADD", 64, 0, 1000, Dim(2, 2, 10), Dim(2, 2, 10))
           EXCEPT !.in_oft1 = 784, !.from1 = 1],
       Record("GAP", 48, 1000, 0, Dim(2, 2, 10), Dim(1, 1, 10)),
       Record("RESHAPE", 48, 0, 0, Dim(1, 1, 10), Dim(1, 1, 10)),
       [Record("SOFTMAX", 48, 0, 104, Dim(1, 1, 10), Dim(1, 1, 10)) EXCEPT !.is_out = TRUE]>>]

\* The pointwise layer, then one tm_run refuses.
Refused(bad) ==
    [out_deq |-> TRUE, layers |-> <<Residual(TRUE).layers[1], bad>>]

BadLayers ==
    LET conv == Conv3(256, 784, 0, Dim(2, 2, 10), Dim(1, 1, 2), 120, 200)
    IN  {[conv EXCEPT !.type = "unknown"], [conv EXCEPT !.dil = 2], [conv EXCEPT !.k = 4],
         [conv EXCEPT !.k = 1, !.pad = 1]}

MCModels == {mdl_data, Residual(TRUE), Residual(FALSE)} \cup {Refused(bad) : bad \in BadLayers}

\* Every model of the run is laid out as the theorems about the engine assume.
ASSUME MCModelsWellLaid == ModelsWellLaid
=============================================================================
