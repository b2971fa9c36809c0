------------------------------ MODULE MCTmConv ------------------------------
(* Every convolution of small matrices the converter can produce (output   *)
(* sizes follow from the others), and one call per refusal.                *)
EXTENDS TmConv

Shape(h, w, ci, oc, kh, kw, s, pad, dmul) ==
    [h |-> h, w |-> w, c |-> ci,
     oh |-> (h + pad[1] + pad[2] - kh) \div s + 1,
     ow |-> (w + pad[3] + pad[4] - kw) \div s + 1, oc |-> oc,
     kw |-> kw, kh |-> kh, sx |-> s, sy |-> s, dx |-> 1, dy |-> 1, act |-> 1,
     top |-> pad[1], bottom |-> pad[2], left |-> pad[3], right |-> pad[4], dmul |-> dmul]

Pointwise ==
    {Shape(h, 2, ci, oc, 1, 1, s, <<0, 0, 0, 0>>, 0) :
        h \in 1..2, ci \in {1, 3, 9}, oc \in 1..3, s \in 1..2}

Spatial ==
    {Shape(h, w, ci, 2, kh, kw, s, pad, 0) :
        h \in 3..4, w \in 3..4, ci \in 1..2, kh \in 1..3, kw \in 2..3, s \in 1..2,
        pad \in {<<0, 0, 0, 0>>, <<0, 1, 0, 1>>, <<1, 1, 1, 1>>}}

DepthwiseShapes ==
    {Shape(3, w, ci, ci * dmul, 3, kw, s, pad, dmul) :
        w \in 3..4, ci \in 1..2, dmul \in 1..2, kw \in 2..3, s \in 1..2,
        pad \in {<<0, 0, 0, 0>>, <<1, 1, 1, 1>>}}

Refused ==
    LET base == Shape(3, 3, 1, 1, 2, 2, 1, <<0, 0, 0, 0>>, 0)
        pw   == Shape(2, 2, 1, 1, 1, 1, 1, <<0, 0, 0, 0>>, 0)
    IN  {[base EXCEPT !.dx = 2], [base EXCEPT !.act = 6],
         [base EXCEPT !.kw = 4, !.kh = 3], [pw EXCEPT !.dmul = 1], [pw EXCEPT !.right = 1]}

MCLayers == Pointwise \cup Spatial \cup DepthwiseShapes \cup Refused
=============================================================================
