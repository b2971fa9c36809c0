------------------------------ MODULE TmLayout ------------------------------
(***************************************************************************)
(* What a model must be like for the engine to run it: tm_load checks none *)
(* of this and tm_run relies on all of it.  Each condition is about the    *)
(* header of a layer and at most those before it; the shipped model meets  *)
(* them.  A layer that tm_run does not reach is under none.                *)
(***************************************************************************)
EXTENDS TmEngine

Convolutions == {"CONV2D", "DWCONV2D"}

\* tm_run does not stop at layer l.
Accepted(l) ==
    /\ l.type \in LayerTypes
    /\ l.type \in Convolutions =>
         l.dil = 1 /\ l.k * l.k <= MaxKSize /\ (l.k * l.k = 1 => l.pad = 0 /\ l.dmul = 0)
Reached(m, n) == \A j \in 1..n : Accepted(m.layers[j])

\* Where matrix n is, and how many of its bytes are there: the picture, then
\* the outputs.  What a reshape "makes" is what it is given.
Place(m, n) == IF n = 0 THEN 0 ELSE m.layers[n].out_oft
Made(m, n) ==
    IF n = 0 THEN Pixels
    ELSE LET l == m.layers[n]
         IN  CASE l.type \in Convolutions \cup {"RESHAPE"} -> Size(l.out)
               [] l.type \in {"GAP", "FC"} -> l.out.c
               [] l.type = "ADD" -> Size(l.in)
               [] l.type = "SOFTMAX" -> l.in.c

\* The bytes layer l writes at its output's offset.
WrittenBytes(l) ==
    CASE l.type \in Convolutions -> Size(l.out)
      [] l.type \in {"GAP", "FC"} -> l.out.c
      [] l.type = "ADD" -> Size(l.in)
      [] l.type = "SOFTMAX" -> 4 * l.in.c
      [] OTHER -> 0

\* The matrices layer n takes, each with the place it takes it from and the
\* bytes it reads there.
NeededBytes(l) ==
    CASE l.type \in Convolutions \cup {"ADD"} -> Size(l.in)
      [] l.type = "GAP" -> l.out.c * (l.in.h * l.in.w)
      [] l.type \in {"FC", "SOFTMAX"} -> l.in.c
      [] OTHER -> Size(l.out)
InputUse(m, n) == [from |-> n - 1, oft |-> IF n = 1 THEN 0 ELSE m.layers[n].in_oft,
                   len |-> NeededBytes(m.layers[n])]
SecondUse(m, n) == [from |-> m.layers[n].from1, oft |-> m.layers[n].in_oft1,
                    len |-> NeededBytes(m.layers[n])]
Uses(m, n) == {InputUse(m, n)} \cup (IF m.layers[n].type = "ADD" THEN {SecondUse(m, n)} ELSE {})

-----------------------------------------------------------------------------
\* The cursor of tm_run finds every record.
Sized(m) == \A n \in 1..Len(m.layers) : m.layers[n].size > 0

\* The record of a convolution or a fully connected layer holds what it reads,
\* and the static arrays hold what a convolution puts there.
RecordHolds(l) ==
    LET chi == IF l.dmul > 0 THEN 1 ELSE l.in.c
        MaxKOf == l.k * l.k
    IN  /\ l.type \in Convolutions =>
             /\ l.w_oft + l.out.c * (chi * MaxKOf) <= l.size
             /\ l.b_oft + 4 * l.out.c <= l.size /\ l.ws_oft + 4 * l.out.c <= l.size
             /\ l.out.c <= MaxCSize
             /\ MaxKOf # 1 => (IF l.dmul > 0 THEN l.out.c ELSE l.in.c) * MaxKOf <= MaxKcSize
        /\ l.type = "FC" =>
             /\ l.w_oft + l.out.c * l.in.c <= l.size
             /\ l.b_oft + 4 * l.out.c <= l.size /\ l.ws_oft + 4 <= l.size

\* What a layer writes is inside the buffer, and so are the scores behind the
\* output wherever the linker has put the buffer.
OutputInside(m, l) ==
    IF m.out_deq
    THEN Size(l.out) > 0 /\ \A b \in Bases :
           ((b + l.out_oft + Size(l.out) + 7) \div 8) * 8 - b + 4 * Size(l.out) <= MainBufLen
    ELSE l.out_oft < MainBufLen

Inside(m) ==
    \A n \in 1..Len(m.layers) : Reached(m, n) =>
       LET l == m.layers[n]
       IN  /\ l.out_oft + WrittenBytes(l) <= MainBufLen
           /\ RecordHolds(l)
           /\ l.is_out => OutputInside(m, l)

\* A layer takes a matrix from where it was put, no more than there is of it,
\* and no layer in between writes there, nor does the layer itself.  A
\* reshape's output is its input.
Connected(m, n, u) ==
    /\ u.from \in 0..(n - 1) /\ u.oft = Place(m, u.from) /\ u.len <= Made(m, u.from)
    /\ \A j \in (u.from + 1)..n :
          LET l == m.layers[j]
          IN  Region(l.out_oft, WrittenBytes(l)) \cap Region(u.oft, u.len) = {}

Kept(m) ==
    /\ Pixels <= MainBufLen
    /\ \A n \in 1..Len(m.layers) : Reached(m, n) =>
          /\ \A u \in Uses(m, n) : Connected(m, n, u)
          /\ m.layers[n].type = "RESHAPE" => m.layers[n].out_oft = InputUse(m, n).oft

\* Scores are computed for the last layer, of all its output, and parse_output
\* finds as many as it takes.
Scored(m) ==
    m.out_deq =>
       /\ \A n \in 1..Len(m.layers) : Reached(m, n) /\ m.layers[n].is_out =>
             n = Len(m.layers) /\ Size(m.layers[n].out) <= Made(m, n)
       /\ Reached(m, Len(m.layers)) =>
             LET last == m.layers[Len(m.layers)]
             IN  Len(m.layers) > 0 /\ last.is_out /\ Classes <= Size(last.out)

WellLaid(m) == Sized(m) /\ Inside(m) /\ Kept(m) /\ Scored(m)

ModelsWellLaid == \A m \in Models : WellLaid(m)
=============================================================================
