---------------------------- MODULE EngineProofs ----------------------------
(***************************************************************************)
(* The engine runs every model that is laid out right: whatever the        *)
(* number, types and sizes of the layers, the number of inferences, and    *)
(* the models loaded or aborted before, every value is read where it was   *)
(* put in this inference, and no access leaves its array.                  *)
(***************************************************************************)
EXTENDS TmLayout, WellFoundedInduction, TLAPS

-----------------------------------------------------------------------------
(* The two recursive definitions, unfolded once.                           *)

LEMMA LeastElement ==
    ASSUME NEW S \in SUBSET Nat, S # {}
    PROVE  \E i \in S : \A j \in S : i <= j
<1>1. PICK i \in S : \A j \in S : ~(<<j, i>> \in OpToRel(<, Nat))
  BY NatLessThanWellFounded, WFMin, Zenon
<1>2. \A j \in S : ~(j < i)
  BY <1>1, Zenon DEF OpToRel
<1> QED BY <1>2

\* A function on 0..n can be given step by step.
Stepwise(f, n, v0, next) == f = [j \in 0..n |-> IF j = 0 THEN v0 ELSE next[<<j, f[j - 1]>>]]

LEMMA StepByStep ==
    ASSUME NEW n \in Nat, NEW V, NEW v0 \in V, NEW next \in [(1..n) \X V -> V]
    PROVE  \E f \in [0..n -> V] : Stepwise(f, n, v0, next)
<1> USE DEF Stepwise
<1> DEFINE Good(k) == \E f \in [0..k -> V] : Stepwise(f, k, v0, next)
           S == {k \in 0..n : ~Good(k)}
<1> SUFFICES S = {}
  OBVIOUS
<1> SUFFICES ASSUME S # {} PROVE FALSE
  OBVIOUS
<1>1. PICK k \in S : \A j \in S : k <= j
  BY LeastElement, S \subseteq Nat
<1>2. CASE k = 0
  <2>1. [j \in 0..0 |-> v0] = [j \in 0..0 |-> IF j = 0 THEN v0 ELSE next[<<j, [i \in 0..0 |-> v0][j - 1]>>]]
    OBVIOUS
  <2>2. [j \in 0..0 |-> v0] \in [0..0 -> V]
    OBVIOUS
  <2> QED BY <1>1, <1>2, <2>1, <2>2
<1>3. CASE k # 0
  <2>1. k - 1 \in 0..n /\ k \in 1..n /\ k - 1 \notin S
    BY <1>1, <1>3
  <2>2. PICK g \in [0..(k-1) -> V] : g = [j \in 0..(k-1) |-> IF j = 0 THEN v0 ELSE next[<<j, g[j - 1]>>]]
    BY <2>1
  <2> DEFINE f == [j \in 0..k |-> IF j = k THEN next[<<k, g[k - 1]>>] ELSE g[j]]
  <2>3. g[k - 1] \in V /\ <<k, g[k - 1]>> \in (1..n) \X V /\ next[<<k, g[k - 1]>>] \in V
    BY <2>1, <2>2
  <2>4. f \in [0..k -> V]
    BY <2>1, <2>2, <2>3
  <2>5. ASSUME NEW j \in 0..k PROVE f[j] = IF j = 0 THEN v0 ELSE next[<<j, f[j - 1]>>]
    <3>1. CASE j = k
      <4>1. f[k] = next[<<k, g[k - 1]>>] /\ k - 1 \in 0..k /\ k - 1 # k /\ k # 0
        BY <2>1, <1>3
      <4>2. f[k - 1] = g[k - 1]
        BY <4>1
      <4> HIDE DEF f
      <4> QED BY <3>1, <4>1, <4>2
    <3>2. CASE j # k
      <4>1. j \in 0..(k-1) /\ f[j] = g[j]
        BY <2>1, <3>2
      <4>2. j # 0 => j - 1 \in 0..k /\ j - 1 # k /\ f[j - 1] = g[j - 1]
        BY <2>1, <3>2
      <4>3. g[j] = IF j = 0 THEN v0 ELSE next[<<j, g[j - 1]>>]
        BY <2>2, <4>1
      <4> HIDE DEF f
      <4> QED BY <4>1, <4>2, <4>3
    <3> QED BY <3>1, <3>2
  <2>6. f = [j \in 0..k |-> IF j = 0 THEN v0 ELSE next[<<j, f[j - 1]>>]]
    <3> HIDE DEF f
    <3>1. f = [j \in 0..k |-> f[j]]
      BY <2>4
    <3> QED BY <3>1, <2>5, Zenon
  <2>7. Good(k)
    <3> HIDE DEF f
    <3> QED BY <2>4, <2>6
  <2> QED BY <1>1, <2>7
<1> QED BY <1>2, <1>3

LEMMA ModelTypes ==
    ASSUME NEW m \in Models
    PROVE  /\ m.layers \in Seq(LayerRecords) /\ Len(m.layers) \in Nat /\ m.out_deq \in BOOLEAN
           /\ \A n \in 1..Len(m.layers) : m.layers[n] \in LayerRecords
<1>1. m.layers \in Seq(LayerRecords) /\ m.out_deq \in BOOLEAN
  BY EngineConstants
<1> QED BY <1>1

LEMMA OffsetSteps ==
    ASSUME NEW m \in Models
    PROVE  /\ Offset(m, 0) = 0
           /\ \A n \in 1..Len(m.layers) : Offset(m, n) = Offset(m, n - 1) + m.layers[n].size
           /\ \A n \in 0..Len(m.layers) : Offset(m, n) \in Nat
<1> DEFINE N == Len(m.layers)
           next == [p \in (1..N) \X Nat |-> p[2] + m.layers[p[1]].size]
           Steps(f) == f = [j \in 0..N |-> IF j = 0 THEN 0 ELSE f[j - 1] + m.layers[j].size]
<1>1. N \in Nat /\ \A n \in 1..N : m.layers[n].size \in Nat
  BY ModelTypes DEF LayerRecords
<1>2. next \in [(1..N) \X Nat -> Nat]
  BY <1>1
<1>3. PICK g \in [0..N -> Nat] : Stepwise(g, N, 0, next)
  <2> HIDE DEF N, next
  <2>1. 0 \in Nat
    OBVIOUS
  <2> QED BY <1>1, <1>2, <2>1, StepByStep, Zenon
<1>4. \A j \in 0..N : g[j] = IF j = 0 THEN 0 ELSE g[j - 1] + m.layers[j].size
  <2>1. \A j \in 1..N : <<j, g[j - 1]>> \in (1..N) \X Nat
    <3> HIDE DEF N, next
    <3> QED BY <1>1, <1>3
  <2>2. \A j \in 1..N : next[<<j, g[j - 1]>>] = g[j - 1] + m.layers[j].size
    BY <2>1
  <2> HIDE DEF N, next
  <2>3. \A j \in 0..N : g[j] = IF j = 0 THEN 0 ELSE next[<<j, g[j - 1]>>]
    BY <1>3 DEF Stepwise
  <2>4. \A j \in 0..N : j # 0 => j \in 1..N
    BY <1>1
  <2> QED BY <1>1, <2>2, <2>3, <2>4
<1>5. Steps(g)
  <2>1. g = [j \in 0..N |-> g[j]]
    BY <1>3
  <2> HIDE DEF N
  <2> QED BY <1>4, <2>1, Zenon
<1>6. PICK f : f = CHOOSE chosen : Steps(chosen)
  OBVIOUS
<1>7. Steps(f)
  <2> HIDE DEF Steps
  <2> QED BY <1>5, <1>6
<1>8. \A n : Offset(m, n) = f[n]
  BY <1>6 DEF Offset
<1>9. \A n \in 0..N : f[n] = IF n = 0 THEN 0 ELSE f[n - 1] + m.layers[n].size
  <2> HIDE DEF N
  <2> QED BY <1>7
<1>10. \A n \in 0..N : f[n] \in Nat
  <2> DEFINE S == {n \in 0..N : f[n] \notin Nat}
  <2> SUFFICES ASSUME S # {} PROVE FALSE
    OBVIOUS
  <2>1. PICK k \in S : \A j \in S : k <= j
    BY LeastElement, S \subseteq Nat
  <2>2. k # 0 => k - 1 \in 0..N /\ k - 1 \notin S /\ k \in 1..N
    BY <1>1, <2>1
  <2>3. CASE k = 0
    BY <1>9, <2>1, <2>3
  <2>4. CASE k # 0
    <3>1. f[k - 1] \in Nat /\ m.layers[k].size \in Nat /\ f[k] = f[k - 1] + m.layers[k].size
      BY <1>1, <1>9, <2>1, <2>2, <2>4
    <3> QED BY <2>1, <3>1
  <2> QED BY <2>3, <2>4
<1> HIDE DEF N
<1>11. \A n \in 1..N : n \in 0..N /\ n # 0
  BY <1>1
<1>12. f[0] = 0 /\ \A n \in 1..N : f[n] = f[n - 1] + m.layers[n].size
  BY <1>1, <1>9, <1>11
<1> QED BY <1>8, <1>10, <1>12 DEF N

\* The output of a layer is a matrix of its own, but for a reshape.
LEMMA MatrixSteps ==
    ASSUME mdl \in Models
    PROVE  /\ Matrix(0) = 0
           /\ \A n \in 1..Len(mdl.layers) :
                 Matrix(n) = IF mdl.layers[n].type = "RESHAPE" THEN Matrix(n - 1) ELSE n
<1> DEFINE N == Len(mdl.layers)
           next == [p \in (1..N) \X (0..N) |-> IF mdl.layers[p[1]].type = "RESHAPE" THEN p[2] ELSE p[1]]
           Steps(f) == f = [j \in 0..N |-> IF j > 0 /\ mdl.layers[j].type = "RESHAPE" THEN f[j - 1] ELSE j]
<1>1. N \in Nat
  BY ModelTypes
<1>2. next \in [(1..N) \X (0..N) -> 0..N]
  BY <1>1
<1>3. PICK g \in [0..N -> 0..N] : Stepwise(g, N, 0, next)
  <2> HIDE DEF N, next
  <2>1. 0 \in 0..N
    BY <1>1
  <2> QED BY <1>1, <1>2, <2>1, StepByStep, Zenon
<1>4. \A j \in 0..N : g[j] = IF j > 0 /\ mdl.layers[j].type = "RESHAPE" THEN g[j - 1] ELSE j
  <2>1. \A j \in 1..N : <<j, g[j - 1]>> \in (1..N) \X (0..N)
    <3> HIDE DEF N, next
    <3> SUFFICES ASSUME NEW j \in 1..N PROVE g[j - 1] \in 0..N
      OBVIOUS
    <3>1. j - 1 \in 0..N
      BY <1>1
    <3> QED BY <1>3, <3>1
  <2>2. \A j \in 1..N : next[<<j, g[j - 1]>>] = IF mdl.layers[j].type = "RESHAPE" THEN g[j - 1] ELSE j
    BY <2>1
  <2> HIDE DEF N, next
  <2>3. \A j \in 0..N : g[j] = IF j = 0 THEN 0 ELSE next[<<j, g[j - 1]>>]
    BY <1>3 DEF Stepwise
  <2>4. \A j \in 0..N : j # 0 => j \in 1..N
    BY <1>1
  <2>5. \A j \in 0..N : j = 0 => g[j] = j
    BY <2>3, Zenon
  <2>6. \A j \in 0..N : j # 0 => g[j] = next[<<j, g[j - 1]>>]
    BY <2>3, Zenon
  <2>7. \A j \in 0..N : j # 0 => j > 0
    BY <1>1
  <2>8. \A j \in 0..N : j = 0 => ~(j > 0)
    OBVIOUS
  <2> QED BY <2>2, <2>4, <2>5, <2>6, <2>7, <2>8, Zenon
<1>5. Steps(g)
  <2>1. g = [j \in 0..N |-> g[j]]
    BY <1>3
  <2> HIDE DEF N
  <2> QED BY <1>4, <2>1, Zenon
<1>6. PICK f : f = CHOOSE chosen : Steps(chosen)
  OBVIOUS
<1>7. Steps(f)
  <2> HIDE DEF Steps
  <2> QED BY <1>5, <1>6
<1>8. \A n : Matrix(n) = f[n]
  BY <1>6 DEF Matrix
<1>9. \A n \in 0..N : f[n] = IF n > 0 /\ mdl.layers[n].type = "RESHAPE" THEN f[n - 1] ELSE n
  <2> HIDE DEF N
  <2> QED BY <1>7
<1> HIDE DEF N
<1>10. 0 \in 0..N /\ \A n \in 1..N : n \in 0..N /\ n > 0
  BY <1>1
<1> QED BY <1>8, <1>9, <1>10 DEF N

-----------------------------------------------------------------------------
(* The cursor.                                                             *)

LEMMA OffsetsGrow ==
    ASSUME NEW m \in Models, Sized(m), NEW i \in 0..Len(m.layers), NEW k \in 0..Len(m.layers), i < k
    PROVE  Offset(m, i) < Offset(m, k)
<1> DEFINE S == {j \in 0..Len(m.layers) : i < j /\ Offset(m, j) <= Offset(m, i)}
<1>1. Len(m.layers) \in Nat /\ \A n \in 1..Len(m.layers) : m.layers[n].size \in Nat \ {0}
  <2>1. \A n \in 1..Len(m.layers) : m.layers[n].size \in Nat
    BY ModelTypes DEF LayerRecords
  <2> QED BY <2>1, ModelTypes DEF Sized
<1>2. S = {}
  <2> SUFFICES ASSUME S # {} PROVE FALSE
    OBVIOUS
  <2>1. PICK j \in S : \A o \in S : j <= o
    BY <1>1, LeastElement, S \subseteq Nat
  <2>2. /\ j \in 1..Len(m.layers) /\ j - 1 \in 0..Len(m.layers) /\ j - 1 \notin S
    BY <1>1, <2>1
  <2>3. Offset(m, j) = Offset(m, j - 1) + m.layers[j].size
    BY <2>2, OffsetSteps
  <2>4. Offset(m, i) \in Nat /\ Offset(m, j - 1) \in Nat /\ m.layers[j].size \in Nat \ {0}
    BY <1>1, <2>2, OffsetSteps
  <2>5. Offset(m, i) <= Offset(m, j - 1)
    <3>1. CASE i = j - 1
      BY <2>4, <3>1
    <3>2. CASE i # j - 1
      BY <1>1, <2>1, <2>2, <2>4, <3>2
    <3> QED BY <3>1, <3>2
  <2> QED BY <2>1, <2>3, <2>4, <2>5
<1>3. Offset(m, i) \in Nat /\ Offset(m, k) \in Nat
  BY OffsetSteps
<1> QED BY <1>2, <1>3

\* A record is found at its offset.
LEMMA RecordFound ==
    ASSUME NEW m \in Models, Sized(m), NEW i \in 0..(Len(m.layers) - 1)
    PROVE  LayerAt(m, Offset(m, i)) = m.layers[i + 1]
<1>1. Len(m.layers) \in Nat
  BY ModelTypes
<1>2. \A n \in 1..Len(m.layers) : Offset(m, n - 1) = Offset(m, i) => n = i + 1
  <2>1. ASSUME NEW n \in 1..Len(m.layers), n # i + 1 PROVE Offset(m, n - 1) # Offset(m, i)
    <3>1. n - 1 \in 0..Len(m.layers) /\ i \in 0..Len(m.layers) /\ (n - 1 < i \/ i < n - 1)
      BY <1>1, <2>1
    <3>2. Offset(m, n - 1) \in Nat /\ Offset(m, i) \in Nat
      BY <3>1, OffsetSteps
    <3> QED BY <3>1, <3>2, OffsetsGrow
  <2> QED BY <2>1
<1>3. i + 1 \in 1..Len(m.layers) /\ Offset(m, (i + 1) - 1) = Offset(m, i)
  BY <1>1
<1>4. (CHOOSE n \in 1..Len(m.layers) : Offset(m, n - 1) = Offset(m, i)) = i + 1
  BY <1>2, <1>3
<1> QED BY <1>4 DEF LayerAt

-----------------------------------------------------------------------------
(* Arithmetic: an element of a row, of a matrix, of an image.              *)

LEMMA Below ==
    ASSUME NEW A \in Nat, NEW B \in Nat, NEW a \in 0..(A - 1), NEW b \in 0..(B - 1)
    PROVE  a * B + b \in 0..(A * B - 1) /\ a * B \in Nat /\ A * B \in Nat
<1>1. PICK d \in Nat : A = a + 1 + d
  <2>1. A - a - 1 \in Nat /\ A = a + 1 + (A - a - 1)
    OBVIOUS
  <2> QED BY <2>1
<1>2. a \in Nat /\ a * B \in Nat /\ d * B \in Nat
  OBVIOUS
<1>3. A * B = a * B + B + d * B
  BY <1>1, <1>2
<1> QED BY <1>2, <1>3

LEMMA Division ==
    ASSUME NEW b \in Nat \ {0}, NEW a \in Nat
    PROVE  a = b * (a \div b) + (a % b) /\ a % b \in 0..(b - 1) /\ a \div b \in Nat
  OBVIOUS

\* Quotient and remainder are the only ones.
LEMMA DivisionUnique ==
    ASSUME NEW b \in Nat \ {0}, NEW q \in Nat, NEW r \in 0..(b - 1), NEW a \in Nat, a = b * q + r
    PROVE  a \div b = q /\ a % b = r
  OBVIOUS

LEMMA QuotientBelow ==
    ASSUME NEW A \in Nat, NEW B \in Nat \ {0}, NEW a \in Nat, a < A * B
    PROVE  a \div B \in 0..(A - 1)
<1>1. a = B * (a \div B) + (a % B) /\ a % B \in 0..(B - 1) /\ a \div B \in Nat
  BY Division
<1>2. PICK q \in Nat, r \in Nat : q = a \div B /\ a = B * q + r
  BY <1>1
<1>3. CASE q >= A
  <2>1. PICK d \in Nat : q = A + d
    BY <1>3, q - A \in Nat
  <2>2. B * q = A * B + B * d /\ B * d \in Nat /\ A * B \in Nat
    BY <2>1
  <2> QED BY <1>2, <2>2
<1> QED BY <1>2, <1>3

\* The next one is in the same row or begins the next.
LEMMA NextDivision ==
    ASSUME NEW b \in Nat \ {0}, NEW a \in Nat
    PROVE  IF (a % b) + 1 < b THEN (a + 1) \div b = a \div b /\ (a + 1) % b = (a % b) + 1
           ELSE (a + 1) \div b = a \div b + 1 /\ (a + 1) % b = 0
<1>1. a = b * (a \div b) + (a % b) /\ a % b \in 0..(b - 1) /\ a \div b \in Nat
  BY Division
<1>2. PICK q \in Nat, r \in 0..(b - 1) : q = a \div b /\ r = a % b /\ a = b * q + r
  BY <1>1
<1>3. CASE r + 1 < b
  <2>1. a + 1 = b * q + (r + 1) /\ r + 1 \in 0..(b - 1) /\ a + 1 \in Nat
    BY <1>2, <1>3
  <2>2. (a + 1) \div b = q /\ (a + 1) % b = r + 1
    BY <2>1, DivisionUnique
  <2> QED BY <1>2, <1>3, <2>2
<1>4. CASE ~(r + 1 < b)
  <2>1. b * (q + 1) = b * q + b
    OBVIOUS
  <2>2. a + 1 = b * (q + 1) + 0 /\ q + 1 \in Nat /\ 0 \in 0..(b - 1) /\ a + 1 \in Nat
    BY <1>2, <1>4, <2>1
  <2>3. PICK x \in Nat, y \in Nat, z \in 0..(b - 1) : x = a + 1 /\ y = q + 1 /\ z = 0
    BY <2>2
  <2>4. x = b * y + z
    BY <2>2, <2>3
  <2>5. x \div b = y /\ x % b = z
    BY <2>4
  <2> QED BY <1>2, <1>4, <2>3, <2>5
<1> QED BY <1>3, <1>4

-----------------------------------------------------------------------------
(* The inductive invariant.                                                *)

Current == mdl.layers[layer_i + 1]
Working == phase = "layer" /\ layer_i < Len(mdl.layers) /\ Accepted(Current)

TypesInv ==
    /\ mdl \in Models
    /\ phase \in {"idle", "layer", "output", "parse"}
    /\ layer_i \in 0..Len(mdl.layers) /\ layer_body = Offset(mdl, layer_i)
    /\ step \in Nat /\ run \in 0..MaxRuns
    /\ outs \in Addresses /\ base \in Bases
    /\ buf = [a \in Addresses |-> buf[a]]

\* How far the walk over the layers is.
WalkInv ==
    /\ phase # "idle" => Reached(mdl, layer_i)
    /\ phase = "output" =>
          /\ layer_i < Len(mdl.layers) /\ Accepted(Current) /\ Current.is_out /\ mdl.out_deq
          /\ outs = Align(Current.out_oft + Size(Current.out)) /\ step <= Size(Current.out)
    /\ phase = "parse" => layer_i = Len(mdl.layers)

EngineTypes == TypesInv /\ WalkInv

\* The first elements of the output that layer l has computed after s steps.
Done(l, s) ==
    IF l.type \notin Convolutions THEN s
    ELSE IF l.k * l.k # 1 THEN s * l.out.c
    ELSE IF l.out.c = 0 THEN 0
    ELSE LET pixels == s \div ((l.out.c + 1) \div 2)
             chans == 2 * (s % ((l.out.c + 1) \div 2))
         IN  pixels * l.out.c + (IF chans < l.out.c THEN chans ELSE l.out.c)

\* Bytes, or floats, of matrix n are in the buffer.
Holds(oft, n, bytes) == \A i \in bytes : oft + i \in Addresses /\ buf[oft + i] = Name(n, "q", i)
HoldsFloats(oft, n, form, cells) ==
    \A i \in cells : \A a \in Float(oft, i) : a \in Addresses /\ buf[a] = Name(n, form, i)

\* What a layer still to come takes from those before is there.
ReadyInv ==
    phase = "layer" =>
       \A n \in (layer_i + 1)..Len(mdl.layers) : Reached(mdl, n) =>
          \A u \in Uses(mdl, n) : u.from <= layer_i => Holds(u.oft, u.from, 0..(u.len - 1))

\* What the present layer has computed is there: tml_softmax makes three passes
\* over its cells, floats, their exponentials, and bytes over them.
SoftmaxInv(l) ==
    LET cells == 0..(l.in.c - 1)
    IN  /\ HoldsFloats(l.out_oft, Produced, "real", {i \in cells : step > i /\ step <= l.in.c + i})
        /\ HoldsFloats(l.out_oft, Produced, "exp",
                       {i \in cells : step > l.in.c + i /\ step <= 2 * l.in.c + i})
        /\ Holds(l.out_oft, Produced, {i \in cells : step > 2 * l.in.c + i})
MadeInv ==
    Working =>
       CASE Current.type = "SOFTMAX" -> SoftmaxInv(Current)
         [] Current.type = "RESHAPE" -> TRUE
         [] OTHER -> Holds(Current.out_oft, Produced, 0..(Done(Current, step) - 1))

OutputInv ==
    phase = "output" =>
       /\ Holds(Current.out_oft, Produced, 0..(Size(Current.out) - 1))
       /\ HoldsFloats(outs, Produced, "score", 0..(step - 1))

ScoresInv ==
    phase \in {"layer", "parse"} /\ layer_i = Len(mdl.layers) /\ mdl.out_deq =>
       HoldsFloats(outs, Len(mdl.layers), "score", 0..(Classes - 1))

EngineInv == EngineTypes /\ ReadyInv /\ MadeInv /\ OutputInv /\ ScoresInv

-----------------------------------------------------------------------------
(* Types and the walk.                                                     *)

LEMMA RecordTypes ==
    ASSUME NEW l \in LayerRecords
    PROVE  /\ l.type \in LayerTypes \cup {"unknown"} /\ l.is_out \in BOOLEAN
           /\ {l.size, l.in_oft, l.out_oft, l.in_oft1, l.from1, l.k, l.s, l.dil, l.pad, l.dmul,
               l.ws_oft, l.w_oft, l.b_oft} \subseteq Nat
           /\ {l.in.h, l.in.w, l.in.c, l.out.h, l.out.w, l.out.c} \subseteq Nat
           /\ Size(l.in) \in Nat /\ Size(l.out) \in Nat /\ WrittenBytes(l) \in Nat
           /\ NeededBytes(l) \in Nat /\ l.k * l.k \in Nat
<1>1. /\ l.type \in LayerTypes \cup {"unknown"} /\ l.is_out \in BOOLEAN
      /\ {l.size, l.in_oft, l.out_oft, l.in_oft1, l.from1, l.k, l.s, l.dil, l.pad, l.dmul,
          l.ws_oft, l.w_oft, l.b_oft} \subseteq Nat
      /\ l.in \in Dims /\ l.out \in Dims
  BY DEF LayerRecords
<1>2. {l.in.h, l.in.w, l.in.c, l.out.h, l.out.w, l.out.c} \subseteq Nat
  BY <1>1 DEF Dims
<1>3. \A a \in Nat, b \in Nat : a * b \in Nat
  OBVIOUS
<1>4. /\ Size(l.in) \in Nat /\ Size(l.out) \in Nat /\ l.k * l.k \in Nat
      /\ l.in.h * l.in.w \in Nat /\ l.out.c * (l.in.h * l.in.w) \in Nat
  BY <1>1, <1>2, <1>3 DEF Size
<1>5. WrittenBytes(l) \in Nat
  BY <1>2, <1>4 DEF WrittenBytes
<1>6. NeededBytes(l) \in Nat
  BY <1>2, <1>4 DEF NeededBytes
<1> QED BY <1>1, <1>2, <1>4, <1>5, <1>6

\* While a layer is at work, layer_body is its record.
LEMMA CurrentRecord ==
    ASSUME TypesInv, Sized(mdl), layer_i < Len(mdl.layers)
    PROVE  /\ h = Current /\ Current \in LayerRecords
           /\ layer_i + 1 \in 1..Len(mdl.layers) /\ Current = mdl.layers[layer_i + 1]
<1>1. Len(mdl.layers) \in Nat /\ layer_i \in 0..(Len(mdl.layers) - 1) /\ mdl \in Models
  BY ModelTypes DEF TypesInv
<1>2. h = Current
  BY <1>1, RecordFound DEF h, Current, TypesInv
<1> QED BY <1>1, <1>2, ModelTypes DEF Current

LEMMA StatusAccepts ==
    ASSUME h \in LayerRecords
    PROVE  LayerStatus = "TM_OK" <=> Accepted(h)
<1>1. PICK l \in LayerRecords : l = h
  OBVIOUS
<1>2. l.type \in LayerTypes \cup {"unknown"}
  BY RecordTypes
<1>3. CASE l.type = "unknown"
  BY <1>1, <1>3 DEF LayerStatus, Accepted, LayerTypes
<1>4. CASE l.type \in Convolutions
  <2>1. PICK k \in Nat : k = l.k * l.k
    BY RecordTypes
  <2>2. /\ IsConv /\ MaxK = k /\ h.type # "unknown" /\ h.type \in LayerTypes
        /\ Accepted(h) <=> h.dil = 1 /\ k <= MaxKSize /\ (k = 1 => h.pad = 0 /\ h.dmul = 0)
    BY <1>1, <1>4, <2>1 DEF Accepted, IsConv, MaxK, Convolutions, LayerTypes
  <2>3. k > MaxKSize <=> ~(k <= MaxKSize)
    BY EngineConstants
  <2> QED BY <2>2, <2>3 DEF LayerStatus, Pointwise
<1>5. CASE l.type \in LayerTypes \ Convolutions
  BY <1>1, <1>5 DEF LayerStatus, Accepted, IsConv, Convolutions, LayerTypes
<1> QED BY <1>2, <1>3, <1>4, <1>5

LEMMA AlignInside ==
    ASSUME base \in Bases, NEW a \in Nat
    PROVE  /\ Align(a) = ((base + a + 7) \div 8) * 8 - base
           /\ Align(a) \in Nat /\ a <= Align(a) /\ Align(a) <= a + 7
<1>1. base \in 0..7
  BY EngineConstants
<1> QED BY <1>1 DEF Align

\* The layers up to the present one are reached.
LEMMA ReachesCurrent ==
    ASSUME EngineTypes, phase # "idle", layer_i < Len(mdl.layers), Accepted(Current)
    PROVE  Reached(mdl, layer_i + 1)
<1>1. layer_i \in Nat /\ \A j \in 1..layer_i : Accepted(mdl.layers[j])
  BY ModelTypes DEF EngineTypes, TypesInv, WalkInv, Reached
<1>2. Accepted(mdl.layers[layer_i + 1])
  BY DEF Current
<1>3. \A j \in 1..(layer_i + 1) : j \in 1..layer_i \/ j = layer_i + 1
  BY <1>1
<1> QED BY <1>1, <1>2, <1>3 DEF Reached

\* Its output is inside the buffer, and the scores behind it.
LEMMA OutputPlace ==
    ASSUME EngineTypes, WellLaid(mdl), phase # "idle", layer_i < Len(mdl.layers), Accepted(Current),
           Current.is_out
    PROVE  /\ ~mdl.out_deq => Current.out_oft \in Addresses
           /\ mdl.out_deq =>
                /\ Align(Current.out_oft + Size(Current.out)) \in Addresses
                /\ Current.out_oft + Size(Current.out) <= Align(Current.out_oft + Size(Current.out))
                /\ Align(Current.out_oft + Size(Current.out)) + 4 * Size(Current.out) <= MainBufLen
<1>1. layer_i + 1 \in 1..Len(mdl.layers) /\ Reached(mdl, layer_i + 1) /\ Current = mdl.layers[layer_i + 1]
  BY ReachesCurrent, CurrentRecord DEF EngineTypes, WellLaid
<1>2. PICK l \in LayerRecords : l = Current
  BY CurrentRecord DEF EngineTypes, WellLaid
<1>3. OutputInside(mdl, l)
  BY <1>1, <1>2 DEF WellLaid, Inside
<1>4. PICK z \in Nat, o \in Nat : z = Size(l.out) /\ o = l.out_oft
  BY RecordTypes
<1>5. MainBufLen \in Nat
  BY EngineConstants
<1>6. CASE ~mdl.out_deq
  BY <1>2, <1>3, <1>4, <1>5, <1>6 DEF OutputInside, Addresses
<1>7. CASE mdl.out_deq
  <2>1. z > 0 /\ ((base + o + z + 7) \div 8) * 8 - base + 4 * z <= MainBufLen
    BY <1>3, <1>4, <1>7 DEF OutputInside, EngineTypes, TypesInv
  <2>2. /\ Align(o + z) = ((base + (o + z) + 7) \div 8) * 8 - base
        /\ Align(o + z) \in Nat /\ o + z <= Align(o + z)
    BY <1>4, AlignInside DEF EngineTypes, TypesInv
  <2>3. base + (o + z) + 7 = base + o + z + 7
    <3>1. base \in 0..7
      BY EngineConstants DEF EngineTypes, TypesInv
    <3> QED BY <1>4, <3>1
  <2>4. Align(o + z) + 4 * z <= MainBufLen
    BY <2>1, <2>2, <2>3
  <2>5. Align(o + z) \in Addresses
    BY <1>4, <1>5, <2>1, <2>2, <2>4 DEF Addresses
  <2> QED BY <1>2, <1>4, <1>7, <2>2, <2>4, <2>5
<1> QED BY <1>6, <1>7

LEMMA InitTypes == Init => EngineTypes
<1> SUFFICES ASSUME Init PROVE EngineTypes
  OBVIOUS
<1>1. mdl \in Models /\ Offset(mdl, 0) = 0 /\ Len(mdl.layers) \in Nat
  BY OffsetSteps, ModelTypes DEF Init
<1>2. 0 \in Addresses /\ 0 \in 0..MaxRuns
  BY EngineConstants DEF Addresses
<1> QED BY <1>1, <1>2 DEF Init, EngineTypes, TypesInv, WalkInv

\* Stepping to the next layer.
LEMMA AdvanceTypes ==
    ASSUME EngineTypes, WellLaid(mdl), Advance, layer_i < Len(mdl.layers), Accepted(Current), phase # "idle",
           UNCHANGED <<mdl, base, run>>, outs' \in Addresses, buf' = [a \in Addresses |-> buf'[a]]
    PROVE  EngineTypes'
<1>1. /\ h = Current /\ layer_i + 1 \in 1..Len(mdl.layers) /\ Current = mdl.layers[layer_i + 1]
      /\ Reached(mdl, layer_i + 1) /\ Len(mdl.layers) \in Nat /\ layer_i \in 0..Len(mdl.layers)
  BY CurrentRecord, ReachesCurrent, ModelTypes DEF EngineTypes, WellLaid, TypesInv
<1>2. /\ layer_i' = layer_i + 1 /\ phase' = "layer" /\ step' = 0
      /\ layer_body' = Offset(mdl, layer_i) + Current.size
  BY <1>1 DEF Advance, EngineTypes, TypesInv
<1>3. PICK i : i = layer_i + 1
  OBVIOUS
<1>4. Offset(mdl, i) = Offset(mdl, i - 1) + mdl.layers[i].size /\ i - 1 = layer_i
  BY <1>1, <1>3, OffsetSteps DEF EngineTypes, TypesInv
<1>5. layer_body' = Offset(mdl, i) /\ layer_i' = i
  BY <1>1, <1>2, <1>3, <1>4
<1>6. Offset(mdl, i)' = Offset(mdl, i) /\ Reached(mdl, i)' = Reached(mdl, i)
  BY DEF Offset, Reached
<1>7. TypesInv'
  BY <1>1, <1>2, <1>3, <1>5, <1>6 DEF EngineTypes, TypesInv
<1>8. Reached(mdl', layer_i')
  BY <1>1, <1>3, <1>5, <1>6
<1> QED BY <1>2, <1>7, <1>8 DEF EngineTypes, WalkInv

LEMMA NextTypes ==
    ASSUME EngineTypes, WellLaid(mdl), [Next]_vars
    PROVE  EngineTypes'
<1> USE DEF EngineTypes, TypesInv, WalkInv
<1>1. CASE \E m \in Models : Load(m)
  <2>1. PICK m \in Models : Load(m)
    BY <1>1
  <2>2. Offset(m, 0) = 0 /\ Len(m.layers) \in Nat
    BY OffsetSteps, ModelTypes
  <2>3. layer_body' = Offset(mdl', layer_i')
    BY <2>1, <2>2 DEF Load
  <2> QED BY <2>1, <2>2, <2>3 DEF Load
<1>2. CASE Preprocess
  <2>1. Offset(mdl, 0) = 0 /\ Len(mdl.layers) \in Nat /\ MaxRuns \in Nat
    BY OffsetSteps, ModelTypes, EngineConstants
  <2>2. layer_body' = Offset(mdl', layer_i') /\ layer_i' = 0 /\ phase' = "layer"
    BY <1>2, <2>1 DEF Preprocess, StartCursor
  <2>3. Reached(mdl', layer_i')
    BY <2>2 DEF Reached
  <2>4. run' \in 0..MaxRuns
    BY <1>2, <2>1 DEF Preprocess
  <2>5. buf' = [a \in Addresses |-> buf'[a]]
    BY <1>2 DEF Preprocess
  <2> QED BY <1>2, <2>1, <2>2, <2>3, <2>4, <2>5 DEF Preprocess
<1>3. CASE LayerFails
  BY <1>3 DEF LayerFails
<1>4. CASE LayerStep
  <2>1. buf' = [a \in Addresses |-> buf'[a]]
    BY <1>4 DEF LayerStep, Stored
  <2>2. UNCHANGED <<mdl, phase, layer_i, layer_body, base, outs, run>> /\ phase = "layer" /\ step' = step + 1
    BY <1>4 DEF LayerStep
  <2> QED BY <2>1, <2>2
<1>5. CASE LayerDone
  <2>1. /\ layer_i < Len(mdl.layers) /\ phase = "layer" /\ h = Current /\ Accepted(Current)
        /\ UNCHANGED <<mdl, buf, base, run>>
    BY <1>5, CurrentRecord, StatusAccepts DEF LayerDone, More, WellLaid
  <2>2. CASE Advance /\ UNCHANGED outs
    BY <2>1, <2>2, AdvanceTypes
  <2>3. CASE h.is_out /\ ~mdl.out_deq /\ outs' = h.out_oft /\ Advance
    BY <2>1, <2>3, AdvanceTypes, OutputPlace
  <2>4. CASE /\ h.is_out /\ mdl.out_deq /\ outs' = Align(h.out_oft + Size(h.out))
             /\ phase' = "output" /\ step' = 0 /\ UNCHANGED <<layer_i, layer_body>>
    <3>1. outs' \in Addresses
      BY <2>1, <2>4, OutputPlace
    <3>2. Current' = Current /\ Size(Current.out) \in Nat
      BY <2>1, <2>4, CurrentRecord, RecordTypes DEF Current, WellLaid
    <3>3. Align(Current.out_oft + Size(Current.out))' = Align(Current.out_oft + Size(Current.out))
      BY <2>1, <3>2 DEF Align
    <3> QED BY <2>1, <2>4, <3>1, <3>2, <3>3
  <2> QED BY <1>5, <2>2, <2>3, <2>4 DEF LayerDone
<1>6. CASE Dequantise
  <2>1. /\ phase = "output" /\ layer_i < Len(mdl.layers) /\ h = Current /\ Accepted(Current)
        /\ UNCHANGED <<mdl, base, outs, run>> /\ Size(Current.out) \in Nat
    BY <1>6, CurrentRecord, RecordTypes DEF Dequantise, WellLaid
  <2>2. CASE /\ step < Size(h.out) /\ buf' = Stored(Dequantised(step)) /\ step' = step + 1
             /\ UNCHANGED <<phase, layer_i, layer_body>>
    <3>1. Current' = Current
      BY <2>1, <2>2 DEF Current
    <3>2. Align(Current.out_oft + Size(Current.out))' = Align(Current.out_oft + Size(Current.out))
      BY <2>1, <3>1 DEF Align
    <3>3. buf' = [a \in Addresses |-> buf'[a]]
      BY <2>2 DEF Stored
    <3>4. step' <= Size(Current.out)
      BY <2>1, <2>2
    <3> QED BY <2>1, <2>2, <3>1, <3>2, <3>3, <3>4
  <2>3. CASE Advance /\ UNCHANGED buf
    BY <2>1, <2>3, AdvanceTypes
  <2> QED BY <1>6, <2>2, <2>3 DEF Dequantise
<1>7. CASE RunDone
  <2>1. layer_i = Len(mdl.layers)
    BY <1>7, ModelTypes DEF RunDone, More
  <2> QED BY <1>7, <2>1 DEF RunDone
<1>8. CASE ParseOutput
  BY <1>8 DEF ParseOutput
<1>9. CASE UNCHANGED vars
  <2>1. UNCHANGED <<mdl, phase, layer_i, layer_body, step, buf, base, outs, run>>
    BY <1>9 DEF vars
  <2>2. Current' = Current
    BY <2>1 DEF Current
  <2>3. Align(Current.out_oft + Size(Current.out))' = Align(Current.out_oft + Size(Current.out))
    BY <2>1, <2>2 DEF Align
  <2> QED BY <2>1, <2>2, <2>3
<1> QED BY <1>1, <1>2, <1>3, <1>4, <1>5, <1>6, <1>7, <1>8, <1>9 DEF Next

-----------------------------------------------------------------------------
(* What a step of a layer writes, by the kind of layer.                    *)

\* A step that writes values leaves one at each of their addresses, and the
\* rest of the buffer as it is.
LEMMA StoredBytes ==
    ASSUME NEW oft \in Nat, NEW n, NEW I \in SUBSET Nat
    PROVE  LET b == Stored(Quantised(oft, n, I))
           IN  /\ \A i \in I : oft + i \in Addresses => b[oft + i] = Name(n, "q", i)
               /\ \A a \in Addresses : (\A i \in I : a # oft + i) => b[a] = buf[a]
<1> DEFINE V == Quantised(oft, n, I)
<1>1. \A v : v \in V <=> \E i \in I : v = <<oft + i, Name(n, "q", i)>>
  BY DEF Quantised
<1>2. ASSUME NEW i \in I, oft + i \in Addresses PROVE Stored(V)[oft + i] = Name(n, "q", i)
  <2>1. <<oft + i, Name(n, "q", i)>> \in V /\ <<oft + i, Name(n, "q", i)>>[1] = oft + i
    BY <1>1
  <2>2. PICK w : w = CHOOSE v \in V : v[1] = oft + i
    OBVIOUS
  <2> HIDE DEF V
  <2>3. w \in V /\ w[1] = oft + i
    BY <2>1, <2>2
  <2>4. PICK j \in I : w = <<oft + j, Name(n, "q", j)>>
    BY <1>1, <2>3
  <2>5. oft + j = oft + i /\ w[2] = Name(n, "q", j)
    BY <2>3, <2>4
  <2>6. j = i
    BY <2>5
  <2>7. Stored(V)[oft + i] = w[2]
    BY <1>2, <2>1, <2>2 DEF Stored
  <2> QED BY <2>5, <2>6, <2>7
<1>3. ASSUME NEW a \in Addresses, \A i \in I : a # oft + i PROVE Stored(V)[a] = buf[a]
  <2>1. ~ \E v \in V : v[1] = a
    BY <1>1, <1>3
  <2> HIDE DEF V
  <2> QED BY <2>1 DEF Stored
<1> QED BY <1>2, <1>3

LEMMA StoredFloat ==
    ASSUME NEW oft \in Nat, NEW n, NEW form, NEW c \in Nat
    PROVE  LET b == Stored(Floats(oft, n, form, c))
           IN  /\ \A a \in Float(oft, c) \cap Addresses : b[a] = Name(n, form, c)
               /\ \A a \in Addresses \ Float(oft, c) : b[a] = buf[a]
<1> DEFINE V == Floats(oft, n, form, c)
<1>1. \A v : v \in V <=> \E a \in Float(oft, c) : v = <<a, Name(n, form, c)>>
  BY DEF Floats
<1>2. ASSUME NEW a \in Float(oft, c) \cap Addresses PROVE Stored(V)[a] = Name(n, form, c)
  <2>1. <<a, Name(n, form, c)>> \in V /\ <<a, Name(n, form, c)>>[1] = a
    BY <1>1
  <2>2. PICK w : w = CHOOSE v \in V : v[1] = a
    OBVIOUS
  <2> HIDE DEF V
  <2>3. w \in V
    BY <2>1, <2>2
  <2>4. w[2] = Name(n, form, c)
    BY <1>1, <2>3
  <2>5. Stored(V)[a] = w[2]
    BY <2>1, <2>2 DEF Stored
  <2> QED BY <2>4, <2>5
<1>3. ASSUME NEW a \in Addresses \ Float(oft, c) PROVE Stored(V)[a] = buf[a]
  <2>1. ~ \E v \in V : v[1] = a
    BY <1>1, <1>3
  <2> HIDE DEF V
  <2> QED BY <2>1 DEF Stored
<1> QED BY <1>2, <1>3

\* The elements that a step of a convolution writes are among those of its
\* output and continue those written before; it reads among those of its input.
LEMMA ConvStep ==
    ASSUME NEW l \in LayerRecords, h = l, l.type \in Convolutions, step \in Nat, step < ConvSteps
    PROVE  /\ ConvWrites \subseteq 0..(Size(l.out) - 1)
           /\ \A e \in ConvWrites : e % l.out.c \in 0..(l.out.c - 1)
           /\ \A e \in 0..(Done(l, step + 1) - 1) : e \in ConvWrites \/ e < Done(l, step)
<1> DEFINE B == (l.out.c + 1) \div 2
<1>1. PICK C \in Nat, P \in Nat : C = l.out.c /\ P = l.out.h * l.out.w /\ Size(l.out) = P * C
  <2>1. l.out.h \in Nat /\ l.out.w \in Nat /\ l.out.c \in Nat
    BY RecordTypes
  <2>2. l.out.h * l.out.w \in Nat
    BY <2>1
  <2> QED BY <2>1, <2>2 DEF Size
<1>2. PICK p \in Nat : p = ConvPixel
  <2>1. CASE Pointwise
    <3>1. step < P * B /\ B \in Nat
      BY <1>1, <2>1 DEF ConvSteps, Batches
    <3>2. B # 0
      BY <1>1, <3>1
    <3> QED BY <1>1, <2>1, <3>1, <3>2, Division DEF ConvPixel, Batches
  <2>2. CASE ~Pointwise
    BY <2>2 DEF ConvPixel
  <2> QED BY <2>1, <2>2
<1>3. CASE ~Pointwise
  <2>1. p = step /\ p \in 0..(P - 1) /\ ConvWrites = {p * C + ch : ch \in 0..(C - 1)}
    BY <1>1, <1>2, <1>3 DEF ConvSteps, ConvPixel, ConvWrites
  <2>2. Done(l, step) = p * C /\ Done(l, step + 1) = (p + 1) * C
    BY <1>1, <1>3, <2>1 DEF Done, Pointwise, MaxK
  <2>3. p * C \in Nat /\ (p + 1) * C = p * C + C
    BY <2>1
  <2>4. ASSUME NEW ch \in 0..(C - 1) PROVE p * C + ch \in 0..(P * C - 1) /\ (p * C + ch) % C = ch
    <3>1. C \in Nat \ {0}
      OBVIOUS
    <3>2. p * C + ch \in 0..(P * C - 1)
      BY <2>1, Below
    <3>3. PICK a \in Nat : a = C * p + ch /\ a = p * C + ch
      BY <2>3
    <3>4. a % C = ch
      BY <2>1, <3>1, <3>3, DivisionUnique
    <3> QED BY <3>2, <3>3, <3>4
  <2>5. ASSUME NEW e \in 0..(Done(l, step + 1) - 1), ~(e < Done(l, step)) PROVE e \in ConvWrites
    <3>1. e - p * C \in 0..(C - 1) /\ e = p * C + (e - p * C)
      BY <2>2, <2>3, <2>5
    <3> QED BY <2>1, <3>1
  <2> QED BY <1>1, <2>1, <2>4, <2>5
<1>4. CASE Pointwise
  <2>1. step < P * B /\ B \in Nat
    BY <1>1, <1>4 DEF ConvSteps, Batches
  <2>2. B # 0 /\ C # 0
    <3>1. CASE C = 0
      <4>1. B = 0
        BY <1>1, <3>1
      <4>2. P * B = 0
        BY <4>1
      <4> QED BY <2>1, <4>2
    <3>2. CASE C # 0
      <4>1. (C + 1) \div 2 # 0
        BY <3>2
      <4> QED BY <1>1, <3>2, <4>1
    <3> QED BY <3>1, <3>2
  <2>3. PICK b \in Nat \ {0} : b = B /\ 2 * b >= C /\ 2 * b <= C + 1
    BY <1>1, <2>1, <2>2
  <2>4. PICK r \in 0..(b - 1) : r = step % b /\ p = step \div b /\ p \in 0..(P - 1)
    BY <1>1, <1>2, <1>4, <2>1, <2>3, Division, QuotientBelow DEF ConvPixel, Batches
  <2>5. ConvWrites = {p * C + ch : ch \in {ch \in {2 * r, 2 * r + 1} : ch < C}}
    BY <1>1, <1>2, <1>4, <2>3, <2>4 DEF ConvWrites, Batches
  <2> HIDE DEF B
  <2>6. Done(l, step) = p * C + (IF 2 * r < C THEN 2 * r ELSE C)
    BY <1>1, <1>4, <2>2, <2>3, <2>4 DEF Done, Pointwise, MaxK, B
  <2>7. Done(l, step + 1) = IF r + 1 < b THEN p * C + (IF 2 * (r + 1) < C THEN 2 * (r + 1) ELSE C)
                            ELSE (p + 1) * C
    <3>1. Done(l, step + 1) = ((step + 1) \div b) * C
                                 + (IF 2 * ((step + 1) % b) < C THEN 2 * ((step + 1) % b) ELSE C)
      BY <1>1, <1>4, <2>2, <2>3 DEF Done, Pointwise, MaxK, B
    <3>2. IF r + 1 < b THEN (step + 1) \div b = p /\ (step + 1) % b = r + 1
          ELSE (step + 1) \div b = p + 1 /\ (step + 1) % b = 0
      BY <2>4, NextDivision
    <3>3. CASE r + 1 < b
      BY <3>1, <3>2, <3>3
    <3>4. CASE ~(r + 1 < b)
      <4>1. PICK q \in Nat : q = (p + 1) * C
        OBVIOUS
      <4>2. Done(l, step + 1) = q + (IF 2 * 0 < C THEN 2 * 0 ELSE C)
        BY <3>1, <3>2, <3>4, <4>1
      <4> QED BY <2>2, <3>4, <4>1, <4>2
    <3> QED BY <3>3, <3>4
  <2>8. p * C \in Nat /\ (p + 1) * C = p * C + C
    BY <2>4
  <2>9. ASSUME NEW ch \in 0..(C - 1) PROVE p * C + ch \in 0..(P * C - 1) /\ (p * C + ch) % C = ch
    <3>1. C \in Nat \ {0}
      OBVIOUS
    <3>2. p * C + ch \in 0..(P * C - 1)
      BY <2>4, Below
    <3>3. PICK a \in Nat : a = C * p + ch /\ a = p * C + ch
      BY <2>8
    <3>4. a % C = ch
      BY <3>1, <3>3, DivisionUnique
    <3> QED BY <3>2, <3>3, <3>4
  <2>10. {ch \in {2 * r, 2 * r + 1} : ch < C} \subseteq 0..(C - 1)
    BY <2>4
  <2>11. ASSUME NEW e \in 0..(Done(l, step + 1) - 1), ~(e < Done(l, step)) PROVE e \in ConvWrites
    <3>1. PICK q \in Nat : q = p * C
      BY <2>8
    <3>2. e - q \in {2 * r, 2 * r + 1} /\ e - q < C /\ e = q + (e - q)
      BY <2>3, <2>4, <2>6, <2>7, <2>8, <2>11, <3>1
    <3> QED BY <2>5, <3>1, <3>2
  <2>12. \A e \in ConvWrites : \E ch \in 0..(C - 1) : e = p * C + ch
    BY <2>5, <2>10
  <2>13. \A e \in ConvWrites : e \in 0..(P * C - 1) /\ e % C \in 0..(C - 1)
    BY <2>9, <2>12
  <2> QED BY <1>1, <2>11, <2>13
<1> QED BY <1>3, <1>4

LEMMA ConvEnds ==
    ASSUME NEW l \in LayerRecords, h = l, l.type \in Convolutions
    PROVE  Done(l, ConvSteps) = Size(l.out)
<1>1. PICK C \in Nat, P \in Nat : C = l.out.c /\ P = l.out.h * l.out.w /\ Size(l.out) = P * C
  <2>1. l.out.h \in Nat /\ l.out.w \in Nat /\ l.out.c \in Nat
    BY RecordTypes
  <2>2. l.out.h * l.out.w \in Nat
    BY <2>1
  <2> QED BY <2>1, <2>2 DEF Size
<1>2. CASE ~Pointwise
  BY <1>1, <1>2 DEF Done, ConvSteps, Pointwise, MaxK
<1>3. CASE Pointwise
  <2>1. CASE C = 0
    BY <1>1, <1>3, <2>1 DEF Done, Pointwise, MaxK
  <2>2. CASE C # 0
    <3>0. (C + 1) \div 2 \in Nat \ {0}
      BY <2>2
    <3>1. PICK b \in Nat \ {0} : b = (C + 1) \div 2
      BY <3>0
    <3>2. PICK s \in Nat : s = P * b /\ s = b * P + 0
      OBVIOUS
    <3>3. s \div b = P /\ s % b = 0
      BY <3>2, DivisionUnique
    <3>4. ConvSteps = s
      BY <1>1, <1>3, <3>1, <3>2 DEF ConvSteps, Batches
    <3>5. Done(l, s) = P * C + (IF 2 * 0 < C THEN 2 * 0 ELSE C)
      BY <1>1, <1>3, <2>2, <3>1, <3>3 DEF Done, Pointwise, MaxK
    <3>6. P * C \in Nat
      OBVIOUS
    <3> QED BY <1>1, <2>2, <3>4, <3>5, <3>6
  <2> QED BY <2>1, <2>2
<1> QED BY <1>2, <1>3

LEMMA ConvTakes ==
    ASSUME NEW l \in LayerRecords, h = l
    PROVE  ConvReads \subseteq 0..(Size(l.in) - 1)
<1>1. l.in.h \in Nat /\ l.in.w \in Nat /\ l.in.c \in Nat
  BY RecordTypes
<1>2. ASSUME NEW r \in 0..(l.in.h - 1), NEW q \in 0..(l.in.w - 1), NEW ci \in 0..(l.in.c - 1)
      PROVE  (r * l.in.w + q) * l.in.c + ci \in 0..(Size(l.in) - 1)
  <2>1. PICK H \in Nat, W \in Nat, C \in Nat : H = l.in.h /\ W = l.in.w /\ C = l.in.c
    BY <1>1
  <2>2. r * W + q \in 0..(H * W - 1) /\ H * W \in Nat
    BY <2>1, Below
  <2>3. (r * W + q) * C + ci \in 0..((H * W) * C - 1)
    BY <2>1, <2>2, Below
  <2> QED BY <2>1, <2>3 DEF Size
<1>3. \A e \in ConvReads : \E r \in 0..(l.in.h - 1), q \in 0..(l.in.w - 1), ci \in 0..(l.in.c - 1) :
          e = (r * l.in.w + q) * l.in.c + ci
  <2>1. PICK y0, x0 : y0 = (ConvPixel \div h.out.w) * h.s - h.pad /\ x0 = (ConvPixel % h.out.w) * h.s - h.pad
    OBVIOUS
  <2> DEFINE rows == {r \in y0..(y0 + h.k - 1) : r \in 0..(h.in.h - 1)}
             cols == {q \in x0..(x0 + h.k - 1) : q \in 0..(h.in.w - 1)}
  <2>2. ConvReads = {(r * h.in.w + q) * h.in.c + ci : r \in rows, q \in cols, ci \in 0..(h.in.c - 1)}
    BY <2>1 DEF ConvReads
  <2>3. rows \subseteq 0..(l.in.h - 1) /\ cols \subseteq 0..(l.in.w - 1)
    OBVIOUS
  <2> HIDE DEF rows, cols
  <2> QED BY <2>2, <2>3
<1> QED BY <1>2, <1>3

LEMMA SoftmaxAt ==
    ASSUME NEW l \in LayerRecords, h = l, l.type = "SOFTMAX", step \in Nat, step < LayerSteps
    PROVE  /\ SoftmaxPass \in 0..2 /\ SoftmaxCell \in 0..(l.in.c - 1)
           /\ SoftmaxPass = 0 => step = SoftmaxCell
           /\ SoftmaxPass = 1 => step = l.in.c + SoftmaxCell
           /\ SoftmaxPass = 2 => step = 2 * l.in.c + SoftmaxCell
<1>1. PICK C \in Nat : C = l.in.c
  BY RecordTypes
<1>2. step < 3 * C
  BY <1>1 DEF LayerSteps, IsConv
<1>3. C \in Nat \ {0}
  BY <1>2
<1>4. PICK p \in Nat, c \in 0..(C - 1) : p = step \div C /\ c = step % C /\ step = C * p + c
  BY <1>3, Division
<1>5. p \in 0..2
  <2>1. step \div C \in 0..(3 - 1)
    BY <1>2, <1>3, QuotientBelow
  <2> QED BY <1>4, <2>1
<1>6. SoftmaxPass = p /\ SoftmaxCell = c
  BY <1>1, <1>4 DEF SoftmaxPass, SoftmaxCell
<1>7. /\ p = 0 => step = c
      /\ p = 1 => step = C + c
      /\ p = 2 => step = 2 * C + c
  <2>1. PICK d \in Nat : d = C * p /\ step = d + c
    BY <1>4
  <2>2. (p = 0 => d = 0) /\ (p = 1 => d = C) /\ (p = 2 => d = 2 * C)
    BY <2>1
  <2> QED BY <2>1, <2>2
<1> QED BY <1>1, <1>5, <1>6, <1>7

\* A step of a layer stays in the region of its output.
LEMMA StepInside ==
    ASSUME NEW l \in LayerRecords, h = l, Accepted(l), step \in Nat, step < LayerSteps
    PROVE  \A v \in StepWrites : v[1] \in Region(l.out_oft, WrittenBytes(l))
<1>1. PICK o \in Nat, w \in Nat : o = l.out_oft /\ w = WrittenBytes(l)
  BY RecordTypes
<1>2. ASSUME NEW I \in SUBSET Nat, StepWrites = Quantised(l.out_oft, Produced, I), \A i \in I : i < w
      PROVE  \A v \in StepWrites : v[1] \in Region(l.out_oft, WrittenBytes(l))
  <2>1. ASSUME NEW v \in StepWrites PROVE v[1] \in Region(o, w)
    <3>1. PICK i \in I : v = <<o + i, Name(Produced, "q", i)>>
      BY <1>1, <1>2, <2>1 DEF Quantised
    <3>2. v[1] = o + i /\ i \in Nat /\ i < w
      BY <1>2, <3>1
    <3> QED BY <3>2 DEF Region
  <2> QED BY <1>1, <2>1
<1>3. CASE l.type \in Convolutions
  <2>1. IsConv /\ LayerSteps = ConvSteps /\ w = Size(l.out)
        /\ StepWrites = Quantised(l.out_oft, Produced, ConvWrites)
    BY <1>1, <1>3 DEF IsConv, Convolutions, LayerSteps, WrittenBytes, StepWrites
  <2>2. ConvWrites \subseteq 0..(w - 1)
    BY <1>3, <2>1, ConvStep
  <2>3. PICK I : I = ConvWrites
    OBVIOUS
  <2>4. I \in SUBSET Nat /\ \A i \in I : i < w
    BY <2>2, <2>3
  <2> QED BY <1>2, <2>1, <2>3, <2>4
<1>4. CASE l.type \in {"GAP", "FC", "ADD"}
  <2>1. ~IsConv /\ LayerSteps = w /\ StepWrites = Quantised(l.out_oft, Produced, {step})
    BY <1>1, <1>4 DEF IsConv, LayerSteps, WrittenBytes, StepWrites, Convolutions
  <2>2. PICK I : I = {step}
    OBVIOUS
  <2>3. I \in SUBSET Nat /\ \A i \in I : i < w
    BY <2>1, <2>2
  <2> QED BY <1>2, <2>1, <2>2, <2>3
<1>5. CASE l.type = "SOFTMAX"
  <2>1. PICK C \in Nat, c \in Nat : C = l.in.c /\ c = SoftmaxCell /\ c \in 0..(C - 1) /\ SoftmaxPass \in 0..2
    BY <1>5, SoftmaxAt, RecordTypes
  <2>2. w = 4 * C /\ ~IsConv
    BY <1>1, <1>5, <2>1 DEF WrittenBytes, IsConv, Convolutions
  <2>3. CASE SoftmaxPass = 2
    <3>1. StepWrites = Quantised(l.out_oft, Produced, {c})
      BY <1>5, <2>1, <2>2, <2>3 DEF StepWrites
    <3>2. {c} \in SUBSET Nat /\ \A i \in {c} : i < w
      BY <2>1, <2>2
    <3> QED BY <1>2, <3>1, <3>2
  <2>4. CASE SoftmaxPass # 2
    <3>1. \E form : StepWrites = Floats(o, Produced, form, c)
      BY <1>1, <1>5, <2>1, <2>2, <2>4 DEF StepWrites
    <3>2. PICK form : StepWrites = Floats(o, Produced, form, c)
      BY <3>1
    <3>3. ASSUME NEW v \in StepWrites PROVE v[1] \in Region(o, w)
      <4>1. PICK a \in Float(o, c) : v = <<a, Name(Produced, form, c)>>
        BY <3>2, <3>3 DEF Floats
      <4>2. v[1] = a /\ a \in Region(o + 4 * c, 4)
        BY <4>1 DEF Float
      <4> QED BY <2>1, <2>2, <4>2 DEF Region
    <3> QED BY <1>1, <3>3
  <2> QED BY <2>3, <2>4
<1>6. CASE l.type = "RESHAPE"
  BY <1>6 DEF LayerSteps, IsConv
<1> QED BY <1>3, <1>4, <1>5, <1>6 DEF Accepted, LayerTypes, Convolutions

LEMMA StoredFrame ==
    ASSUME NEW V, NEW a \in Addresses, \A v \in V : v[1] # a
    PROVE  Stored(V)[a] = buf[a]
<1>1. ~ \E v \in V : v[1] = a
  OBVIOUS
<1> QED BY <1>1 DEF Stored

-----------------------------------------------------------------------------
(* What stays in the buffer.                                               *)

LEMMA SameNames ==
    ASSUME mdl' = mdl, run' = run, NEW n, NEW form, NEW i
    PROVE  Name(n, form, i)' = Name(n, form, i)
<1>1. Matrix(n)' = Matrix(n)
  BY DEF Matrix
<1> QED BY <1>1 DEF Name

LEMMA HoldsStill ==
    ASSUME mdl' = mdl, run' = run, NEW oft, NEW n, NEW bytes, Holds(oft, n, bytes),
           \A i \in bytes : buf'[oft + i] = buf[oft + i]
    PROVE  Holds(oft, n, bytes)'
  BY SameNames, Zenon DEF Holds

LEMMA FloatsStill ==
    ASSUME mdl' = mdl, run' = run, NEW oft, NEW n, NEW form, NEW cells, HoldsFloats(oft, n, form, cells),
           \A i \in cells : \A a \in Float(oft, i) : buf'[a] = buf[a]
    PROVE  HoldsFloats(oft, n, form, cells)'
  BY SameNames, Zenon DEF HoldsFloats

\* What is written joins what was there.
LEMMA BytesAdded ==
    ASSUME mdl' = mdl, run' = run, NEW oft \in Nat, NEW n, NEW I \in SUBSET Nat, NEW J \in SUBSET Nat,
           buf' = Stored(Quantised(oft, n, I)), \A i \in I : oft + i \in Addresses, Holds(oft, n, J \ I)
    PROVE  Holds(oft, n, J)'
<1>1. /\ \A i \in I : oft + i \in Addresses => buf'[oft + i] = Name(n, "q", i)
      /\ \A a \in Addresses : (\A i \in I : a # oft + i) => buf'[a] = buf[a]
  BY StoredBytes
<1>2. ASSUME NEW i \in J PROVE oft + i \in Addresses /\ buf'[oft + i] = Name(n, "q", i)'
  <2>1. Name(n, "q", i)' = Name(n, "q", i)
    BY SameNames
  <2>2. CASE i \in I
    BY <1>1, <2>1, <2>2
  <2>3. CASE i \notin I
    <3>1. oft + i \in Addresses /\ buf[oft + i] = Name(n, "q", i)
      BY <2>3 DEF Holds
    <3>2. \A k \in I : oft + i # oft + k
      BY <2>3
    <3> QED BY <1>1, <2>1, <3>1, <3>2
  <2> QED BY <2>2, <2>3
<1> QED BY <1>2 DEF Holds, Addresses

LEMMA FloatsApart ==
    ASSUME NEW oft \in Nat, NEW i \in Nat, NEW c \in Nat, i # c
    PROVE  \A a \in Float(oft, i) : a \notin Float(oft, c)
  BY DEF Float, Region

LEMMA FloatAdded ==
    ASSUME mdl' = mdl, run' = run, NEW oft \in Nat, NEW n, NEW form, NEW c \in Nat, NEW J \in SUBSET Nat,
           buf' = Stored(Floats(oft, n, form, c)), Float(oft, c) \subseteq Addresses,
           HoldsFloats(oft, n, form, J \ {c})
    PROVE  HoldsFloats(oft, n, form, J)'
<1>1. /\ \A a \in Float(oft, c) \cap Addresses : buf'[a] = Name(n, form, c)
      /\ \A a \in Addresses \ Float(oft, c) : buf'[a] = buf[a]
  BY StoredFloat
<1>2. ASSUME NEW i \in J, NEW a \in Float(oft, i) PROVE a \in Addresses /\ buf'[a] = Name(n, form, i)'
  <2>1. Name(n, form, i)' = Name(n, form, i)
    BY SameNames
  <2>2. CASE i = c
    BY <1>1, <2>1, <2>2
  <2>3. CASE i # c
    <3>1. a \in Addresses /\ buf[a] = Name(n, form, i)
      BY <2>3 DEF HoldsFloats
    <3>2. a \notin Float(oft, c)
      BY <2>3, FloatsApart
    <3> QED BY <1>1, <2>1, <3>1, <3>2
  <2> QED BY <2>2, <2>3
<1> QED BY <1>2 DEF HoldsFloats, Addresses

\* Floats of another form, at other cells, stay.
LEMMA FloatsBeside ==
    ASSUME mdl' = mdl, run' = run, NEW oft \in Nat, NEW n, NEW form, NEW other, NEW c \in Nat,
           NEW J \in SUBSET Nat, c \notin J,
           buf' = Stored(Floats(oft, n, form, c)), HoldsFloats(oft, n, other, J)
    PROVE  HoldsFloats(oft, n, other, J)'
<1>1. \A a \in Addresses \ Float(oft, c) : buf'[a] = buf[a]
  BY StoredFloat
<1>2. \A i \in J : \A a \in Float(oft, i) : a \in Addresses /\ a \notin Float(oft, c)
  BY FloatsApart DEF HoldsFloats
<1> QED BY <1>1, <1>2, FloatsStill

\* A step of a layer, and what it finds.
LEMMA StepState ==
    ASSUME EngineTypes, WellLaid(mdl), LayerStep
    PROVE  /\ h = Current /\ Current \in LayerRecords /\ Accepted(Current) /\ Working
           /\ step \in Nat /\ step < LayerSteps /\ buf' = Stored(StepWrites) /\ step' = step + 1
           /\ mdl' = mdl /\ run' = run /\ layer_i' = layer_i /\ phase' = phase /\ outs' = outs /\ base' = base
           /\ Current' = Current /\ Produced' = Produced
           /\ layer_i + 1 \in 1..Len(mdl.layers) /\ Current = mdl.layers[layer_i + 1]
           /\ Reached(mdl, layer_i + 1)
           /\ Region(Current.out_oft, WrittenBytes(Current)) \subseteq Addresses
<1>1. /\ layer_i < Len(mdl.layers) /\ LayerStatus = "TM_OK" /\ phase = "layer"
      /\ step \in Nat /\ step < LayerSteps /\ buf' = Stored(StepWrites) /\ step' = step + 1
      /\ mdl' = mdl /\ run' = run /\ layer_i' = layer_i /\ phase' = phase /\ outs' = outs /\ base' = base
  BY DEF LayerStep, More, EngineTypes, TypesInv
<1>2. /\ h = Current /\ Current \in LayerRecords
      /\ layer_i + 1 \in 1..Len(mdl.layers) /\ Current = mdl.layers[layer_i + 1]
  BY <1>1, CurrentRecord DEF EngineTypes, WellLaid
<1>3. Accepted(Current)
  BY <1>1, <1>2, StatusAccepts
<1>4. Reached(mdl, layer_i + 1)
  BY <1>1, <1>3, ReachesCurrent
<1>5. Current.out_oft + WrittenBytes(Current) <= MainBufLen
  BY <1>2, <1>4 DEF WellLaid, Inside
<1>6. Current.out_oft \in Nat /\ WrittenBytes(Current) \in Nat /\ MainBufLen \in Nat
  BY <1>2, RecordTypes, EngineConstants
<1>7. Region(Current.out_oft, WrittenBytes(Current)) \subseteq Addresses
  BY <1>5, <1>6 DEF Region, Addresses
<1>8. Current' = Current /\ Produced' = Produced
  BY <1>1 DEF Current, Produced
<1> QED BY <1>1, <1>2, <1>3, <1>4, <1>7, <1>8 DEF Working

LEMMA DoneNat ==
    ASSUME NEW l \in LayerRecords, NEW s \in Nat
    PROVE  Done(l, s) \in Nat
<1>1. PICK C \in Nat : C = l.out.c
  BY RecordTypes
<1>2. s * C \in Nat
  OBVIOUS
<1>3. CASE C = 0
  BY <1>1, <1>2, <1>3 DEF Done
<1>4. CASE C # 0
  <2>1. (C + 1) \div 2 \in Nat \ {0}
    BY <1>4
  <2>2. PICK b \in Nat \ {0} : b = (C + 1) \div 2
    BY <2>1
  <2>3. PICK p \in Nat, r \in 0..(b - 1) : p = s \div b /\ r = s % b
    BY Division
  <2>4. p * C \in Nat
    OBVIOUS
  <2>5. p * C + (IF 2 * r < C THEN 2 * r ELSE C) \in Nat
    BY <2>4
  <2> QED BY <1>1, <1>2, <1>4, <2>2, <2>3, <2>5 DEF Done
<1> QED BY <1>3, <1>4

\* Bytes written in order.
LEMMA StepMakesBytes ==
    ASSUME EngineTypes, WellLaid(mdl), LayerStep, MadeInv, Current.type \notin {"SOFTMAX", "RESHAPE"}
    PROVE  MadeInv'
<1>1. PICK l \in LayerRecords : l = Current
  BY StepState
<1>2. PICK n, s \in Nat : n = Produced /\ s = step
  BY StepState DEF Produced
<1>3. PICK o \in Nat, w \in Nat : o = l.out_oft /\ w = WrittenBytes(l)
  BY RecordTypes
<1>4. /\ h = l /\ Accepted(l) /\ s < LayerSteps /\ buf' = Stored(StepWrites) /\ step' = s + 1
      /\ mdl' = mdl /\ run' = run /\ Current' = l /\ Produced' = n
      /\ Region(o, w) \subseteq Addresses
  BY <1>1, <1>2, <1>3, StepState
<1>5. Holds(o, n, 0..(Done(l, s) - 1))
  BY <1>1, <1>2, <1>3, StepState DEF MadeInv
<1>6. Done(l, s) \in Nat /\ Done(l, s + 1) \in Nat
  BY DoneNat, s + 1 \in Nat
<1>7. \E I \in SUBSET Nat : /\ StepWrites = Quantised(o, n, I)
                             /\ \A e \in 0..(Done(l, s + 1) - 1) : e \in I \/ e < Done(l, s)
  <2>1. CASE l.type \in Convolutions
    <3>1. IsConv /\ s < ConvSteps
      BY <1>4, <2>1 DEF IsConv, Convolutions, LayerSteps
    <3>2. StepWrites = Quantised(o, n, ConvWrites)
      BY <1>2, <1>3, <1>4, <2>1, <3>1 DEF StepWrites, Convolutions
    <3>3. /\ ConvWrites \subseteq 0..(Size(l.out) - 1)
          /\ \A e \in 0..(Done(l, step + 1) - 1) : e \in ConvWrites \/ e < Done(l, step)
      BY <1>2, <1>4, <2>1, <3>1, ConvStep
    <3>4. PICK I : I = ConvWrites
      OBVIOUS
    <3>5. I \in SUBSET Nat
      BY <3>3, <3>4
    <3> QED BY <1>2, <3>2, <3>3, <3>4, <3>5
  <2>2. CASE l.type \in {"GAP", "FC", "ADD"}
    <3>1. StepWrites = Quantised(o, n, {s}) /\ Done(l, s) = s /\ Done(l, s + 1) = s + 1
      BY <1>2, <1>3, <1>4, <2>2 DEF StepWrites, IsConv, Done, Convolutions
    <3>2. {s} \in SUBSET Nat /\ \A e \in 0..((s + 1) - 1) : e \in {s} \/ e < s
      OBVIOUS
    <3> QED BY <3>1, <3>2
  <2> QED BY <1>1, <1>4, <2>1, <2>2 DEF Accepted, LayerTypes, Convolutions
<1>8. PICK I \in SUBSET Nat : /\ StepWrites = Quantised(o, n, I)
                               /\ \A e \in 0..(Done(l, s + 1) - 1) : e \in I \/ e < Done(l, s)
  BY <1>7
<1>9. \A i \in I : o + i \in Addresses
  <2>1. \A v \in StepWrites : v[1] \in Region(l.out_oft, WrittenBytes(l))
    BY <1>2, <1>4, StepInside
  <2>2. ASSUME NEW i \in I PROVE o + i \in Addresses
    <3>1. <<o + i, Name(n, "q", i)>> \in StepWrites
      BY <1>8 DEF Quantised
    <3>2. <<o + i, Name(n, "q", i)>>[1] \in Region(o, w)
      BY <1>3, <2>1, <3>1
    <3> QED BY <1>4, <3>2
  <2> QED BY <2>2
<1>10. PICK J \in SUBSET Nat : J = 0..(Done(l, s + 1) - 1)
  BY <1>6
<1>11. Holds(o, n, J \ I)
  <2>1. \A e \in J \ I : e \in 0..(Done(l, s) - 1)
    BY <1>6, <1>8, <1>10
  <2> QED BY <1>5, <2>1 DEF Holds
<1>12. buf' = Stored(Quantised(o, n, I))
  BY <1>4, <1>8
<1>13. Holds(o, n, J)'
  BY <1>4, <1>9, <1>11, <1>12, BytesAdded
<1>14. Holds(Current.out_oft, Produced, 0..(Done(Current, step) - 1))'
  BY <1>3, <1>4, <1>10, <1>13
<1> QED BY <1>1, <1>4, <1>14 DEF MadeInv

LEMMA StepMakesSoftmax ==
    ASSUME EngineTypes, WellLaid(mdl), LayerStep, MadeInv, Current.type = "SOFTMAX"
    PROVE  MadeInv'
<1>1. PICK l \in LayerRecords : l = Current
  BY StepState
<1>2. PICK n, s \in Nat : n = Produced /\ s = step
  BY StepState DEF Produced
<1>3. PICK o \in Nat, C \in Nat : o = l.out_oft /\ C = l.in.c
  BY RecordTypes
<1>4. /\ h = l /\ Accepted(l) /\ s < LayerSteps /\ buf' = Stored(StepWrites) /\ step' = s + 1
      /\ mdl' = mdl /\ run' = run /\ Current' = l /\ Produced' = n /\ l.type = "SOFTMAX"
      /\ Region(o, 4 * C) \subseteq Addresses
  BY <1>1, <1>2, <1>3, StepState DEF WrittenBytes, Convolutions
<1> DEFINE real(t) == {i \in 0..(C - 1) : t > i /\ t <= C + i}
           exps(t) == {i \in 0..(C - 1) : t > C + i /\ t <= 2 * C + i}
           bytes(t) == {i \in 0..(C - 1) : t > 2 * C + i}
<1>5. /\ HoldsFloats(o, n, "real", real(s)) /\ HoldsFloats(o, n, "exp", exps(s))
      /\ Holds(o, n, bytes(s))
  BY <1>1, <1>2, <1>3, <1>4, StepState DEF MadeInv, SoftmaxInv
<1>6. PICK c \in Nat : /\ c = SoftmaxCell /\ c \in 0..(C - 1) /\ SoftmaxPass \in 0..2
                       /\ SoftmaxPass = 0 => s = c
                       /\ SoftmaxPass = 1 => s = C + c
                       /\ SoftmaxPass = 2 => s = 2 * C + c
  BY <1>2, <1>3, <1>4, SoftmaxAt
<1>7. ~IsConv /\ Float(o, c) \subseteq Addresses /\ \A i \in {c} : o + i \in Addresses
  BY <1>4, <1>6 DEF IsConv, Float, Region
<1>8. /\ real(s + 1) \in SUBSET Nat /\ exps(s + 1) \in SUBSET Nat /\ bytes(s + 1) \in SUBSET Nat
  OBVIOUS
<1>9. /\ HoldsFloats(o, n, "real", real(s + 1))' /\ HoldsFloats(o, n, "exp", exps(s + 1))'
      /\ Holds(o, n, bytes(s + 1))'
  <2>1. CASE SoftmaxPass = 0
    <3>1. buf' = Stored(Floats(o, n, "real", c))
      BY <1>2, <1>3, <1>4, <1>6, <1>7, <2>1 DEF StepWrites
    <3>2. real(s + 1) \ {c} \subseteq real(s) /\ exps(s + 1) = {} /\ bytes(s + 1) = {}
      BY <1>6, <2>1
    <3>3. HoldsFloats(o, n, "real", real(s + 1) \ {c})
      BY <1>5, <3>2 DEF HoldsFloats
    <3> HIDE DEF real, exps, bytes
    <3>4. HoldsFloats(o, n, "real", real(s + 1))'
      BY <1>4, <1>7, <1>8, <3>1, <3>3, FloatAdded
    <3> QED BY <3>2, <3>4 DEF HoldsFloats, Holds
  <2>2. CASE SoftmaxPass = 1
    <3>1. buf' = Stored(Floats(o, n, "exp", c))
      BY <1>2, <1>3, <1>4, <1>6, <1>7, <2>2 DEF StepWrites
    <3>2. /\ exps(s + 1) \ {c} \subseteq exps(s) /\ real(s + 1) \subseteq real(s) /\ bytes(s + 1) = {}
          /\ c \notin real(s + 1)
      BY <1>6, <2>2
    <3>3. HoldsFloats(o, n, "exp", exps(s + 1) \ {c}) /\ HoldsFloats(o, n, "real", real(s + 1))
      BY <1>5, <3>2 DEF HoldsFloats
    <3> HIDE DEF real, exps, bytes
    <3>4. HoldsFloats(o, n, "exp", exps(s + 1))'
      BY <1>4, <1>7, <1>8, <3>1, <3>3, FloatAdded
    <3>5. HoldsFloats(o, n, "real", real(s + 1))'
      BY <1>4, <1>8, <3>1, <3>2, <3>3, FloatsBeside
    <3> QED BY <3>2, <3>4, <3>5 DEF Holds
  <2>3. CASE SoftmaxPass = 2
    <3>1. buf' = Stored(Quantised(o, n, {c}))
      BY <1>2, <1>3, <1>4, <1>6, <1>7, <2>3 DEF StepWrites
    <3>2. /\ bytes(s + 1) \ {c} \subseteq bytes(s) /\ exps(s + 1) \subseteq exps(s) /\ real(s + 1) = {}
          /\ \A i \in exps(s + 1) : i \in Nat /\ i > c
      BY <1>6, <2>3
    <3>3. HoldsFloats(o, n, "exp", exps(s + 1)) /\ Holds(o, n, bytes(s + 1) \ {c})
      BY <1>5, <3>2 DEF HoldsFloats, Holds
    <3> HIDE DEF real, exps, bytes
    <3>4. Holds(o, n, bytes(s + 1))'
      <4>1. {c} \in SUBSET Nat
        OBVIOUS
      <4> QED BY <1>4, <1>7, <1>8, <3>1, <3>3, <4>1, BytesAdded
    <3>5. ASSUME NEW i \in exps(s + 1), NEW a \in Float(o, i) PROVE buf'[a] = buf[a]
      <4>1. a \in Addresses /\ a # o + c
        BY <3>2, <3>3 DEF HoldsFloats, Float, Region
      <4>2. \A a1 \in Addresses : (\A k \in {c} : a1 # o + k) => buf'[a1] = buf[a1]
        BY <3>1, StoredBytes, {c} \in SUBSET Nat
      <4> QED BY <4>1, <4>2
    <3>6. HoldsFloats(o, n, "exp", exps(s + 1))'
      BY <1>4, <3>3, <3>5, FloatsStill
    <3> QED BY <3>2, <3>4, <3>6 DEF HoldsFloats
  <2> QED BY <1>6, <2>1, <2>2, <2>3
<1>10. SoftmaxInv(l)'
  BY <1>3, <1>4, <1>9 DEF SoftmaxInv
<1> QED BY <1>4, <1>10 DEF MadeInv, SoftmaxInv

\* What layer n takes, and where.
LEMMA UsesTypes ==
    ASSUME NEW m \in Models, NEW n \in 1..Len(m.layers), NEW u \in Uses(m, n)
    PROVE  u.oft \in Nat /\ u.len = NeededBytes(m.layers[n]) /\ u.len \in Nat
<1>1. PICK l \in LayerRecords : l = m.layers[n]
  BY ModelTypes
<1>2. l.in_oft \in Nat /\ l.in_oft1 \in Nat /\ NeededBytes(l) \in Nat
  BY RecordTypes
<1>3. u = InputUse(m, n) \/ u = SecondUse(m, n)
  BY DEF Uses
<1> QED BY <1>1, <1>2, <1>3 DEF InputUse, SecondUse

LEMMA StepReady ==
    ASSUME EngineTypes, WellLaid(mdl), LayerStep, ReadyInv
    PROVE  ReadyInv'
<1>1. PICK m \in Models, i \in Nat : m = mdl /\ i = layer_i /\ i + 1 \in 1..Len(m.layers)
  BY StepState DEF EngineTypes, TypesInv
<1>2. PICK l \in LayerRecords : l = Current /\ l = m.layers[i + 1]
  BY <1>1, StepState
<1>3. /\ h = l /\ Accepted(l) /\ buf' = Stored(StepWrites) /\ phase = "layer"
      /\ mdl' = m /\ run' = run /\ layer_i' = i /\ WellLaid(m)
      /\ step \in Nat /\ step < LayerSteps
  BY <1>1, <1>2, StepState DEF Working
<1>4. \A v \in StepWrites : v[1] \in Region(l.out_oft, WrittenBytes(l))
  BY <1>3, StepInside
<1>5. ASSUME NEW n \in (i + 1)..Len(m.layers), Reached(m, n), NEW u \in Uses(m, n), u.from <= i
      PROVE  Holds(u.oft, u.from, 0..(u.len - 1))'
  <2>1. Holds(u.oft, u.from, 0..(u.len - 1))
    BY <1>1, <1>3, <1>5 DEF ReadyInv
  <2>2. n \in 1..Len(m.layers) /\ u.oft \in Nat /\ u.len \in Nat
    BY <1>1, <1>5, UsesTypes, ModelTypes
  <2>3. Connected(m, n, u)
    BY <1>3, <1>5, <2>2 DEF WellLaid, Kept
  <2>4. u.from \in Nat /\ i + 1 \in (u.from + 1)..n
    BY <1>1, <1>5, <2>2, <2>3 DEF Connected
  <2>5. Region(l.out_oft, WrittenBytes(l)) \cap Region(u.oft, u.len) = {}
    BY <1>2, <2>3, <2>4 DEF Connected
  <2>6. ASSUME NEW k \in 0..(u.len - 1) PROVE buf'[u.oft + k] = buf[u.oft + k]
    <3>1. u.oft + k \in Region(u.oft, u.len)
      BY <2>2 DEF Region
    <3>2. \A v \in StepWrites : v[1] # u.oft + k
      BY <1>4, <2>5, <3>1
    <3>3. u.oft + k \in Addresses
      BY <2>1 DEF Holds
    <3>4. PICK V : V = StepWrites
      OBVIOUS
    <3>5. PICK a \in Addresses : a = u.oft + k
      BY <3>3
    <3>6. Stored(V)[a] = buf[a]
      BY <3>2, <3>4, <3>5, StoredFrame
    <3> QED BY <1>3, <3>4, <3>5, <3>6
  <2> QED BY <1>1, <1>3, <2>1, <2>6, HoldsStill
<1> QED BY <1>3, <1>5 DEF ReadyInv

\* A layer that is done has computed its whole output; a reshape had it before.
LEMMA LayerMade ==
    ASSUME EngineTypes, WellLaid(mdl), Working, ReadyInv, MadeInv, step = LayerSteps
    PROVE  Holds(Current.out_oft, Produced, 0..(Made(mdl, layer_i + 1) - 1))
<1>1. PICK m \in Models, i \in Nat : /\ m = mdl /\ i = layer_i /\ i + 1 \in 1..Len(m.layers)
                                     /\ m.layers[i + 1] \in LayerRecords /\ m.layers[i + 1] = Current
                                     /\ h = Current
  <2>1. layer_i \in Nat /\ mdl \in Models
    BY ModelTypes DEF EngineTypes, TypesInv
  <2> QED BY <2>1, CurrentRecord DEF EngineTypes, Working, WellLaid
<1>2. PICK l \in LayerRecords : l = Current /\ l = m.layers[i + 1] /\ h = l
  BY <1>1
<1>3. Accepted(l) /\ Reached(m, i + 1) /\ phase = "layer"
  BY <1>1, <1>2, ReachesCurrent DEF Working
<1>4. i + 1 # 0 /\ Produced = i + 1
  BY <1>1 DEF Produced
<1>5. CASE l.type \in Convolutions
  <2>1. Done(l, ConvSteps) = Size(l.out)
    BY <1>2, <1>5, ConvEnds
  <2>2. step = ConvSteps /\ Made(m, i + 1) = Size(l.out)
    BY <1>2, <1>4, <1>5 DEF LayerSteps, IsConv, Convolutions, Made
  <2>3. Holds(Current.out_oft, Produced, 0..(Done(l, step) - 1))
    BY <1>2, <1>5 DEF MadeInv, Convolutions
  <2> QED BY <1>1, <2>1, <2>2, <2>3
<1>6. CASE l.type \in {"GAP", "FC", "ADD"}
  <2>1. step = Made(m, i + 1) /\ Done(l, step) = step
    BY <1>2, <1>4, <1>6 DEF LayerSteps, IsConv, Convolutions, Made, Done
  <2>2. Holds(Current.out_oft, Produced, 0..(Done(l, step) - 1))
    BY <1>2, <1>6 DEF MadeInv
  <2> QED BY <1>1, <2>1, <2>2
<1>7. CASE l.type = "SOFTMAX"
  <2>1. PICK C \in Nat : C = l.in.c
    BY RecordTypes
  <2>2. step = 3 * C /\ Made(m, i + 1) = C
    BY <1>2, <1>4, <1>7, <2>1 DEF LayerSteps, IsConv, Convolutions, Made
  <2>3. Holds(l.out_oft, Produced, {k \in 0..(C - 1) : step > 2 * C + k})
    BY <1>2, <1>7, <2>1 DEF MadeInv, SoftmaxInv
  <2>4. {k \in 0..(C - 1) : step > 2 * C + k} = 0..(C - 1)
    BY <2>2
  <2> QED BY <1>1, <1>2, <2>2, <2>3, <2>4
<1>8. CASE l.type = "RESHAPE"
  <2>1. PICK u : u = InputUse(m, i + 1)
    OBVIOUS
  <2>2. u.from = i /\ u.len = Size(l.out) /\ u \in Uses(m, i + 1)
    BY <1>2, <1>8, <2>1 DEF InputUse, NeededBytes, Uses, Convolutions
  <2>3. Holds(u.oft, i, 0..(Size(l.out) - 1))
    <3>1. i + 1 \in (layer_i + 1)..Len(mdl.layers) /\ u.from <= layer_i
      BY <1>1, <2>2, ModelTypes
    <3> QED BY <1>1, <1>3, <2>2, <3>1 DEF ReadyInv
  <2>4. u.oft = l.out_oft /\ Made(m, i + 1) = Size(l.out)
    BY <1>1, <1>2, <1>3, <1>4, <1>8, <2>1 DEF WellLaid, Kept, Made
  <2>5. Matrix(i + 1) = Matrix(i)
    BY <1>1, <1>2, <1>8, MatrixSteps
  <2>6. \A k : Name(i + 1, "q", k) = Name(i, "q", k)
    BY <2>5 DEF Name
  <2> QED BY <1>1, <1>2, <1>4, <2>3, <2>4, <2>6 DEF Holds
<1> QED BY <1>3, <1>5, <1>6, <1>7, <1>8 DEF Accepted, LayerTypes, Convolutions

\* A layer that has made no step has computed nothing.
LEMMA NothingMade == EngineTypes /\ WellLaid(mdl) /\ step = 0 => MadeInv
<1> SUFFICES ASSUME EngineTypes, WellLaid(mdl), step = 0, Working PROVE MadeInv
  BY DEF MadeInv
<1>1. PICK l \in LayerRecords : l = Current
  BY CurrentRecord DEF EngineTypes, Working, WellLaid
<1>2. PICK C \in Nat, D \in Nat : C = l.out.c /\ D = l.in.c
  BY RecordTypes
<1>3. Done(l, 0) = 0
  <2>1. CASE C = 0
    BY <1>2, <2>1 DEF Done
  <2>2. CASE C # 0
    <3>1. (C + 1) \div 2 \in Nat \ {0}
      BY <2>2
    <3>2. PICK b \in Nat \ {0} : b = (C + 1) \div 2
      BY <3>1
    <3>3. 0 \div b = 0 /\ 0 % b = 0
      OBVIOUS
    <3> QED BY <1>2, <2>2, <3>2, <3>3 DEF Done
  <2> QED BY <2>1, <2>2
<1>4. Holds(l.out_oft, Produced, 0..(Done(l, step) - 1))
  BY <1>3 DEF Holds
<1>5. SoftmaxInv(l)
  BY <1>2 DEF SoftmaxInv, Holds, HoldsFloats
<1> QED BY <1>1, <1>4, <1>5 DEF MadeInv

\* To the next layer: its output is there for those to come.
LEMMA AdvanceReady ==
    ASSUME EngineTypes, WellLaid(mdl), Working, ReadyInv, MadeInv, step = LayerSteps,
           Advance, UNCHANGED <<mdl, buf, run>>
    PROVE  ReadyInv'
<1>1. PICK m \in Models, i \in Nat : /\ m = mdl /\ i = layer_i /\ i + 1 \in 1..Len(m.layers)
                                     /\ m.layers[i + 1] = Current
  <2>1. layer_i \in Nat /\ mdl \in Models
    BY ModelTypes DEF EngineTypes, TypesInv
  <2> QED BY <2>1, CurrentRecord DEF EngineTypes, Working, WellLaid
<1>2. /\ phase = "layer" /\ mdl' = m /\ layer_i' = i + 1 /\ buf' = buf /\ run' = run /\ mdl' = mdl
      /\ WellLaid(m)
  BY <1>1 DEF Advance, Working
<1>3. Holds(Current.out_oft, i + 1, 0..(Made(m, i + 1) - 1))
  BY <1>1, LayerMade DEF Produced
<1>4. ASSUME NEW n \in (i + 2)..Len(m.layers), Reached(m, n), NEW u \in Uses(m, n), u.from <= i + 1
      PROVE  Holds(u.oft, u.from, 0..(u.len - 1))'
  <2>1. n \in (i + 1)..Len(m.layers) /\ n \in 1..Len(m.layers)
    BY <1>1, <1>4, ModelTypes
  <2>2. Connected(m, n, u) /\ u.len \in Nat
    BY <1>2, <1>4, <2>1, UsesTypes DEF WellLaid, Kept
  <2>3. u.from \in Nat /\ u.oft = Place(m, u.from) /\ u.len <= Made(m, u.from)
    BY <2>1, <2>2 DEF Connected
  <2>4. CASE u.from = i + 1
    <3>1. u.oft = Current.out_oft
      BY <1>1, <2>3, <2>4 DEF Place
    <3>2. Made(m, i + 1) \in Nat
      <4>1. PICK l \in LayerRecords : l = Current
        BY <1>1, ModelTypes
      <4>2. Reached(m, i + 1) /\ Accepted(l)
        BY <1>1, <4>1, ReachesCurrent DEF Working
      <4>3. /\ l.out.c \in Nat /\ l.in.c \in Nat /\ Size(l.in) \in Nat /\ Size(l.out) \in Nat
            /\ l.type \in LayerTypes
        BY <4>1, <4>2, RecordTypes DEF Accepted
      <4>4. i + 1 # 0
        OBVIOUS
      <4> QED BY <1>1, <4>1, <4>3, <4>4 DEF Made, LayerTypes, Convolutions
    <3>3. \A k \in 0..(u.len - 1) : k \in 0..(Made(m, i + 1) - 1)
      BY <2>2, <2>3, <2>4, <3>2
    <3>4. Holds(u.oft, u.from, 0..(u.len - 1))
      BY <1>3, <2>4, <3>1, <3>3 DEF Holds
    <3> QED BY <1>2, <3>4, HoldsStill
  <2>5. u.from <= i \/ u.from = i + 1
    BY <1>4, <2>3
  <2>6. u.from <= i => Holds(u.oft, u.from, 0..(u.len - 1))
    BY <1>1, <1>2, <1>4, <2>1 DEF ReadyInv
  <2>7. u.from <= i => Holds(u.oft, u.from, 0..(u.len - 1))'
    BY <1>2, <2>6, HoldsStill
  <2> QED BY <2>4, <2>5, <2>7
<1>5. (i + 1) + 1 = i + 2
  OBVIOUS
<1> QED BY <1>2, <1>4, <1>5 DEF ReadyInv

\* The picture is there for the layers that take it.
LEMMA PreprocessReady ==
    ASSUME EngineTypes, WellLaid(mdl), Preprocess
    PROVE  ReadyInv'
<1>1. PICK m \in Models : m = mdl /\ mdl' = m /\ WellLaid(m)
  BY DEF EngineTypes, TypesInv, Preprocess
<1>2. /\ layer_i' = 0 /\ run' = run + 1
      /\ buf' = [a \in Addresses |-> IF a < Pixels THEN <<run', 0, "q", a>> ELSE buf[a]]
  BY DEF Preprocess, StartCursor
<1>3. Matrix(0)' = 0
  <2>1. Matrix(0)' = Matrix(0)
    BY <1>1 DEF Matrix
  <2> QED BY <1>1, <2>1, MatrixSteps
<1>4. ASSUME NEW n \in 1..Len(m.layers), Reached(m, n), NEW u \in Uses(m, n), u.from <= 0
      PROVE  Holds(u.oft, u.from, 0..(u.len - 1))'
  <2>1. Connected(m, n, u) /\ u.len \in Nat
    BY <1>1, <1>4, UsesTypes DEF WellLaid, Kept
  <2>2. u.from = 0
    BY <1>4, <2>1 DEF Connected
  <2>3. u.oft = 0 /\ u.len <= Pixels /\ Pixels <= MainBufLen
    BY <1>1, <2>1, <2>2 DEF Connected, Place, Made, WellLaid, Kept
  <2>4. ASSUME NEW k \in 0..(u.len - 1)
        PROVE  u.oft + k \in Addresses /\ buf'[u.oft + k] = Name(u.from, "q", k)'
    <3>1. u.oft + k = k /\ k \in Addresses /\ k < Pixels
      BY <2>1, <2>3, EngineConstants DEF Addresses
    <3>2. buf'[k] = <<run', 0, "q", k>>
      BY <1>2, <3>1
    <3>3. Name(0, "q", k)' = <<run', 0, "q", k>>
      BY <1>3 DEF Name
    <3> QED BY <2>2, <3>1, <3>2, <3>3
  <2> QED BY <2>4 DEF Holds, Addresses
<1>5. 0 + 1 = 1
  OBVIOUS
<1> QED BY <1>1, <1>2, <1>4, <1>5 DEF ReadyInv

\* The output is scored when its layer is done, and only the last layer's is.
LEMMA ScoredLast ==
    ASSUME EngineTypes, WellLaid(mdl), phase # "idle", layer_i < Len(mdl.layers), Accepted(Current),
           mdl.out_deq
    PROVE  /\ Current.is_out =>
                /\ layer_i + 1 = Len(mdl.layers)
                /\ Size(Current.out) <= Made(mdl, layer_i + 1) /\ Classes <= Size(Current.out)
           /\ ~Current.is_out => layer_i + 1 < Len(mdl.layers)
<1>1. /\ layer_i + 1 \in 1..Len(mdl.layers) /\ Reached(mdl, layer_i + 1)
      /\ Current = mdl.layers[layer_i + 1] /\ Len(mdl.layers) \in Nat /\ layer_i \in Nat
  BY ReachesCurrent, CurrentRecord, ModelTypes DEF EngineTypes, WellLaid, TypesInv
<1>2. Current.is_out => layer_i + 1 = Len(mdl.layers) /\ Size(Current.out) <= Made(mdl, layer_i + 1)
  BY <1>1 DEF WellLaid, Scored
<1>3. layer_i + 1 = Len(mdl.layers) => Current.is_out /\ Classes <= Size(Current.out)
  BY <1>1 DEF WellLaid, Scored
<1> QED BY <1>1, <1>2, <1>3

LEMMA DoneInv ==
    ASSUME EngineInv, EngineTypes', WellLaid(mdl), LayerDone
    PROVE  ReadyInv' /\ MadeInv' /\ OutputInv' /\ ScoresInv'
<1>1. /\ Working /\ h = Current /\ step = LayerSteps /\ phase = "layer"
      /\ UNCHANGED <<mdl, buf, base, run>> /\ EngineTypes /\ ReadyInv /\ MadeInv
      /\ Accepted(Current) /\ layer_i < Len(mdl.layers)
  <2>1. layer_i < Len(mdl.layers) /\ phase = "layer" /\ LayerStatus = "TM_OK" /\ step = LayerSteps
        /\ UNCHANGED <<mdl, buf, base, run>>
    BY DEF LayerDone, More
  <2>2. h = Current /\ Current \in LayerRecords
    BY <2>1, CurrentRecord DEF EngineInv, EngineTypes, WellLaid
  <2> QED BY <2>1, <2>2, StatusAccepts DEF EngineInv, Working
<1>2. WellLaid(mdl)'
  BY <1>1
<1>3. CASE Advance /\ ~(h.is_out /\ mdl.out_deq)
  <2>1. ReadyInv'
    BY <1>1, <1>3, AdvanceReady
  <2>2. MadeInv'
    <3>1. (step = 0)'
      BY <1>3 DEF Advance
    <3> QED BY <1>2, <3>1, NothingMade, PTL
  <2>3. phase' = "layer" /\ layer_i' = layer_i + 1 /\ mdl' = mdl
    BY <1>1, <1>3 DEF Advance
  <2>4. ScoresInv'
    <3>1. mdl.out_deq => layer_i + 1 < Len(mdl.layers)
      BY <1>1, <1>3, ScoredLast
    <3> QED BY <2>3, <3>1, ModelTypes DEF ScoresInv, EngineTypes, TypesInv
  <2> QED BY <2>1, <2>2, <2>3, <2>4 DEF OutputInv
<1>4. CASE /\ h.is_out /\ mdl.out_deq /\ outs' = Align(h.out_oft + Size(h.out))
           /\ phase' = "output" /\ step' = 0 /\ UNCHANGED <<layer_i, layer_body>>
  <2>1. PICK l \in LayerRecords, n \in Nat : l = Current /\ n = Produced /\ n = layer_i + 1
    BY <1>1, CurrentRecord, ModelTypes DEF WellLaid, EngineTypes, TypesInv, Produced
  <2>2. Current' = l /\ Produced' = n
    BY <1>1, <1>4, <2>1 DEF Current, Produced
  <2>3. Holds(l.out_oft, n, 0..(Made(mdl, n) - 1)) /\ Size(l.out) <= Made(mdl, n) /\ Size(l.out) \in Nat
    BY <1>1, <1>4, <2>1, LayerMade, ScoredLast, RecordTypes
  <2>4. Made(mdl, n) \in Int
    <3>1. /\ l.out.c \in Nat /\ l.in.c \in Nat /\ Size(l.in) \in Nat /\ Size(l.out) \in Nat
          /\ l.type \in LayerTypes /\ n # 0 /\ l = mdl.layers[n]
      BY <1>1, <2>1, RecordTypes, CurrentRecord, ModelTypes DEF Accepted, WellLaid, EngineTypes, TypesInv
    <3> QED BY <3>1 DEF Made, LayerTypes, Convolutions
  <2>5. Holds(l.out_oft, n, 0..(Size(l.out) - 1))
    <3>1. \A k \in 0..(Size(l.out) - 1) : k \in 0..(Made(mdl, n) - 1)
      BY <2>3, <2>4
    <3> QED BY <2>3, <3>1 DEF Holds
  <2>6. Holds(l.out_oft, n, 0..(Size(l.out) - 1))'
    BY <1>1, <2>5, HoldsStill
  <2>7. HoldsFloats(outs, n, "score", 0..(0 - 1))'
    BY DEF HoldsFloats
  <2>8. OutputInv'
    BY <1>4, <2>2, <2>6, <2>7 DEF OutputInv
  <2> QED BY <1>4, <2>8 DEF ReadyInv, MadeInv, Working, ScoresInv
<1> QED BY <1>3, <1>4 DEF LayerDone, EngineInv

\* Scores are written behind the output's bytes, which stay.
LEMMA DequantiseInv ==
    ASSUME EngineInv, EngineTypes', WellLaid(mdl), Dequantise
    PROVE  ReadyInv' /\ MadeInv' /\ OutputInv' /\ ScoresInv'
<1>1. /\ phase = "output" /\ layer_i < Len(mdl.layers) /\ Accepted(Current) /\ Current.is_out /\ mdl.out_deq
      /\ outs = Align(Current.out_oft + Size(Current.out)) /\ h = Current
      /\ mdl' = mdl /\ run' = run /\ outs' = outs
      /\ EngineTypes
  BY CurrentRecord DEF Dequantise, EngineInv, EngineTypes, WalkInv, WellLaid
<1>2. PICK l \in LayerRecords, n \in Nat : l = Current /\ n = Produced /\ n = layer_i + 1
  BY <1>1, CurrentRecord, ModelTypes DEF WellLaid, EngineTypes, TypesInv, Produced
<1>3. PICK o \in Nat, z \in Nat, s \in Nat : o = l.out_oft /\ z = Size(l.out) /\ s = step
  BY RecordTypes DEF EngineInv, EngineTypes, TypesInv
<1>4. PICK A \in Nat : A = outs /\ A = Align(o + z) /\ o + z <= A /\ A + 4 * z <= MainBufLen
  BY <1>1, <1>2, <1>3, OutputPlace DEF Addresses
<1>5. Holds(o, n, 0..(z - 1)) /\ HoldsFloats(A, n, "score", 0..(s - 1))
  BY <1>1, <1>2, <1>3, <1>4 DEF EngineInv, OutputInv
<1>6. CASE /\ step < Size(h.out) /\ buf' = Stored(Dequantised(step)) /\ step' = step + 1
           /\ UNCHANGED <<phase, layer_i, layer_body>>
  <2>1. buf' = Stored(Floats(A, n, "score", s)) /\ s < z /\ step' = s + 1
    BY <1>1, <1>2, <1>3, <1>4, <1>6 DEF Dequantised
  <2>2. Float(A, s) \subseteq Addresses
    BY <1>4, <2>1, EngineConstants DEF Float, Region, Addresses
  <2>3. HoldsFloats(A, n, "score", (0..s) \ {s})
    <3>1. \A i \in (0..s) \ {s} : i \in 0..(s - 1)
      OBVIOUS
    <3> QED BY <1>5, <3>1 DEF HoldsFloats
  <2>4. HoldsFloats(A, n, "score", 0..s)'
    <3>1. (0..s) \in SUBSET Nat
      OBVIOUS
    <3> QED BY <1>1, <2>1, <2>2, <2>3, <3>1, FloatAdded
  <2>5. Holds(o, n, 0..(z - 1))'
    <3>0. \A a \in Addresses \ Float(A, s) : buf'[a] = buf[a]
      <4>1. \A a \in Addresses \ Float(A, s) : Stored(Floats(A, n, "score", s))[a] = buf[a]
        BY StoredFloat
      <4> QED BY <2>1, <4>1
    <3>1. ASSUME NEW k \in 0..(z - 1) PROVE buf'[o + k] = buf[o + k]
      <4>1. o + k \in Addresses
        BY <1>5 DEF Holds
      <4>2. o + k \notin Float(A, s)
        BY <1>4 DEF Float, Region
      <4> QED BY <3>0, <4>1, <4>2
    <3> QED BY <1>1, <1>5, <3>1, HoldsStill
  <2>6. Current' = l /\ Produced' = n /\ outs' = A /\ (s + 1) - 1 = s
    BY <1>1, <1>2, <1>4, <1>6 DEF Current, Produced
  <2>7. OutputInv'
    BY <1>3, <2>1, <2>4, <2>5, <2>6 DEF OutputInv
  <2> QED BY <1>1, <1>6, <2>7 DEF ReadyInv, MadeInv, Working, ScoresInv
<1>7. CASE step = Size(h.out) /\ Advance /\ UNCHANGED buf
  <2>1. s = z /\ buf' = buf /\ phase' = "layer" /\ layer_i' = n
    BY <1>1, <1>2, <1>3, <1>7 DEF Advance
  <2>2. n = Len(mdl.layers) /\ Classes <= z
    BY <1>1, <1>2, <1>3, ScoredLast
  <2>3. HoldsFloats(A, n, "score", 0..(Classes - 1))
    <3>1. \A i \in 0..(Classes - 1) : i \in 0..(s - 1)
      BY <2>1, <2>2, EngineConstants
    <3> QED BY <1>5, <3>1 DEF HoldsFloats
  <2>4. HoldsFloats(A, n, "score", 0..(Classes - 1))'
    BY <1>1, <2>1, <2>3, FloatsStill
  <2>5. ScoresInv'
    BY <1>1, <1>4, <2>1, <2>2, <2>4 DEF ScoresInv
  <2>6. ReadyInv' /\ MadeInv'
    BY <1>1, <2>1, <2>2 DEF ReadyInv, MadeInv, Working
  <2> QED BY <2>1, <2>5, <2>6 DEF OutputInv
<1> QED BY <1>6, <1>7 DEF Dequantise

LEMMA PreprocessInv ==
    ASSUME EngineInv, EngineTypes', WellLaid(mdl), Preprocess
    PROVE  ReadyInv' /\ MadeInv' /\ OutputInv' /\ ScoresInv'
<1>1. /\ EngineTypes /\ mdl \in Models /\ mdl' = mdl /\ phase' = "layer" /\ layer_i' = 0 /\ (step = 0)'
  BY DEF EngineInv, EngineTypes, TypesInv, Preprocess, StartCursor
<1>2. ReadyInv'
  BY <1>1, PreprocessReady
<1>3. WellLaid(mdl)'
  BY <1>1
<1>4. MadeInv'
  BY <1>1, <1>3, NothingMade, PTL
<1>5. ScoresInv'
  <2>1. Len(mdl.layers) = 0 /\ mdl.out_deq => FALSE
    <3>1. Reached(mdl, 0)
      BY DEF Reached
    <3> QED BY <3>1 DEF WellLaid, Scored
  <2> QED BY <1>1, <2>1 DEF ScoresInv
<1> QED BY <1>1, <1>2, <1>4, <1>5 DEF OutputInv

LEMMA StepInv ==
    ASSUME EngineInv, EngineTypes', WellLaid(mdl), LayerStep
    PROVE  ReadyInv' /\ MadeInv' /\ OutputInv' /\ ScoresInv'
<1>1. ReadyInv' /\ MadeInv'
  <2>1. Current.type # "RESHAPE"
    BY StepState DEF EngineInv, LayerSteps, IsConv
  <2> QED BY <2>1, StepReady, StepMakesBytes, StepMakesSoftmax DEF EngineInv
<1>2. phase' = "layer" /\ layer_i' < Len(mdl'.layers)
  BY StepState DEF EngineInv, Working
<1> QED BY <1>1, <1>2, ModelTypes DEF OutputInv, ScoresInv

-----------------------------------------------------------------------------
(* The theorems.                                                           *)

LEMMA NextInv ==
    ASSUME EngineInv, WellLaid(mdl), [Next]_vars
    PROVE  EngineInv'
<1>1. EngineTypes /\ EngineTypes'
  BY NextTypes DEF EngineInv
<1>2. ReadyInv' /\ MadeInv' /\ OutputInv' /\ ScoresInv'
  <2>1. CASE \E m \in Models : Load(m)
    BY <2>1 DEF Load, ReadyInv, MadeInv, Working, OutputInv, ScoresInv
  <2>2. CASE Preprocess
    BY <1>1, <2>2, PreprocessInv
  <2>3. CASE LayerFails
    BY <2>3 DEF LayerFails, ReadyInv, MadeInv, Working, OutputInv, ScoresInv
  <2>4. CASE LayerStep
    BY <1>1, <2>4, StepInv
  <2>5. CASE LayerDone
    BY <1>1, <2>5, DoneInv
  <2>6. CASE Dequantise
    BY <1>1, <2>6, DequantiseInv
  <2>7. CASE RunDone
    <3>1. phase = "layer" /\ phase' = "parse" /\ UNCHANGED <<mdl, layer_i, buf, outs, run>>
      BY <2>7 DEF RunDone
    <3>2. layer_i = Len(mdl.layers)
      BY <1>1, <2>7, ModelTypes DEF RunDone, More, EngineTypes, TypesInv
    <3>3. ASSUME mdl.out_deq PROVE HoldsFloats(outs, Len(mdl.layers), "score", 0..(Classes - 1))'
      <4>1. PICK n, A : n = Len(mdl.layers) /\ A = outs
        OBVIOUS
      <4>2. HoldsFloats(A, n, "score", 0..(Classes - 1))
        BY <3>1, <3>2, <3>3, <4>1 DEF EngineInv, ScoresInv
      <4>3. HoldsFloats(A, n, "score", 0..(Classes - 1))'
        BY <3>1, <4>2, FloatsStill
      <4> QED BY <3>1, <4>1, <4>3
    <3> QED BY <3>1, <3>3 DEF ReadyInv, MadeInv, Working, OutputInv, ScoresInv
  <2>8. CASE ParseOutput
    BY <2>8 DEF ParseOutput, ReadyInv, MadeInv, Working, OutputInv, ScoresInv
  <2>9. CASE UNCHANGED vars
    <3>1. UNCHANGED <<mdl, phase, layer_i, step, buf, outs, run, base, layer_body>>
      BY <2>9 DEF vars
    <3>2. Current' = Current /\ Produced' = Produced /\ \A n : Matrix(n)' = Matrix(n)
      BY <3>1 DEF Current, Produced, Matrix
    <3>3. ReadyInv'
      <4>1. PICK m \in Models, i \in {layer_i} : m = mdl /\ i = layer_i /\ mdl' = m /\ layer_i' = i
        BY <1>1, <3>1 DEF EngineTypes, TypesInv
      <4>2. ASSUME phase = "layer", NEW n \in (i + 1)..Len(m.layers), Reached(m, n), NEW u \in Uses(m, n),
                   u.from <= i
            PROVE  Holds(u.oft, u.from, 0..(u.len - 1))'
        <5>1. Holds(u.oft, u.from, 0..(u.len - 1))
          BY <4>1, <4>2 DEF EngineInv, ReadyInv
        <5> QED BY <3>1, <5>1, HoldsStill
      <4> QED BY <3>1, <4>1, <4>2 DEF ReadyInv
    <3>4. MadeInv'
      BY <3>1, <3>2 DEF EngineInv, MadeInv, SoftmaxInv, Working, Holds, HoldsFloats, Name
    <3>5. OutputInv' /\ ScoresInv'
      BY <3>1, <3>2 DEF EngineInv, OutputInv, ScoresInv, Holds, HoldsFloats, Name
    <3> QED BY <3>3, <3>4, <3>5
  <2> QED BY <2>1, <2>2, <2>3, <2>4, <2>5, <2>6, <2>7, <2>8, <2>9 DEF Next
<1> QED BY <1>1, <1>2 DEF EngineInv

LEMMA InitInv == Init => EngineInv
  BY InitTypes DEF Init, EngineInv, ReadyInv, MadeInv, Working, OutputInv, ScoresInv

\* In every reachable state the matrices an inference has computed, and is yet to
\* use, lie whole where the next layers look for them (EngineInv), for every model
\* that is laid out right: tm_run's in-place and overlaid buffers never clobber
\* a value a later layer or a later step of the same layer takes.
THEOREM EngineInvariant ==
    ASSUME ModelsWellLaid
    PROVE  Spec => []EngineInv
<1>1. Init => EngineInv
  BY InitInv
<1>2. EngineInv /\ [Next]_vars => EngineInv'
  <2> SUFFICES ASSUME EngineInv, [Next]_vars PROVE EngineInv'
    OBVIOUS
  <2>1. WellLaid(mdl)
    BY DEF ModelsWellLaid, EngineInv, EngineTypes, TypesInv
  <2> QED BY <2>1, NextInv
<1> QED BY <1>1, <1>2, PTL DEF Spec

\* What a working layer takes from the buffer is there.
LEMMA StepReadsFresh ==
    ASSUME EngineInv, WellLaid(mdl), Computing
    PROVE  \A v \in StepReads : v[1] \in Addresses /\ buf[v[1]] = v[2]
<1>1. PICK m \in Models, i \in Nat : /\ m = mdl /\ i = layer_i /\ i + 1 \in 1..Len(m.layers)
                                     /\ m.layers[i + 1] = Current /\ Current \in LayerRecords
                                     /\ h = Current /\ phase = "layer" /\ layer_i < Len(mdl.layers)
  <2>1. layer_i \in Nat /\ mdl \in Models /\ phase = "layer" /\ layer_i < Len(mdl.layers)
    BY ModelTypes DEF EngineInv, EngineTypes, TypesInv, Computing, More
  <2> QED BY <2>1, CurrentRecord DEF EngineInv, EngineTypes, WellLaid
<1>2. PICK l \in LayerRecords : l = Current /\ l = m.layers[i + 1] /\ h = l
  BY <1>1
<1>3. Accepted(l) /\ Reached(m, i + 1) /\ Working
  <2>1. Accepted(l)
    BY <1>2, StatusAccepts DEF Computing
  <2> QED BY <1>1, <1>2, <2>1, ReachesCurrent DEF EngineInv, Working
<1>4. step \in Nat /\ step < LayerSteps
  BY DEF EngineInv, EngineTypes, TypesInv, Computing
<1>5. ASSUME NEW u \in Uses(m, i + 1), NEW I \in SUBSET Nat, \A k \in I : k < NeededBytes(l)
      PROVE  \A v \in Quantised(u.oft, u.from, I) : v[1] \in Addresses /\ buf[v[1]] = v[2]
  <2>1. Connected(m, i + 1, u) /\ u.len = NeededBytes(l) /\ u.len \in Nat
    BY <1>1, <1>2, <1>3, UsesTypes DEF WellLaid, Kept
  <2>2. u.from <= i
    BY <2>1 DEF Connected
  <2>3. Holds(u.oft, u.from, 0..(u.len - 1))
    <3>1. i + 1 \in (layer_i + 1)..Len(mdl.layers)
      BY <1>1, ModelTypes
    <3> QED BY <1>1, <1>3, <2>2, <3>1 DEF EngineInv, ReadyInv
  <2>4. ASSUME NEW v \in Quantised(u.oft, u.from, I) PROVE v[1] \in Addresses /\ buf[v[1]] = v[2]
    <3>1. PICK k \in I : v = <<u.oft + k, Name(u.from, "q", k)>>
      BY DEF Quantised
    <3>2. k \in 0..(u.len - 1)
      BY <1>5, <2>1
    <3>3. v[1] = u.oft + k /\ v[2] = Name(u.from, "q", k)
      BY <3>1
    <3> QED BY <2>3, <3>2, <3>3 DEF Holds
  <2> QED BY <2>4
<1>6. PICK u : u = InputUse(m, i + 1)
  OBVIOUS
<1>7. u \in Uses(m, i + 1) /\ u.oft = InOft /\ u.from = Consumed
  BY <1>1, <1>2, <1>6 DEF Uses, InputUse, InOft, Consumed
<1>8. ASSUME NEW I \in SUBSET Nat, StepReads = Quantised(InOft, Consumed, I), \A k \in I : k < NeededBytes(l)
      PROVE  \A v \in StepReads : v[1] \in Addresses /\ buf[v[1]] = v[2]
  BY <1>5, <1>7, <1>8
<1>9. CASE l.type \in Convolutions
  <2>1. StepReads = Quantised(InOft, Consumed, ConvReads) /\ NeededBytes(l) = Size(l.in)
    BY <1>2, <1>9 DEF StepReads, IsConv, Convolutions, NeededBytes
  <2>2. PICK I : I = ConvReads
    OBVIOUS
  <2>3. I \subseteq 0..(Size(l.in) - 1) /\ Size(l.in) \in Nat
    BY <1>2, <2>2, ConvTakes, RecordTypes
  <2>4. I \in SUBSET Nat /\ \A k \in I : k < NeededBytes(l)
    BY <2>1, <2>3
  <2> QED BY <1>8, <2>1, <2>2, <2>4
<1>10. CASE l.type = "GAP"
  <2>1. PICK C \in Nat, P \in Nat : C = l.out.c /\ P = l.in.h * l.in.w
    BY RecordTypes
  <2>2. /\ StepReads = Quantised(InOft, Consumed, {step + C * p : p \in 0..(P - 1)})
        /\ NeededBytes(l) = C * P /\ step < C
    BY <1>2, <1>4, <1>10, <2>1 DEF StepReads, IsConv, Convolutions, NeededBytes, LayerSteps
  <2>3. PICK I : I = {step + C * p : p \in 0..(P - 1)}
    OBVIOUS
  <2>4. ASSUME NEW p \in 0..(P - 1) PROVE step + C * p \in Nat /\ step + C * p < C * P
    <3>1. p * C + step \in 0..(P * C - 1)
      BY <1>4, <2>2, Below
    <3>2. PICK x \in Nat, y \in Nat : x = p * C /\ y = P * C
      OBVIOUS
    <3>3. x = C * p /\ y = C * P
      BY <3>2
    <3> QED BY <1>4, <3>1, <3>2, <3>3
  <2>5. I \in SUBSET Nat /\ \A k \in I : k < NeededBytes(l)
    BY <2>2, <2>3, <2>4
  <2> QED BY <1>8, <2>2, <2>3, <2>5
<1>11. CASE l.type = "FC"
  <2>1. PICK C \in Nat : C = l.in.c
    BY RecordTypes
  <2>2. StepReads = Quantised(InOft, Consumed, 0..(C - 1)) /\ NeededBytes(l) = C
    BY <1>2, <1>11, <2>1 DEF StepReads, IsConv, Convolutions, NeededBytes
  <2>3. (0..(C - 1)) \in SUBSET Nat /\ \A k \in 0..(C - 1) : k < NeededBytes(l)
    BY <2>2
  <2> QED BY <1>8, <2>2, <2>3
<1>12. CASE l.type = "ADD"
  <2>1. PICK w : w = SecondUse(m, i + 1)
    OBVIOUS
  <2>2. w \in Uses(m, i + 1) /\ w.oft = h.in_oft1 /\ w.from = h.from1
    BY <1>2, <1>12, <2>1 DEF Uses, SecondUse
  <2>3. PICK s \in Nat : s = step
    BY <1>4
  <2>4. /\ StepReads = Quantised(u.oft, u.from, {s}) \cup Quantised(w.oft, w.from, {s})
        /\ s < NeededBytes(l)
    BY <1>2, <1>4, <1>7, <1>12, <2>2, <2>3
       DEF StepReads, IsConv, Convolutions, NeededBytes, LayerSteps
  <2>5. {s} \in SUBSET Nat /\ \A k \in {s} : k < NeededBytes(l)
    BY <2>4
  <2>6. \A v \in Quantised(u.oft, u.from, {s}) : v[1] \in Addresses /\ buf[v[1]] = v[2]
    BY <1>5, <1>7, <2>5
  <2>7. \A v \in Quantised(w.oft, w.from, {s}) : v[1] \in Addresses /\ buf[v[1]] = v[2]
    BY <1>5, <2>2, <2>5
  <2> QED BY <2>4, <2>6, <2>7
<1>13. CASE l.type = "SOFTMAX"
  <2>1. PICK o \in Nat, C \in Nat : o = l.out_oft /\ C = l.in.c
    BY RecordTypes
  <2>2. PICK c \in Nat : /\ c = SoftmaxCell /\ c \in 0..(C - 1) /\ SoftmaxPass \in 0..2
                         /\ SoftmaxPass = 1 => step = C + c
                         /\ SoftmaxPass = 2 => step = 2 * C + c
    BY <1>2, <1>4, <1>13, <2>1, SoftmaxAt
  <2>3. /\ HoldsFloats(o, Produced, "real", {k \in 0..(C - 1) : step > k /\ step <= C + k})
        /\ HoldsFloats(o, Produced, "exp", {k \in 0..(C - 1) : step > C + k /\ step <= 2 * C + k})
    BY <1>2, <1>3, <1>13, <2>1 DEF EngineInv, MadeInv, SoftmaxInv
  <2>4. ~IsConv
    BY <1>2, <1>13 DEF IsConv
  <2>5. ASSUME NEW form, StepReads = Floats(o, Produced, form, c), HoldsFloats(o, Produced, form, {c})
        PROVE  \A v \in StepReads : v[1] \in Addresses /\ buf[v[1]] = v[2]
    <3>1. \A v \in StepReads : \E a \in Float(o, c) : v = <<a, Name(Produced, form, c)>>
      BY <2>5 DEF Floats
    <3>2. \A a \in Float(o, c) : a \in Addresses /\ buf[a] = Name(Produced, form, c)
      BY <2>5 DEF HoldsFloats
    <3> QED BY <3>1, <3>2
  <2>6. CASE SoftmaxPass = 0
    <3>1. StepReads = Quantised(InOft, Consumed, {c}) /\ NeededBytes(l) = C
      BY <1>2, <1>13, <2>1, <2>2, <2>4, <2>6 DEF StepReads, NeededBytes, Convolutions
    <3>2. {c} \in SUBSET Nat /\ \A k \in {c} : k < NeededBytes(l)
      BY <2>1, <2>2, <3>1
    <3> QED BY <1>8, <3>1, <3>2
  <2>7. CASE SoftmaxPass = 1
    <3>1. StepReads = Floats(o, Produced, "real", c)
      BY <1>2, <1>13, <2>1, <2>2, <2>4, <2>7 DEF StepReads
    <3>2. HoldsFloats(o, Produced, "real", {c})
      <4>1. c \in {k \in 0..(C - 1) : step > k /\ step <= C + k}
        BY <2>1, <2>2, <2>7
      <4> QED BY <2>3, <4>1 DEF HoldsFloats
    <3> QED BY <2>5, <3>1, <3>2
  <2>8. CASE SoftmaxPass = 2
    <3>1. StepReads = Floats(o, Produced, "exp", c)
      BY <1>2, <1>13, <2>1, <2>2, <2>4, <2>8 DEF StepReads
    <3>2. HoldsFloats(o, Produced, "exp", {c})
      <4>1. c \in {k \in 0..(C - 1) : step > C + k /\ step <= 2 * C + k}
        BY <2>1, <2>2, <2>8
      <4> QED BY <2>3, <4>1 DEF HoldsFloats
    <3> QED BY <2>5, <3>1, <3>2
  <2> QED BY <2>2, <2>6, <2>7, <2>8
<1>14. CASE l.type = "RESHAPE"
  BY <1>2, <1>4, <1>14 DEF LayerSteps, IsConv
<1> QED BY <1>3, <1>9, <1>10, <1>11, <1>12, <1>13, <1>14 DEF Accepted, LayerTypes, Convolutions

\* A layer reads inside its record.
LEMMA BodyInside ==
    ASSUME NEW l \in LayerRecords, h = l, Accepted(l), RecordHolds(l), step \in Nat, step < LayerSteps
    PROVE  /\ BodyReads \subseteq 0..(l.size - 1)
           /\ IsConv => /\ l.out.c <= MaxCSize
                        /\ ~Pointwise =>
                             (IF l.dmul > 0 THEN l.out.c ELSE l.in.c) * MaxK <= MaxKcSize
<1>1. PICK S \in Nat, C \in Nat, D \in Nat, w \in Nat, b \in Nat, ws \in Nat, K \in Nat :
        /\ S = l.size /\ C = l.out.c /\ D = l.in.c /\ w = l.w_oft /\ b = l.b_oft /\ ws = l.ws_oft
        /\ K = l.k * l.k
  BY RecordTypes
<1>2. CASE l.type \in Convolutions
  <2>1. IsConv /\ step < ConvSteps /\ MaxK = K
    BY <1>1, <1>2 DEF IsConv, Convolutions, LayerSteps, MaxK
  <2>2. PICK chi \in Nat : chi = (IF h.dmul > 0 THEN 1 ELSE h.in.c)
    BY <1>1
  <2>3. PICK X \in Nat : X = chi * K
    OBVIOUS
  <2>4. /\ w + C * X <= S /\ b + 4 * C <= S /\ ws + 4 * C <= S /\ C <= MaxCSize
        /\ K # 1 => (IF l.dmul > 0 THEN l.out.c ELSE l.in.c) * K <= MaxKcSize
    BY <1>1, <1>2, <2>2, <2>3 DEF RecordHolds
  <2>5. PICK chans : chans = {e % h.out.c : e \in ConvWrites}
    OBVIOUS
  <2>6. chans \subseteq 0..(C - 1)
    BY <1>1, <1>2, <2>1, <2>5, ConvStep
  <2>7. \A a \in BodyReads : \E ch \in chans :
           a \in Region(w + ch * chi * K, X) \cup Region(b + 4 * ch, 4) \cup Region(ws + 4 * ch, 4)
    <3>1. h.type # "FC"
      BY <1>2 DEF Convolutions
    <3>2. ASSUME NEW a \in BodyReads
          PROVE  \E ch \in chans : a \in (Region(h.w_oft + ch * chi * MaxK, chi * MaxK)
                                        \cup Region(h.b_oft + 4 * ch, 4)) \cup Region(h.ws_oft + 4 * ch, 4)
      BY <2>1, <2>2, <2>5, <3>1 DEF BodyReads
    <3> QED BY <1>1, <2>1, <2>3, <3>2
  <2>8. ASSUME NEW ch \in 0..(C - 1)
        PROVE  /\ Region(w + ch * chi * K, X) \subseteq 0..(S - 1)
               /\ Region(b + 4 * ch, 4) \subseteq 0..(S - 1) /\ Region(ws + 4 * ch, 4) \subseteq 0..(S - 1)
    <3>1. ch * chi * K = ch * X
      BY <2>3
    <3>2. PICK y \in Nat, z \in Nat : y = ch * X /\ z = C * X
      OBVIOUS
    <3>3. ASSUME NEW j \in 0..(X - 1) PROVE y + j \in 0..(z - 1)
      BY <3>2, Below
    <3>4. \A a \in Region(w + y, X) : a \in 0..(S - 1)
      <4>1. ASSUME NEW a \in Region(w + y, X) PROVE a \in 0..(S - 1)
        <5>1. PICK j \in 0..(X - 1) : a = w + y + j
          <6>1. a \in Int /\ a - (w + y) \in 0..(X - 1) /\ a = w + y + (a - (w + y))
            BY DEF Region
          <6> QED BY <6>1
        <5>2. y + j \in 0..(z - 1)
          BY <3>3
        <5> QED BY <2>4, <3>2, <5>1, <5>2
      <4> QED BY <4>1
    <3>5. Region(b + 4 * ch, 4) \subseteq 0..(S - 1) /\ Region(ws + 4 * ch, 4) \subseteq 0..(S - 1)
      BY <2>4 DEF Region
    <3> QED BY <3>1, <3>2, <3>4, <3>5
  <2>9. BodyReads \subseteq 0..(S - 1)
    <3>1. ASSUME NEW a \in BodyReads PROVE a \in 0..(S - 1)
      <4>1. PICK ch \in chans :
              a \in Region(w + ch * chi * K, X) \cup Region(b + 4 * ch, 4) \cup Region(ws + 4 * ch, 4)
        BY <2>7, <3>1
      <4> QED BY <2>6, <2>8, <4>1
    <3> QED BY <3>1
  <2> QED BY <1>1, <2>1, <2>4, <2>9 DEF Pointwise
<1>3. CASE l.type = "FC"
  <2>1. ~IsConv /\ step < C
    BY <1>1, <1>3 DEF IsConv, LayerSteps
  <2>2. w + C * D <= S /\ b + 4 * C <= S /\ ws + 4 <= S
    BY <1>1, <1>3 DEF RecordHolds
  <2>3. BodyReads = Region(w + step * D, D) \cup Region(b + 4 * step, 4) \cup Region(ws + 4 * 0, 4)
    BY <1>1, <1>3, <2>1 DEF BodyReads
  <2>4. PICK y \in Nat, z \in Nat : y = step * D /\ z = C * D
    OBVIOUS
  <2>5. ASSUME NEW j \in 0..(D - 1) PROVE y + j \in 0..(z - 1)
    BY <2>1, <2>4, Below, step \in 0..(C - 1)
  <2>6. ASSUME NEW a \in Region(w + y, D) PROVE a \in 0..(S - 1)
    <3>1. PICK j \in 0..(D - 1) : a = w + y + j
      <4>1. a \in Int /\ a - (w + y) \in 0..(D - 1) /\ a = w + y + (a - (w + y))
        BY DEF Region
      <4> QED BY <4>1
    <3>2. y + j \in 0..(z - 1)
      BY <2>5
    <3> QED BY <2>2, <2>4, <3>1, <3>2
  <2>7. Region(b + 4 * step, 4) \subseteq 0..(S - 1) /\ Region(ws + 4 * 0, 4) \subseteq 0..(S - 1)
    BY <2>1, <2>2 DEF Region
  <2> QED BY <1>1, <2>1, <2>3, <2>4, <2>6, <2>7
<1>4. CASE l.type \notin Convolutions \cup {"FC"}
  BY <1>4 DEF BodyReads, IsConv, Convolutions
<1> QED BY <1>2, <1>3, <1>4

\* Every variable of the engine keeps its type, and the cursor of tm_run is on a
\* layer record, for every model that is laid out right (layer_i and layer_body
\* advance together and are reset together, whatever was aborted before).
THEOREM TypeCorrect ==
    ASSUME ModelsWellLaid
    PROVE  Spec => []TypeOK
<1>1. EngineInv => TypeOK
  BY DEF EngineInv, EngineTypes, TypesInv, TypeOK
<1> QED BY <1>1, EngineInvariant, PTL

\* What tm_run and its layers read is fresh: each value is the one its producer
\* put there in this inference, although matrices are laid over dead ones, the
\* softmax works in its own output, and an inference before this one may have
\* been aborted or been another model's.
THEOREM FreshInputs ==
    ASSUME ModelsWellLaid
    PROVE  Spec => []InputsFresh
<1>1. EngineInv => InputsFresh
  <2> SUFFICES ASSUME EngineInv PROVE InputsFresh
    OBVIOUS
  <2>1. WellLaid(mdl) /\ Len(mdl.layers) \in Nat
    BY ModelTypes DEF ModelsWellLaid, EngineInv, EngineTypes, TypesInv
  <2>2. CASE Computing
    BY <2>1, <2>2, StepReadsFresh DEF InputsFresh, Reads
  <2>3. CASE ~Computing /\ phase = "output" /\ step < Size(h.out)
    <3>1. /\ Reads = Quantised(h.out_oft, Produced, {step})
          /\ layer_i < Len(mdl.layers) /\ h = Current /\ step \in Nat
      BY <2>1, <2>3, CurrentRecord DEF Reads, EngineInv, EngineTypes, TypesInv, WalkInv, WellLaid
    <3>2. PICK s \in Nat, z \in Nat : s = step /\ z = Size(Current.out) /\ s \in 0..(z - 1)
      <4>1. Current \in LayerRecords
        BY <2>1, <3>1, CurrentRecord DEF EngineInv, EngineTypes, WellLaid
      <4>2. Size(Current.out) \in Nat
        BY <4>1, RecordTypes
      <4>3. step < Size(Current.out)
        BY <2>3, <3>1, Zenon
      <4>4. step \in Nat /\ step \in 0..(Size(Current.out) - 1)
        BY <3>1, <4>2, <4>3
      <4> QED BY <4>2, <4>4, Zenon
    <3>3. Holds(Current.out_oft, Produced, 0..(z - 1))
      BY <2>3, <3>2 DEF EngineInv, OutputInv
    <3> QED BY <3>1, <3>2, <3>3 DEF InputsFresh, Quantised, Holds
  <2>4. CASE phase = "parse" /\ mdl.out_deq
    <3>1. Reads = UNION {Floats(outs, Len(mdl.layers), "score", i) : i \in 0..(Classes - 1)}
      BY <2>4 DEF Reads, Computing
    <3>2. HoldsFloats(outs, Len(mdl.layers), "score", 0..(Classes - 1))
      BY <2>4 DEF EngineInv, EngineTypes, WalkInv, ScoresInv
    <3>3. ASSUME NEW v \in Reads PROVE v[1] \in Addresses /\ buf[v[1]] = v[2]
      <4>1. PICK i \in 0..(Classes - 1) : v \in Floats(outs, Len(mdl.layers), "score", i)
        BY <3>1
      <4>2. PICK a \in Float(outs, i) : v = <<a, Name(Len(mdl.layers), "score", i)>>
        BY <4>1 DEF Floats
      <4> QED BY <3>2, <4>1, <4>2 DEF HoldsFloats
    <3> QED BY <3>3 DEF InputsFresh
  <2>5. CASE /\ ~Computing /\ ~(phase = "output" /\ step < Size(h.out)) /\ ~(phase = "parse" /\ mdl.out_deq)
    BY <2>5 DEF InputsFresh, Reads
  <2> QED BY <2>2, <2>3, <2>4, <2>5 DEF Computing
<1> QED BY <1>1, EngineInvariant, PTL

\* The engine stays inside its arrays, although tm_run checks neither the
\* offsets of a layer nor the size of its record, and only two of the sizes.
THEOREM StaysInside ==
    ASSUME ModelsWellLaid
    PROVE  Spec => []AccessesInside
<1>1. EngineInv => AccessesInside
  <2> SUFFICES ASSUME EngineInv PROVE AccessesInside
    OBVIOUS
  <2>1. WellLaid(mdl) /\ EngineTypes /\ TypesInv
    BY DEF ModelsWellLaid, EngineInv, EngineTypes, TypesInv
  <2>2. ASSUME Computing
        PROVE  /\ \A v \in StepWrites : v[1] \in Addresses
               /\ BodyReads \subseteq 0..(h.size - 1)
               /\ IsConv => /\ h.out.c <= MaxCSize
                            /\ ~Pointwise =>
                                 (IF h.dmul > 0 THEN h.out.c ELSE h.in.c) * MaxK <= MaxKcSize
    <3>1. /\ h = Current /\ Current \in LayerRecords /\ Current = mdl.layers[layer_i + 1]
          /\ layer_i + 1 \in 1..Len(mdl.layers) /\ layer_i < Len(mdl.layers) /\ phase = "layer"
      BY <2>1, <2>2, CurrentRecord DEF Computing, More, WellLaid
    <3>2. PICK l \in LayerRecords : l = Current /\ h = l
      BY <3>1
    <3>3. Accepted(l) /\ Reached(mdl, layer_i + 1)
      <4>1. Accepted(l)
        BY <2>2, <3>2, StatusAccepts DEF Computing
      <4> QED BY <2>1, <3>1, <3>2, <4>1, ReachesCurrent
    <3>4. step \in Nat /\ step < LayerSteps
      BY <2>1, <2>2 DEF Computing, TypesInv
    <3>5. RecordHolds(l) /\ l.out_oft + WrittenBytes(l) <= MainBufLen
      BY <2>1, <3>1, <3>2, <3>3 DEF WellLaid, Inside
    <3>6. Region(l.out_oft, WrittenBytes(l)) \subseteq Addresses
      BY <3>5, RecordTypes, EngineConstants DEF Region, Addresses
    <3>7. \A v \in StepWrites : v[1] \in Addresses
      BY <3>2, <3>3, <3>4, <3>6, StepInside
    <3> QED BY <3>2, <3>3, <3>4, <3>5, <3>7, BodyInside
  <2>3. ASSUME phase = "output", step < Size(h.out), NEW v \in Dequantised(step)
        PROVE  v[1] \in Addresses
    <3>1. /\ layer_i < Len(mdl.layers) /\ Accepted(Current) /\ Current.is_out /\ mdl.out_deq
          /\ h = Current /\ Current \in LayerRecords
      BY <2>1, <2>3, CurrentRecord DEF EngineTypes, WalkInv, WellLaid
    <3>2. PICK A \in Nat, z \in Nat, s \in Nat :
            /\ A = Align(h.out_oft + Size(h.out)) /\ z = Size(h.out) /\ s = step
            /\ A + 4 * z <= MainBufLen /\ s < z
      <4>1. Size(Current.out) \in Nat
        BY <3>1, RecordTypes
      <4> QED BY <2>1, <2>3, <3>1, <4>1, OutputPlace DEF Addresses, TypesInv
    <3>3. v[1] \in Float(A, s)
      BY <2>3, <3>2 DEF Dequantised, Floats
    <3>4. Float(A, s) \subseteq Addresses
      BY <3>2, EngineConstants DEF Float, Region, Addresses
    <3> QED BY <3>3, <3>4
  <2> QED BY <2>2, <2>3 DEF AccessesInside
<1> QED BY <1>1, EngineInvariant, PTL
=============================================================================
