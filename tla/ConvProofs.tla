----------------------------- MODULE ConvProofs -----------------------------
(***************************************************************************)
(* tml_conv2d_dwconv2d computes the text-book convolution, for every layer *)
(* ConvConstants allows: the window buffer, gathered whole or into         *)
(* padding, holds the window of the present pixel, and the output cursor   *)
(* is where that pixel's elements belong.                                  *)
(***************************************************************************)
EXTENDS TmConv, TLAPS

\* The index in the input of channel ci of the cell <<ky, kx>> of the window
\* whose output pixel is <<oy, ox>>; Pad outside the input.
In(oy, ox, ky, kx, ci) ==
    LET row == oy * l.sy - l.top + ky
        col == ox * l.sx - l.left + kx
    IN  IF row \in 0..(l.h - 1) /\ col \in 0..(l.w - 1)
        THEN (row * l.w + col) * l.c + ci ELSE Pad

\* What output channel ch of the pixel <<oy, ox>> is computed from.
ElementAt(oy, ox, ch) ==
    LET cells == (0..(l.kh - 1)) \X (0..(l.kw - 1))
    IN  Element(
          IF Depthwise
          THEN {<<In(oy, ox, k[1], k[2], ch \div l.dmul), ch * MaxK + k[1] * l.kw + k[2]>> :
                   k \in cells}
          ELSE {<<In(oy, ox, k[1], k[2], ci), (ch * l.c + ci) * MaxK + k[1] * l.kw + k[2]>> :
                   k \in cells, ci \in 0..(l.c - 1)},
          ch)

\* Where the loops are.
CursorInv ==
    /\ l \in Layers
    /\ pc \in {"start", "pointwise", "gather", "multiply", "done"}
    /\ status = (IF pc = "start" THEN "TM_OK" ELSE ConvStatus(l))
    /\ pc \in {"pointwise", "gather", "multiply"} => ConvStatus(l) = "TM_OK"
    /\ pc = "pointwise" => MaxK = 1
    /\ pc \in {"gather", "multiply"} => MaxK # 1
    /\ y \in 0..l.oh /\ x \in 0..(l.ow - 1) /\ c \in 0..l.oc /\ kptr = c * l.c
    /\ pc = "start" => y = 0
    /\ pc = "multiply" => y < l.oh
    /\ pc = "done" /\ status = "TM_OK" => y = l.oh
    /\ y = l.oh => x = 0 /\ c = 0
    /\ pc # "pointwise" => c = 0

\* The elements before the output cursor are written, each as it should be.
WrittenInv ==
    /\ outp = (y * l.ow + x) * l.oc + c
    /\ out = [i \in 0..(outp - 1) |-> out[i]]
    /\ \A i \in 0..(outp - 1) : out[i] = Reference(i)

\* Between the gathering and the products, sbuf holds the window.
WindowInv ==
    /\ sbuf = [i \in 0..(MaxKcSize - 1) |-> sbuf[i]]
    /\ pc = "multiply" =>
          \A cc \in 0..(WindowChannels - 1), ky \in 0..(l.kh - 1), kx \in 0..(l.kw - 1) :
             sbuf[cc * MaxK + (ky * l.kw + kx)] = In(y, x, ky, kx, SrcChannel(cc))

ConvInv == CursorInv /\ WrittenInv /\ WindowInv

-----------------------------------------------------------------------------
(* Arithmetic: an element of a row, of a matrix, of a window.              *)

LEMMA DivisionUnique ==
    ASSUME NEW b \in Nat \ {0}, NEW q \in Nat, NEW r \in 0..(b - 1), NEW a \in Nat, a = q * b + r
    PROVE  a \div b = q /\ a % b = r
  OBVIOUS

LEMMA Division ==
    ASSUME NEW b \in Nat \ {0}, NEW a \in Nat
    PROVE  a = (a \div b) * b + (a % b) /\ a % b \in 0..(b - 1) /\ a \div b \in Nat
  OBVIOUS

LEMMA Below ==
    ASSUME NEW A \in Nat, NEW B \in Nat, NEW a \in 0..(A - 1), NEW b \in 0..(B - 1)
    PROVE  a * B + b \in 0..(A * B - 1) /\ a * B \in Nat /\ A * B \in Nat
<1>1. PICK d \in Nat : A = a + 1 + d
  <2>1. A - a - 1 \in Nat /\ A = a + 1 + (A - a - 1)
    OBVIOUS
  <2> QED BY <2>1
<1>2. a \in Nat /\ a * B \in Nat /\ d * B \in Nat
  OBVIOUS
<1>3. A * B = a * B + B + d * B
  BY <1>1, <1>2
<1> QED BY <1>2, <1>3

\* Two elements of a matrix at one place are one.
LEMMA PlaceUnique ==
    ASSUME NEW B \in Nat \ {0}, NEW a \in Nat, NEW p \in Nat,
           NEW b \in 0..(B - 1), NEW q \in 0..(B - 1), a * B + b = p * B + q
    PROVE  a = p /\ b = q
<1>1. PICK i \in Nat : i = a * B + b
  OBVIOUS
<1>2. i \div B = a /\ i % B = b
  BY <1>1, DivisionUnique
<1>3. i \div B = p /\ i % B = q
  BY <1>1, DivisionUnique
<1> QED BY <1>2, <1>3

\* Every number below a product is an element of a row.
LEMMA BelowProduct ==
    ASSUME NEW A \in Nat, NEW B \in Nat \ {0}, NEW i \in 0..(A * B - 1)
    PROVE  \E a \in 0..(A - 1), b \in 0..(B - 1) : i = a * B + b
<1>1. i \in Nat /\ A * B \in Nat /\ i < A * B
  OBVIOUS
<1>2. PICK q \in Nat, r \in 0..(B - 1) : i = q * B + r
  BY <1>1, Division
<1>3. q < A
  <2> SUFFICES ASSUME q >= A PROVE FALSE
    OBVIOUS
  <2>1. PICK d \in Nat : q = A + d
    BY q - A \in Nat
  <2>2. q * B = A * B + d * B /\ d * B \in Nat
    BY <2>1
  <2> QED BY <1>1, <1>2, <2>2
<1> QED BY <1>2, <1>3

LEMMA LayerFields ==
    ASSUME NEW cv \in Layers
    PROVE  /\ cv.h \in Nat /\ cv.w \in Nat /\ cv.c \in Nat
           /\ cv.oh \in Nat /\ cv.ow \in Nat \ {0} /\ cv.oc \in Nat
           /\ cv.kw \in Nat \ {0} /\ cv.kh \in Nat \ {0} /\ cv.kw * cv.kh \in Nat \ {0}
           /\ cv.sx \in Nat /\ cv.sy \in Nat
           /\ cv.top \in Nat /\ cv.bottom \in Nat /\ cv.left \in Nat /\ cv.right \in Nat
           /\ cv.dmul \in Nat
<1>1. cv \in Convolutions
  BY ConvConstants
<1>2. cv.kw \in Nat \ {0} /\ cv.kh \in Nat \ {0}
  BY <1>1 DEF Convolutions
<1>3. cv.kw * cv.kh \in Nat \ {0}
  BY <1>2
<1> QED BY <1>1, <1>3 DEF Convolutions

\* The groups of eight and the rest are all indices.
LEMMA DotIndicesAll ==
    ASSUME NEW size \in Nat
    PROVE  DotIndices(size) = 0..(size - 1)
<1>1. PICK g \in Nat, r \in 0..7 : size = g * 8 + r /\ size \div 8 = g
  OBVIOUS
<1>2. (size \div 8) * 8 = g * 8 /\ (g * 8) \div 8 = g
  BY <1>1
<1> DEFINE groups == {8 * k + u : k \in 0..(g - 1), u \in 0..7}
<1>3. groups = 0..(g * 8 - 1)
  <2>1. ASSUME NEW i \in groups PROVE i \in 0..(g * 8 - 1)
    OBVIOUS
  <2>2. ASSUME NEW i \in 0..(g * 8 - 1) PROVE i \in groups
    <3>1. i = 8 * (i \div 8) + (i % 8) /\ i \div 8 \in 0..(g - 1) /\ i % 8 \in 0..7
      OBVIOUS
    <3>2. PICK k \in 0..(g - 1), u \in 0..7 : i = 8 * k + u
      BY <3>1, Zenon
    <3> QED BY <3>2
  <2> HIDE DEF groups
  <2> QED BY <2>1, <2>2
<1>4. 0..(g * 8 - 1) \cup (g * 8)..(size - 1) = 0..(size - 1)
  BY <1>1
<1> QED BY <1>2, <1>3, <1>4, <1>1 DEF DotIndices

\* The element a pixel and a channel make is at their place in the output.
LEMMA ElementsPlace ==
    ASSUME CursorInv, NEW oy \in Nat, NEW ox \in 0..(l.ow - 1), NEW ch \in 0..(l.oc - 1)
    PROVE  /\ (oy * l.ow + ox) * l.oc + ch \in Nat
           /\ Reference((oy * l.ow + ox) * l.oc + ch) = ElementAt(oy, ox, ch)
<1>1. l.ow \in Nat \ {0} /\ l.oc \in Nat
  BY LayerFields DEF CursorInv
<1>2. PICK p \in Nat : p = oy * l.ow + ox
  BY <1>1
<1>3. p \div l.ow = oy /\ p % l.ow = ox
  BY <1>1, <1>2, DivisionUnique
<1>4. PICK i \in Nat : i = p * l.oc + ch
  BY <1>1
<1>5. i \div l.oc = p /\ i % l.oc = ch
  <2>1. l.oc \in Nat \ {0}
    BY <1>1
  <2> QED BY <2>1, <1>4, DivisionUnique
<1>6. i % l.oc = ch /\ (i \div l.oc) % l.ow = ox /\ (i \div l.oc) \div l.ow = oy
  BY <1>3, <1>5
<1>7. Reference(i) = ElementAt((i \div l.oc) \div l.ow, (i \div l.oc) % l.ow, i % l.oc)
  BY DEF Reference, ElementAt, In
<1>8. Reference(i) = ElementAt(oy, ox, ch)
  BY <1>6, <1>7
<1> QED BY <1>2, <1>4, <1>8

\* The position in the output after n more elements.
LEMMA EmitKeeps ==
    ASSUME CursorInv, WrittenInv, y < l.oh, l' = l,
           NEW n \in Nat, c + n <= l.oc, NEW elems, Emit(n, elems),
           \A i \in 0..(n - 1) : elems[i] = ElementAt(y, x, c + i)
    PROVE  /\ outp' = outp + n
           /\ out' = [i \in 0..(outp' - 1) |-> out'[i]]
           /\ \A i \in 0..(outp' - 1) : out'[i] = Reference(i)'
<1>1. l.ow \in Nat /\ l.oc \in Nat /\ y \in Nat /\ x \in 0..(l.ow - 1) /\ c \in Nat
  BY LayerFields DEF CursorInv
<1>2. PICK b \in Nat : b = (y * l.ow + x) * l.oc
  BY <1>1
<1>3. outp = b + c /\ outp \in Nat /\ outp' = outp + n
  BY <1>1, <1>2 DEF WrittenInv, Emit
<1>4. DOMAIN out = 0..(outp - 1)
  BY DEF WrittenInv
<1>5. DOMAIN out \cup outp..(outp + n - 1) = 0..(outp' - 1)
  BY <1>3, <1>4
<1>6. out' = [i \in 0..(outp' - 1) |-> IF i < outp THEN out[i] ELSE elems[i - outp]]
  BY <1>5 DEF Emit
<1>7. ASSUME NEW i \in 0..(outp' - 1) PROVE out'[i] = Reference(i)'
  <2>1. Reference(i)' = Reference(i)
    BY DEF Reference, Element, Depthwise, MaxK
  <2>2. CASE i < outp
    BY <1>3, <1>6, <2>1, <2>2 DEF WrittenInv
  <2>3. CASE ~(i < outp)
    <3>1. i - outp \in 0..(n - 1) /\ i = b + (c + (i - outp)) /\ c + (i - outp) \in 0..(l.oc - 1)
      BY <1>1, <1>3, <2>3
    <3>2. out'[i] = ElementAt(y, x, c + (i - outp))
      BY <1>6, <2>3, <3>1
    <3> QED BY <1>1, <1>2, <2>1, <3>1, <3>2, ElementsPlace
  <2> QED BY <2>2, <2>3
<1> QED BY <1>3, <1>6, <1>7

\* A pixel is done: the cursor of the output is at the next one.
LEMMA PixelDone ==
    ASSUME CursorInv, y < l.oh, NextPixel
    PROVE  /\ y' \in 0..l.oh /\ x' \in 0..(l.ow - 1) /\ (y' = l.oh => x' = 0)
           /\ (y * l.ow + x) * l.oc + l.oc = (y' * l.ow + x') * l.oc + 0
<1>1. /\ l.ow \in Nat \ {0} /\ l.oc \in Nat /\ y \in Nat /\ x \in 0..(l.ow - 1)
      /\ l.oh \in Nat
  BY LayerFields DEF CursorInv
<1>2. y' * l.ow + x' = (y * l.ow + x) + 1
  BY <1>1 DEF NextPixel
<1>3. PICK p \in Nat : p = y * l.ow + x
  BY <1>1
<1>4. (p + 1) * l.oc + 0 = p * l.oc + l.oc
  BY <1>1
<1>5. y' \in 0..l.oh /\ x' \in 0..(l.ow - 1) /\ (y' = l.oh => x' = 0)
  BY <1>1 DEF NextPixel
<1> QED BY <1>2, <1>3, <1>4, <1>5

-----------------------------------------------------------------------------
(* What one pixel computes.                                                *)

\* Without a window, a dot product over the channels of one input pixel.
LEMMA PointwiseElement ==
    ASSUME CursorInv, pc = "pointwise", y < l.oh, NEW ch \in 0..(l.oc - 1)
    PROVE  Element(PointwiseDot(ch * l.c), ch) = ElementAt(y, x, ch)
<1>1. /\ l.kw * l.kh = 1 /\ l.dmul = 0 /\ l.top = 0 /\ l.left = 0
      /\ y \in 0..(l.oh - 1) /\ x \in 0..(l.ow - 1)
  BY LayerFields DEF CursorInv, ConvStatus, PadFlag, MaxK
<1>2. /\ l.c \in Nat /\ l.w \in Nat /\ l.h \in Nat /\ l.sy * y \in Nat /\ l.sx * x \in Nat
      /\ l.sx \in Nat /\ l.sy \in Nat
  BY <1>1, LayerFields DEF CursorInv
<1>3. l.kw = 1 /\ l.kh = 1
  <2>1. PICK a \in Nat, b \in Nat : l.kw = a + 1 /\ l.kh = b + 1
    <3>1. l.kw - 1 \in Nat /\ l.kh - 1 \in Nat /\ l.kw = (l.kw - 1) + 1 /\ l.kh = (l.kh - 1) + 1
      BY LayerFields DEF CursorInv
    <3> QED BY <3>1
  <2>2. (a + 1) * (b + 1) = a * b + a + b + 1 /\ a * b \in Nat
    BY <2>1
  <2> QED BY <1>1, <2>1, <2>2
<1>4. l.sy * y < l.h /\ l.sx * x < l.w
  BY <1>1, ConvConstants DEF CursorInv
<1>5. ASSUME NEW ci \in 0..(l.c - 1)
      PROVE  In(y, x, 0, 0, ci) = MatP(l.sy * y, l.sx * x) + ci
  <2>1. y * l.sy - l.top + 0 = l.sy * y /\ x * l.sx - l.left + 0 = l.sx * x
    BY <1>1, <1>2
  <2> QED BY <1>2, <1>4, <2>1 DEF In, MatP
<1>6. ASSUME NEW ci \in 0..(l.c - 1) PROVE (ch * l.c + ci) * MaxK + 0 * l.kw + 0 = ch * l.c + ci
  BY <1>1, <1>2, <1>3 DEF MaxK
<1>7. (0..(l.kh - 1)) \X (0..(l.kw - 1)) = {<<0, 0>>}
  BY <1>3
<1> DEFINE term(k, ci) == <<In(y, x, k[1], k[2], ci), (ch * l.c + ci) * MaxK + k[1] * l.kw + k[2]>>
<1>8. ASSUME NEW ci \in 0..(l.c - 1)
      PROVE  term(<<0, 0>>, ci) = <<MatP(l.sy * y, l.sx * x) + ci, ch * l.c + ci>>
  BY <1>5, <1>6
<1>9. PointwiseDot(ch * l.c) = {<<MatP(l.sy * y, l.sx * x) + ci, ch * l.c + ci>> : ci \in 0..(l.c - 1)}
  BY <1>2, DotIndicesAll DEF PointwiseDot
<1>10. {term(k, ci) : k \in {<<0, 0>>}, ci \in 0..(l.c - 1)} = PointwiseDot(ch * l.c)
  <2> HIDE DEF term
  <2> QED BY <1>8, <1>9
<1>11. ~Depthwise
  BY <1>1 DEF Depthwise
<1> QED BY <1>7, <1>10, <1>11 DEF ElementAt

\* A window of an accepted layer fits k_oft and sbuf.
LEMMA WindowTypes ==
    ASSUME CursorInv, ConvStatus(l) = "TM_OK", MaxK # 1
    PROVE  /\ MaxK \in Nat \ {0} /\ WindowChannels \in Nat /\ MaxKcSize \in Nat
           /\ WindowChannels * MaxK \in Nat /\ WindowChannels * MaxK <= MaxKcSize
<1>1. MaxK \in Nat \ {0} /\ MaxK <= MaxKSize /\ WindowChannels \in Nat /\ MaxKSize \in Nat
  BY LayerFields, ConvConstants DEF CursorInv, ConvStatus, MaxK, WindowChannels
<1>2. WindowChannels * MaxK <= MaxKcSize
  <2>1. l.kw * l.kh \in 2..MaxKSize
    BY <1>1 DEF MaxK
  <2> QED BY <2>1, ConvConstants DEF CursorInv, MaxK, WindowChannels, Depthwise
<1> QED BY <1>1, <1>2, ConvConstants

\* The cell of the window that an entry of sbuf is for.
LEMMA CellPlace ==
    ASSUME CursorInv, ConvStatus(l) = "TM_OK", MaxK # 1,
           NEW cc \in 0..(WindowChannels - 1), NEW ky \in 0..(l.kh - 1), NEW kx \in 0..(l.kw - 1)
    PROVE  LET k == ky * l.kw + kx
               i == cc * MaxK + k
           IN  /\ k \in 0..(MaxK - 1) /\ k \div l.kw = ky /\ k % l.kw = kx
               /\ i \in 0..(WindowChannels * MaxK - 1) /\ i \in 0..(MaxKcSize - 1)
               /\ i \div MaxK = cc /\ i % MaxK = k
<1>1. /\ l.kw \in Nat \ {0} /\ l.kh \in Nat /\ MaxK = l.kw * l.kh /\ MaxK \in Nat \ {0}
      /\ WindowChannels \in Nat /\ MaxKcSize \in Nat /\ WindowChannels * MaxK <= MaxKcSize
      /\ WindowChannels * MaxK \in Nat
  BY LayerFields, WindowTypes DEF CursorInv, MaxK
<1>2. l.kh * l.kw = MaxK
  BY <1>1
<1>3. PICK k \in 0..(MaxK - 1) : k = ky * l.kw + kx
  BY <1>1, <1>2, Below
<1>4. k \div l.kw = ky /\ k % l.kw = kx
  <2>1. l.kw \in Nat \ {0} /\ ky \in Nat /\ k \in Nat
    BY <1>1
  <2> QED BY <2>1, <1>3, DivisionUnique
<1>5. PICK i \in 0..(WindowChannels * MaxK - 1) : i = cc * MaxK + k
  BY <1>1, Below
<1>6. i \div MaxK = cc /\ i % MaxK = k
  <2>1. MaxK \in Nat \ {0} /\ cc \in Nat /\ i \in Nat
    BY <1>1
  <2> QED BY <2>1, <1>5, DivisionUnique, Zenon
<1> QED BY <1>1, <1>3, <1>4, <1>5, <1>6

\* k_oft leads from the corner of the window to each of its cells.
LEMMA CellAddress ==
    ASSUME CursorInv, ConvStatus(l) = "TM_OK", MaxK # 1, 0 < WindowChannels,
           NEW ky \in 0..(l.kh - 1), NEW kx \in 0..(l.kw - 1), NEW s \in Nat
    PROVE  MatP(SrcY0, SrcX0) + s + KOft[ky * l.kw + kx]
              = ((SrcY0 + ky) * l.w + (SrcX0 + kx)) * l.c + s
<1>1. PICK k \in 0..(MaxK - 1) : k = ky * l.kw + kx /\ k \div l.kw = ky /\ k % l.kw = kx
  <2>1. 0 \in 0..(WindowChannels - 1)
    BY WindowTypes
  <2> QED BY <2>1, CellPlace
<1>2. KOft[k] = ky * (l.kw * l.c + (l.w - l.kw) * l.c) + kx * l.c
  BY <1>1 DEF KOft
<1>3. PICK Y \in Int, X \in Int, w \in Nat, ch \in Nat, kw \in Nat :
         Y = SrcY0 /\ X = SrcX0 /\ w = l.w /\ ch = l.c /\ kw = l.kw
  <2>1. SrcY0 \in Int /\ SrcX0 \in Int
    BY LayerFields DEF CursorInv, SrcY0, SrcX0
  <2> QED BY <2>1, LayerFields DEF CursorInv
<1>4. kw * ch + (w - kw) * ch = w * ch
  BY <1>3
<1>5. KOft[k] = ky * (w * ch) + kx * ch
  BY <1>2, <1>3, <1>4
<1>6. ((Y + ky) * w + (X + kx)) * ch = (Y * w + X) * ch + ky * (w * ch) + kx * ch
  BY <1>3
<1>7. (Y * w + X) * ch \in Int /\ ky * (w * ch) \in Int /\ kx * ch \in Int
  BY <1>3
<1> QED BY <1>1, <1>3, <1>5, <1>6, <1>7 DEF MatP

\* A cell of the window, in and out of the input.
LEMMA InCell ==
    ASSUME CursorInv, NEW ky \in Nat, NEW kx \in Nat, NEW ci
    PROVE  In(y, x, ky, kx, ci)
              = IF SrcY0 + ky \in 0..(l.h - 1) /\ SrcX0 + kx \in 0..(l.w - 1)
                THEN ((SrcY0 + ky) * l.w + (SrcX0 + kx)) * l.c + ci ELSE Pad
<1>1. y * l.sy - l.top + ky = SrcY0 + ky /\ x * l.sx - l.left + kx = SrcX0 + kx
  BY LayerFields DEF CursorInv, SrcY0, SrcX0
<1> QED BY <1>1 DEF In

\* The cells of _ky0.._ky1 and _kx0.._kx1 are those inside the input.
LEMMA CellsInsideRight ==
    ASSUME CursorInv, ConvStatus(l) = "TM_OK", MaxK # 1,
           NEW ky \in 0..(l.kh - 1), NEW kx \in 0..(l.kw - 1)
    PROVE  ky * l.kw + kx \in CellsInside
              <=> SrcY0 + ky \in 0..(l.h - 1) /\ SrcX0 + kx \in 0..(l.w - 1)
<1> DEFINE ky0 == IF SrcY0 < 0 THEN -SrcY0 ELSE 0
           kx0 == IF SrcX0 < 0 THEN -SrcX0 ELSE 0
           ky1 == IF l.h - SrcY0 > l.kh THEN l.kh ELSE l.h - SrcY0
           kx1 == IF l.w - SrcX0 > l.kw THEN l.kw ELSE l.w - SrcX0
<1>1. /\ SrcY0 \in Int /\ SrcX0 \in Int /\ l.h \in Nat /\ l.w \in Nat
      /\ l.kh \in Nat /\ l.kw \in Nat \ {0}
  BY LayerFields DEF CursorInv, SrcY0, SrcX0
<1>2. /\ ky \in ky0..(ky1 - 1) <=> SrcY0 + ky \in 0..(l.h - 1)
      /\ kx \in kx0..(kx1 - 1) <=> SrcX0 + kx \in 0..(l.w - 1)
  BY <1>1
<1>3. CellsInside = {a * l.kw + b : a \in ky0..(ky1 - 1), b \in kx0..(kx1 - 1)}
  BY DEF CellsInside
<1>4. ASSUME NEW a \in ky0..(ky1 - 1), NEW b \in kx0..(kx1 - 1), ky * l.kw + kx = a * l.kw + b
      PROVE  a = ky /\ b = kx
  <2>1. a \in Nat /\ b \in 0..(l.kw - 1) /\ ky \in Nat
    BY <1>1
  <2>2. l.kw \in Nat \ {0}
    BY <1>1
  <2> HIDE DEF ky0, kx0, ky1, kx1
  <2> QED BY <2>1, <2>2, <1>4, PlaceUnique
<1> HIDE DEF ky0, kx0, ky1, kx1
<1>5. ky * l.kw + kx \in CellsInside <=> ky \in ky0..(ky1 - 1) /\ kx \in kx0..(kx1 - 1)
  BY <1>3, <1>4
<1> QED BY <1>2, <1>5

\* After either way of gathering, sbuf holds the window, whatever it held.
LEMMA WindowGathered ==
    ASSUME CursorInv, WindowInv, GatherValid \/ GatherPadded,
           NEW cc \in 0..(WindowChannels - 1), NEW ky \in 0..(l.kh - 1), NEW kx \in 0..(l.kw - 1)
    PROVE  sbuf'[cc * MaxK + (ky * l.kw + kx)] = In(y, x, ky, kx, SrcChannel(cc))
<1>1. ConvStatus(l) = "TM_OK" /\ MaxK # 1 /\ DOMAIN sbuf = 0..(MaxKcSize - 1)
  BY DEF GatherValid, GatherPadded, CursorInv, WindowInv
<1>2. /\ ky \in Nat /\ kx \in Nat /\ SrcY0 \in Int /\ SrcX0 \in Int
      /\ l.h \in Nat /\ l.w \in Nat /\ l.kh \in Nat /\ l.kw \in Nat
  BY LayerFields DEF CursorInv, SrcY0, SrcX0
<1>3. cc \in Nat /\ cc < WindowChannels /\ 0 < WindowChannels
  BY <1>1, WindowTypes
<1> DEFINE inside == SrcY0 + ky \in 0..(l.h - 1) /\ SrcX0 + kx \in 0..(l.w - 1)
           address == ((SrcY0 + ky) * l.w + (SrcX0 + kx)) * l.c + SrcChannel(cc)
<1>4. PICK k, i : /\ k = ky * l.kw + kx /\ k \in 0..(MaxK - 1)
                  /\ i = cc * MaxK + k /\ i \in DOMAIN sbuf /\ i \in 0..(WindowChannels * MaxK - 1)
                  /\ i \div MaxK = cc /\ i % MaxK = k
  BY <1>1, CellPlace
<1>5. In(y, x, ky, kx, SrcChannel(cc)) = IF inside THEN address ELSE Pad
  BY <1>2, InCell
<1>6. MatP(SrcY0, SrcX0) + SrcChannel(cc) + KOft[k] = address
  <2>1. SrcChannel(cc) \in Nat
    <3>1. CASE Depthwise
      <4>1. l.dmul \in Nat \ {0}
        BY <3>1, LayerFields DEF CursorInv, Depthwise
      <4> QED BY <1>3, <3>1, <4>1, Division DEF SrcChannel
    <3> QED BY <1>3, <3>1 DEF SrcChannel
  <2> QED BY <1>1, <1>3, <1>4, <2>1, CellAddress
<1>7. k \in CellsInside <=> inside
  BY <1>1, <1>4, CellsInsideRight
<1> HIDE DEF inside, address
<1>8. CASE GatherValid
  <2>1. inside
    <3>1. SrcY0 >= 0 /\ SrcX0 >= 0 /\ SrcY0 + l.kh <= l.h /\ SrcX0 + l.kw <= l.w
      BY <1>2, <1>8 DEF GatherValid, Slow
    <3> QED BY <1>2, <3>1 DEF inside
  <2>2. sbuf' = Gathered(sbuf, 0..(MaxK - 1))
    BY <1>8 DEF GatherValid
  <2>3. sbuf'[i] = MatP(SrcY0, SrcX0) + SrcChannel(cc) + KOft[k]
    BY <1>3, <1>4, <2>2 DEF Gathered
  <2> QED BY <1>4, <1>5, <1>6, <2>1, <2>3
<1>9. CASE GatherPadded
  <2>1. DOMAIN Padded(sbuf) = DOMAIN sbuf /\ Padded(sbuf)[i] = Pad
    <3>1. i < WindowChannels * MaxK
      BY <1>1, <1>4, WindowTypes
    <3> QED BY <1>4, <3>1 DEF Padded
  <2>2. sbuf' = Gathered(Padded(sbuf), CellsInside)
    BY <1>9 DEF GatherPadded
  <2>3. sbuf'[i] = IF k \in CellsInside THEN MatP(SrcY0, SrcX0) + SrcChannel(cc) + KOft[k] ELSE Pad
    BY <1>3, <1>4, <2>1, <2>2 DEF Gathered
  <2> QED BY <1>4, <1>5, <1>6, <1>7, <2>3
<1> QED BY <1>8, <1>9

\* The entries of one channel of the window, cell by cell.
LEMMA CellsOfChannel ==
    ASSUME CursorInv, NEW k \in 0..(MaxK - 1)
    PROVE  \E ky \in 0..(l.kh - 1), kx \in 0..(l.kw - 1) : k = ky * l.kw + kx
<1>1. l.kh \in Nat /\ l.kw \in Nat \ {0} /\ l.kh * l.kw = MaxK
  BY LayerFields DEF CursorInv, MaxK
<1> QED BY <1>1, BelowProduct

\* The products of one output channel with the window in sbuf.
LEMMA WindowElement ==
    ASSUME CursorInv, WindowInv, pc = "multiply", NEW ch \in 0..(l.oc - 1)
    PROVE  Element(WindowDot(ch), ch) = ElementAt(y, x, ch)
<1> DEFINE cells == (0..(l.kh - 1)) \X (0..(l.kw - 1))
           deep == {<<In(y, x, k[1], k[2], ch \div l.dmul), ch * MaxK + k[1] * l.kw + k[2]>> :
                       k \in cells}
           full == {<<In(y, x, k[1], k[2], ci), (ch * l.c + ci) * MaxK + k[1] * l.kw + k[2]>> :
                       k \in cells, ci \in 0..(l.c - 1)}
<1>0. ElementAt(y, x, ch) = Element(IF Depthwise THEN deep ELSE full, ch)
  BY DEF ElementAt
<1>1. /\ ConvStatus(l) = "TM_OK" /\ MaxK # 1 /\ MaxK \in Nat \ {0} /\ l.c \in Nat /\ l.oc \in Nat
      /\ ch \in Nat /\ l.kw \in Nat
  BY LayerFields, WindowTypes DEF CursorInv
<1>2. \A cc \in 0..(WindowChannels - 1), ky \in 0..(l.kh - 1), kx \in 0..(l.kw - 1) :
         sbuf[cc * MaxK + (ky * l.kw + kx)] = In(y, x, ky, kx, SrcChannel(cc))
  BY DEF WindowInv
<1>3. ASSUME NEW ky \in 0..(l.kh - 1), NEW kx \in 0..(l.kw - 1)
      PROVE  ky * l.kw \in Nat /\ ky * l.kw + kx \in Nat
  BY <1>1, LayerFields DEF CursorInv
<1>4. CASE Depthwise
  <2> DEFINE F(i) == <<sbuf[ch * MaxK + i], ch * 1 * MaxK + i>>
             G(q) == <<In(y, x, q[1], q[2], ch \div l.dmul), ch * MaxK + q[1] * l.kw + q[2]>>
  <2>1. WindowDot(ch) = {F(i) : i \in 0..(MaxK - 1)}
    <3>1. MaxK * 1 = MaxK /\ DotIndices(MaxK) = 0..(MaxK - 1)
      BY <1>1, DotIndicesAll
    <3>2. MaxK = 9 => 0..8 = 0..(MaxK - 1)
      OBVIOUS
    <3>3. (IF MaxK * 1 = 9 /\ Depthwise THEN 0..8 ELSE DotIndices(MaxK * 1)) = 0..(MaxK - 1)
      BY <3>1, <3>2
    <3> QED BY <1>4, <3>3 DEF WindowDot
  <2>2. ASSUME NEW ky \in 0..(l.kh - 1), NEW kx \in 0..(l.kw - 1)
        PROVE  ky * l.kw + kx \in 0..(MaxK - 1) /\ F(ky * l.kw + kx) = G(<<ky, kx>>)
    <3>1. ch \in 0..(WindowChannels - 1) /\ SrcChannel(ch) = ch \div l.dmul
      BY <1>4 DEF WindowChannels, SrcChannel
    <3>2. sbuf[ch * MaxK + (ky * l.kw + kx)] = In(y, x, ky, kx, ch \div l.dmul)
      BY <1>2, <3>1
    <3>3. ch * 1 * MaxK + (ky * l.kw + kx) = ch * MaxK + ky * l.kw + kx
      BY <1>1, <1>3
    <3> QED BY <1>1, <3>1, <3>2, <3>3, CellPlace
  <2> HIDE DEF F, G
  <2>3. ASSUME NEW i \in 0..(MaxK - 1) PROVE \E q \in cells : F(i) = G(q)
    <3>1. PICK ky \in 0..(l.kh - 1), kx \in 0..(l.kw - 1) : i = ky * l.kw + kx
      BY CellsOfChannel
    <3> QED BY <2>2, <3>1
  <2>4. ASSUME NEW q \in cells PROVE \E i \in 0..(MaxK - 1) : G(q) = F(i)
    BY <2>2
  <2>5. {F(i) : i \in 0..(MaxK - 1)} = {G(q) : q \in cells}
    BY <2>3, <2>4
  <2>6. {G(q) : q \in cells} = deep
    BY DEF G
  <2> HIDE DEF cells, deep, full
  <2> QED BY <1>0, <1>4, <2>1, <2>5, <2>6, Zenon
<1>5. CASE ~Depthwise
  <2> DEFINE F(i) == <<sbuf[0 + i], ch * l.c * MaxK + i>>
             G(q, ci) == <<In(y, x, q[1], q[2], ci), (ch * l.c + ci) * MaxK + q[1] * l.kw + q[2]>>
             FS == {F(i) : i \in 0..(MaxK * l.c - 1)}
             GS == {G(q, ci) : q \in cells, ci \in 0..(l.c - 1)}
  <2>1. WindowDot(ch) = FS
    <3>1. DotIndices(MaxK * l.c) = 0..(MaxK * l.c - 1)
      <4>1. MaxK \in Nat /\ l.c \in Nat
        BY <1>1
      <4>2. PICK size \in Nat : size = MaxK * l.c
        BY <4>1
      <4>3. DotIndices(size) = 0..(size - 1)
        BY DotIndicesAll
      <4> QED BY <4>2, <4>3
    <3>2. WindowDot(ch) = {F(i) : i \in IF MaxK * l.c = 9 /\ Depthwise THEN 0..8 ELSE DotIndices(MaxK * l.c)}
      BY <1>5, Zenon DEF WindowDot
    <3>3. (IF MaxK * l.c = 9 /\ Depthwise THEN 0..8 ELSE DotIndices(MaxK * l.c)) = 0..(MaxK * l.c - 1)
      BY <1>5, <3>1
    <3> QED BY <3>2, <3>3
  <2>2. ASSUME NEW ky \in 0..(l.kh - 1), NEW kx \in 0..(l.kw - 1), NEW ci \in 0..(l.c - 1)
        PROVE  /\ ci * MaxK + (ky * l.kw + kx) \in 0..(MaxK * l.c - 1)
               /\ F(ci * MaxK + (ky * l.kw + kx)) = G(<<ky, kx>>, ci)
    <3>1. ci \in 0..(WindowChannels - 1) /\ SrcChannel(ci) = ci /\ WindowChannels = l.c
      BY <1>5 DEF WindowChannels, SrcChannel
    <3>2. sbuf[ci * MaxK + (ky * l.kw + kx)] = In(y, x, ky, kx, ci)
      BY <1>2, <3>1
    <3>3. ci * MaxK + (ky * l.kw + kx) \in 0..(l.c * MaxK - 1)
      BY <1>1, <3>1, CellPlace
    <3>4. l.c * MaxK = MaxK * l.c
      BY <1>1
    <3>5. PICK a \in Nat, m \in Nat, p \in Nat, q \in Nat :
             a = ch * l.c /\ m = MaxK /\ p = ky * l.kw /\ q = ci
      <4>1. ch * l.c \in Nat /\ ky * l.kw \in Nat /\ ci \in Nat
        BY <1>1, <1>3
      <4> QED BY <1>1, <4>1
    <3>6. a * m + (q * m + (p + kx)) = (a + q) * m + p + kx
      BY <3>5
    <3> QED BY <3>2, <3>3, <3>4, <3>5, <3>6, 0 + (ci * MaxK + (ky * l.kw + kx)) = ci * MaxK + (ky * l.kw + kx)
  <2> HIDE DEF F, G
  <2>3. ASSUME NEW i \in 0..(MaxK * l.c - 1) PROVE \E q \in cells, ci \in 0..(l.c - 1) : F(i) = G(q, ci)
    <3>1. i \in 0..(l.c * MaxK - 1)
      BY <1>1
    <3>2. PICK ci \in 0..(l.c - 1), k \in 0..(MaxK - 1) : i = ci * MaxK + k
      BY <1>1, <3>1, BelowProduct
    <3>3. PICK ky \in 0..(l.kh - 1), kx \in 0..(l.kw - 1) : k = ky * l.kw + kx
      BY CellsOfChannel
    <3> QED BY <2>2, <3>2, <3>3
  <2>4. ASSUME NEW q \in cells, NEW ci \in 0..(l.c - 1) PROVE \E i \in 0..(MaxK * l.c - 1) : G(q, ci) = F(i)
    BY <2>2
  <2>5. FS = GS
    BY <2>3, <2>4
  <2>6. GS = full
    BY DEF G
  <2> HIDE DEF cells, FS, GS, deep, full
  <2> QED BY <1>0, <1>5, <2>1, <2>5, <2>6, Zenon
<1> QED BY <1>4, <1>5

-----------------------------------------------------------------------------
(* The invariant.                                                          *)

\* The loops stay within the layer and agree with the checks on entry.
LEMMA CursorKept == CursorInv /\ [Next]_vars => CursorInv'
<1> SUFFICES ASSUME CursorInv, [Next]_vars PROVE CursorInv'
  OBVIOUS
<1>1. /\ l.oh \in Nat /\ l.ow \in Nat \ {0} /\ l.oc \in Nat /\ l.c \in Nat
      /\ y \in 0..l.oh /\ x \in 0..(l.ow - 1) /\ c \in 0..l.oc /\ kptr = c * l.c
  BY LayerFields DEF CursorInv
<1>2. CASE Start
  BY <1>1, <1>2 DEF Start, CursorInv, ConvStatus, MaxK
<1>3. CASE PointwisePair
  <2>1. c' \in 0..l.oc /\ kptr' = c' * l.c
    BY <1>1, <1>3 DEF PointwisePair, BatchSize
  <2> QED BY <1>3, <2>1 DEF PointwisePair, CursorInv, MaxK
<1>4. CASE PointwiseSingle
  <2>1. c' = c + 1 /\ kptr' = kptr + l.c /\ c < l.oc
    BY <1>4 DEF PointwiseSingle
  <2>2. (c + 1) * l.c = c * l.c + l.c
    <3>1. c \in Nat /\ l.c \in Nat
      BY <1>1
    <3> QED BY <3>1
  <2>3. c' \in 0..l.oc /\ kptr' = c' * l.c
    BY <1>1, <2>1, <2>2
  <2> QED BY <1>4, <2>3 DEF PointwiseSingle, CursorInv, MaxK
<1>5. CASE PointwiseNext
  <2>1. y' \in 0..l.oh /\ x' \in 0..(l.ow - 1) /\ (y' = l.oh => x' = 0)
    BY <1>5, PixelDone DEF PointwiseNext
  <2>2. c' \in 0..l.oc /\ kptr' = c' * l.c
    BY <1>1, <1>5 DEF PointwiseNext
  <2> QED BY <1>5, <2>1, <2>2 DEF PointwiseNext, CursorInv, MaxK
<1>6. CASE GatherValid \/ GatherPadded
  BY <1>1, <1>6 DEF GatherValid, GatherPadded, CursorInv, MaxK
<1>7. CASE Multiply
  <2>1. y < l.oh /\ c = 0
    BY <1>7 DEF Multiply, CursorInv
  <2>2. y' \in 0..l.oh /\ x' \in 0..(l.ow - 1) /\ (y' = l.oh => x' = 0)
    BY <1>7, <2>1, PixelDone DEF Multiply
  <2> QED BY <1>7, <2>1, <2>2 DEF Multiply, CursorInv, MaxK
<1>8. CASE Finish
  <2>1. y = l.oh /\ x = 0 /\ c = 0
    BY <1>1, <1>8 DEF Finish, CursorInv
  <2> QED BY <1>8, <2>1 DEF Finish, CursorInv, MaxK
<1>9. CASE UNCHANGED vars
  BY <1>9 DEF vars, CursorInv, MaxK
<1> QED BY <1>2, <1>3, <1>4, <1>5, <1>6, <1>7, <1>8, <1>9 DEF Next

\* Nothing that decides what an element should be changes.
LEMMA WrittenStill ==
    ASSUME WrittenInv, l' = l, outp' = outp, out' = out,
           (y' * l.ow + x') * l.oc + c' = (y * l.ow + x) * l.oc + c
    PROVE  WrittenInv'
<1>1. \A i : Reference(i)' = Reference(i)
  BY DEF Reference, Element, Depthwise, MaxK
<1> QED BY <1>1 DEF WrittenInv

\* Every element is written at its place, and is what it should be.
LEMMA WrittenKept == ConvInv /\ [Next]_vars => WrittenInv'
<1> SUFFICES ASSUME ConvInv, [Next]_vars PROVE WrittenInv'
  OBVIOUS
<1>1. CursorInv /\ WrittenInv /\ WindowInv
  BY DEF ConvInv
<1>2. /\ l.oh \in Nat /\ l.ow \in Nat \ {0} /\ l.oc \in Nat /\ l.c \in Nat
      /\ y \in 0..l.oh /\ x \in 0..(l.ow - 1) /\ c \in 0..l.oc /\ kptr = c * l.c
  BY <1>1, LayerFields DEF CursorInv
<1>3. PICK p \in Nat : p = (y * l.ow + x) * l.oc
  BY <1>2
<1>4. CASE PointwisePair
  <2>1. /\ pc = "pointwise" /\ y < l.oh /\ l' = l /\ c' = c + 2 /\ y' = y /\ x' = x /\ c + 2 <= l.oc
        /\ Emit(2, [i \in 0..(2 - 1) |-> Element(PointwiseDot(kptr + i * l.c), c + i)])
    BY <1>2, <1>4 DEF PointwisePair, BatchSize
  <2>2. ASSUME NEW i \in 0..(2 - 1)
        PROVE  [j \in 0..(2 - 1) |-> Element(PointwiseDot(kptr + j * l.c), c + j)][i] = ElementAt(y, x, c + i)
    <3>1. c + i \in 0..(l.oc - 1)
      BY <1>2, <2>1
    <3>2. kptr + i * l.c = (c + i) * l.c
      <4>1. CASE i = 0
        BY <1>2, <4>1
      <4>2. CASE i = 1
        <5>1. (c + 1) * l.c = c * l.c + l.c /\ 1 * l.c = l.c
          BY <1>2
        <5> QED BY <1>2, <4>2, <5>1
      <4> QED BY <4>1, <4>2
    <3> QED BY <1>1, <2>1, <3>1, <3>2, PointwiseElement
  <2>3. /\ outp' = outp + 2
        /\ out' = [i \in 0..(outp' - 1) |-> out'[i]]
        /\ \A i \in 0..(outp' - 1) : out'[i] = Reference(i)'
    BY <1>1, <2>1, <2>2, EmitKeeps
  <2>4. outp' = (y' * l'.ow + x') * l'.oc + c'
    BY <1>1, <1>2, <1>3, <2>1, <2>3 DEF WrittenInv
  <2> QED BY <2>3, <2>4 DEF WrittenInv
<1>5. CASE PointwiseSingle
  <2>1. /\ pc = "pointwise" /\ y < l.oh /\ l' = l /\ c' = c + 1 /\ y' = y /\ x' = x /\ c + 1 <= l.oc
        /\ Emit(1, [i \in {0} |-> Element(PointwiseDot(kptr), c)])
    BY <1>2, <1>5 DEF PointwiseSingle
  <2>2. ASSUME NEW i \in 0..(1 - 1)
        PROVE  [j \in {0} |-> Element(PointwiseDot(kptr), c)][i] = ElementAt(y, x, c + i)
    <3>1. i = 0 /\ c + i = c /\ c \in 0..(l.oc - 1) /\ kptr = c * l.c
      BY <1>2, <2>1
    <3> QED BY <1>1, <2>1, <3>1, PointwiseElement
  <2>3. /\ outp' = outp + 1
        /\ out' = [i \in 0..(outp' - 1) |-> out'[i]]
        /\ \A i \in 0..(outp' - 1) : out'[i] = Reference(i)'
    BY <1>1, <2>1, <2>2, EmitKeeps
  <2>4. outp' = (y' * l'.ow + x') * l'.oc + c'
    BY <1>1, <1>2, <1>3, <2>1, <2>3 DEF WrittenInv
  <2> QED BY <2>3, <2>4 DEF WrittenInv
<1>6. CASE PointwiseNext
  <2>1. c = l.oc /\ c' = 0 /\ y < l.oh /\ NextPixel /\ l' = l /\ outp' = outp /\ out' = out
    BY <1>2, <1>6 DEF PointwiseNext
  <2>2. (y' * l.ow + x') * l.oc + c' = (y * l.ow + x) * l.oc + c
    BY <1>1, <2>1, PixelDone
  <2> QED BY <1>1, <2>1, <2>2, WrittenStill
<1>7. CASE Multiply
  <2>1. /\ pc = "multiply" /\ y < l.oh /\ c = 0 /\ c' = 0 /\ NextPixel /\ l' = l
        /\ Emit(l.oc, [i \in 0..(l.oc - 1) |-> Element(WindowDot(i), i)])
    BY <1>1, <1>7 DEF Multiply, CursorInv
  <2>2. ASSUME NEW i \in 0..(l.oc - 1)
        PROVE  [j \in 0..(l.oc - 1) |-> Element(WindowDot(j), j)][i] = ElementAt(y, x, c + i)
    <3>1. c + i = i
      BY <1>2, <2>1
    <3> QED BY <1>1, <2>1, <3>1, WindowElement
  <2>3. c + l.oc <= l.oc
    BY <1>2, <2>1
  <2>4. /\ outp' = outp + l.oc
        /\ out' = [i \in 0..(outp' - 1) |-> out'[i]]
        /\ \A i \in 0..(outp' - 1) : out'[i] = Reference(i)'
    BY <1>1, <1>2, <2>1, <2>2, <2>3, EmitKeeps
  <2>5. (y * l.ow + x) * l.oc + l.oc = (y' * l.ow + x') * l.oc + 0
    BY <1>1, <2>1, PixelDone
  <2>6. outp' = (y' * l'.ow + x') * l'.oc + c'
    BY <1>1, <1>2, <1>3, <2>1, <2>4, <2>5 DEF WrittenInv
  <2> QED BY <2>4, <2>6 DEF WrittenInv
<1>8. CASE Start \/ GatherValid \/ GatherPadded \/ Finish \/ UNCHANGED vars
  BY <1>1, <1>8, WrittenStill DEF Start, GatherValid, GatherPadded, Finish, vars
<1> QED BY <1>4, <1>5, <1>6, <1>7, <1>8 DEF Next

\* The window is whole between the gathering and the products.
LEMMA WindowKept == ConvInv /\ [Next]_vars => WindowInv'
<1> SUFFICES ASSUME ConvInv, [Next]_vars PROVE WindowInv'
  OBVIOUS
<1>1. CursorInv /\ WindowInv
  BY DEF ConvInv
<1>2. CASE GatherValid \/ GatherPadded
  <2>1. sbuf' = [i \in 0..(MaxKcSize - 1) |-> sbuf'[i]]
    BY <1>1, <1>2 DEF GatherValid, GatherPadded, Gathered, Padded, WindowInv
  <2>2. l' = l /\ y' = y /\ x' = x
    BY <1>2 DEF GatherValid, GatherPadded
  <2>3. ASSUME NEW cc \in 0..(WindowChannels - 1), NEW ky \in 0..(l.kh - 1), NEW kx \in 0..(l.kw - 1)
        PROVE  sbuf'[cc * MaxK + (ky * l.kw + kx)] = In(y, x, ky, kx, SrcChannel(cc))
    BY <1>1, <1>2, WindowGathered
  <2>4. /\ WindowChannels' = WindowChannels /\ MaxK' = MaxK
        /\ \A ky, kx, cc : In(y, x, ky, kx, SrcChannel(cc))' = In(y, x, ky, kx, SrcChannel(cc))
    BY <2>2 DEF WindowChannels, Depthwise, MaxK, In, SrcChannel
  <2> QED BY <2>1, <2>2, <2>3, <2>4 DEF WindowInv
<1>3. CASE pc' # "multiply" /\ sbuf' = sbuf
  BY <1>1, <1>3 DEF WindowInv
<1>4. CASE UNCHANGED vars
  <2>1. UNCHANGED <<l, pc, y, x, sbuf>>
    BY <1>4 DEF vars
  <2>2. /\ WindowChannels' = WindowChannels /\ MaxK' = MaxK
        /\ \A ky, kx, cc : In(y, x, ky, kx, SrcChannel(cc))' = In(y, x, ky, kx, SrcChannel(cc))
    BY <2>1 DEF WindowChannels, Depthwise, MaxK, In, SrcChannel
  <2> QED BY <1>1, <2>1, <2>2 DEF WindowInv
<1>5. Start \/ PointwisePair \/ PointwiseSingle \/ PointwiseNext \/ Multiply \/ Finish
         => pc' # "multiply" /\ sbuf' = sbuf
  BY DEF Start, PointwisePair, PointwiseSingle, PointwiseNext, Multiply, Finish
<1> QED BY <1>2, <1>3, <1>4, <1>5 DEF Next

\* The output cursor is where the present pixel's elements belong, what is before
\* it is written right, and sbuf holds the window that is multiplied next.
THEOREM ConvInvariant == Spec => []ConvInv
<1>1. Init => ConvInv
  <2> SUFFICES ASSUME Init PROVE ConvInv
    OBVIOUS
  <2>1. l \in Layers /\ l.oh \in Nat /\ l.ow \in Nat \ {0} /\ l.oc \in Nat /\ l.c \in Nat
    BY LayerFields DEF Init
  <2>2. CursorInv
    BY <2>1 DEF Init, CursorInv
  <2>3. (0 * l.ow + 0) * l.oc + 0 = 0
    BY <2>1
  <2>4. WrittenInv
    BY <2>3 DEF Init, WrittenInv
  <2>5. WindowInv
    BY DEF Init, WindowInv
  <2> QED BY <2>2, <2>4, <2>5 DEF ConvInv
<1>2. ConvInv /\ [Next]_vars => ConvInv'
  BY CursorKept, WrittenKept, WindowKept DEF ConvInv
<1> QED BY <1>1, <1>2, PTL DEF Spec

\* tml_conv2d_dwconv2d computes the text-book convolution of every layer it
\* accepts: every output element, whatever was in sbuf before, and all of them.
THEOREM ConvolutionComputed == Spec => []OutputIsConvolution
<1>1. ConvInv => OutputIsConvolution
  <2> SUFFICES ASSUME ConvInv PROVE OutputIsConvolution
    OBVIOUS
  <2>1. \A i \in DOMAIN out : out[i] = Reference(i)
    BY DEF ConvInv, WrittenInv
  <2>2. ASSUME pc = "done" /\ status = "TM_OK" PROVE outp = l.oh * l.ow * l.oc
    <3>1. /\ y = l.oh /\ x = 0 /\ c = 0 /\ outp = (y * l.ow + x) * l.oc + c
          /\ l.oh \in Nat /\ l.ow \in Nat /\ l.oc \in Nat
      BY <2>2, LayerFields DEF ConvInv, CursorInv, WrittenInv
    <3> QED BY <3>1
  <2> QED BY <2>1, <2>2 DEF OutputIsConvolution
<1> QED BY <1>1, ConvInvariant, PTL
=============================================================================
