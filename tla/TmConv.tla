------------------------------- MODULE TmConv -------------------------------
(***************************************************************************)
(* tml_conv2d_dwconv2d of tinymaix/src/tm_layers.c with the dot products   *)
(* of arch_cpu.h: for every output element, which input element meets      *)
(* which weight.  The products themselves, and the requantisation of       *)
(* tm_postprocess_sum, stand for the pairs they add up, so an input        *)
(* element is its index in the input matrix and a weight its index in w.   *)
(* The window buffer sbuf is static: it keeps what the previous pixel left *)
(* in it.                                                                  *)
(***************************************************************************)
EXTENDS Integers, FiniteSets

CONSTANTS Layers,     \* the convolutions the function is called with
          MaxKSize,   \* TM_MAX_KSIZE, 9: entries of k_oft
          MaxKcSize   \* TM_MAX_KCSIZE, 144: entries of sbuf

BatchSize == 2        \* BATCH_SIZE
ActMaxCnt == 6        \* TM_ACT_MAXCNT

\* A layer: input h, w, c; output oh, ow, oc; kernel kw, kh; strides sx, sy;
\* dilations dx, dy; activation; padding; depth multiplier, 0 if not depthwise.
Convolutions ==
    [h : Nat, w : Nat, c : Nat, oh : Nat, ow : Nat \ {0}, oc : Nat,
     kw : Nat \ {0}, kh : Nat \ {0}, sx : Nat, sy : Nat, dx : Nat, dy : Nat,
     act : Nat, top : Nat, bottom : Nat, left : Nat, right : Nat, dmul : Nat]

\* The function trusts the model for the size of its window, which must fit
\* sbuf as the shipped one does (see ScratchInside in TmEngine), and, where it
\* pads nothing, for the place of every pixel it takes: within the input.
ASSUME ConvConstants ==
    /\ MaxKSize \in Nat /\ MaxKcSize \in Nat
    /\ Layers \subseteq Convolutions
    /\ \A l \in Layers :
          /\ l.kw * l.kh \in 2..MaxKSize
                => (IF l.dmul > 0 THEN l.oc ELSE l.c) * (l.kw * l.kh) <= MaxKcSize
          /\ l.kw * l.kh = 1
                => \A oy \in 0..(l.oh - 1), ox \in 0..(l.ow - 1) :
                      l.sy * oy < l.h /\ l.sx * ox < l.w

VARIABLES l,           \* the layer being computed
          pc, status,
          y, x,        \* output pixel
          c, kptr,     \* channel and weight cursors of the pointwise loop
          sbuf,        \* the window buffer
          outp,        \* output cursor
          out          \* out[i]: what the i-th output element was computed from

vars == <<l, pc, status, y, x, c, kptr, sbuf, outp, out>>

Pad == -1      \* an entry memset to the input zero point
Unset == -2    \* an entry this call has not written: whatever an earlier call left

MaxK == l.kw * l.kh
PadFlag(cv) == cv.top # 0 \/ cv.bottom # 0 \/ cv.left # 0 \/ cv.right # 0
Depthwise == l.dmul > 0

-----------------------------------------------------------------------------
(* The checks on entry, in code order.                                     *)

ConvStatus(cv) ==
    IF cv.dx # 1 \/ cv.dy # 1 THEN "TM_ERR_TODO"
    ELSE IF cv.act >= ActMaxCnt THEN "TM_ERR_UNSUPPORT"
    ELSE IF cv.kw * cv.kh > MaxKSize THEN "TM_ERR_KSIZE"
    ELSE IF cv.kw * cv.kh = 1 /\ (PadFlag(cv) \/ cv.dmul > 0) THEN "TM_ERR_UNSUPPORT"
    ELSE "TM_OK"

Init ==
    /\ l \in Layers
    /\ pc = "start" /\ status = "TM_OK"
    /\ y = 0 /\ x = 0 /\ c = 0 /\ kptr = 0 /\ outp = 0
    /\ sbuf = [i \in 0..(MaxKcSize - 1) |-> Unset]
    /\ out = [i \in {} |-> {}]

Start ==
    /\ pc = "start"
    /\ status' = ConvStatus(l)
    /\ pc' = CASE ConvStatus(l) # "TM_OK" -> "done"
               [] ConvStatus(l) = "TM_OK" /\ MaxK = 1 -> "pointwise"
               [] OTHER -> "gather"
    /\ UNCHANGED <<l, y, x, c, kptr, sbuf, outp, out>>

-----------------------------------------------------------------------------
(* Dot products.                                                           *)

\* The indices tm_dot_prod goes through: groups of eight, then the rest.
DotIndices(size) ==
    LET cnt == (size \div 8) * 8
    IN  {8 * g + u : g \in 0..(cnt \div 8 - 1), u \in 0..7} \cup cnt..(size - 1)

\* What an output element is made of: the pairs its dot product adds, and the
\* channel whose bias and scale tm_postprocess_sum applies.
Element(pairs, ch) == [pairs |-> pairs, bias |-> ch, scale |-> ch]

\* Elements 0..n-1 written at outp, one after the other.
Emit(n, elems) ==
    /\ out' = [i \in DOMAIN out \cup outp..(outp + n - 1) |->
                  IF i < outp THEN out[i] ELSE elems[i - outp]]
    /\ outp' = outp + n

\* The pixel loops of both parts: for y, for x.
NextPixel ==
    /\ x' = IF x + 1 < l.ow THEN x + 1 ELSE 0
    /\ y' = IF x + 1 < l.ow THEN y ELSE y + 1

-----------------------------------------------------------------------------
(* Kernels of one pixel: channels two at a time, then the odd one.         *)

MatP(row, col) == (row * l.w + col) * l.c     \* TM_MATP, channel 0

PointwiseDot(k) == {<<MatP(l.sy * y, l.sx * x) + i, k + i>> : i \in DotIndices(l.c)}

PointwisePair ==
    /\ pc = "pointwise" /\ y < l.oh
    /\ c < l.oc - BatchSize + 1
    /\ Emit(BatchSize, [i \in 0..(BatchSize - 1) |-> Element(PointwiseDot(kptr + i * l.c), c + i)])
    /\ c' = c + BatchSize
    /\ kptr' = kptr + l.c * BatchSize
    /\ UNCHANGED <<l, pc, status, y, x, sbuf>>

PointwiseSingle ==
    /\ pc = "pointwise" /\ y < l.oh
    /\ c >= l.oc - BatchSize + 1 /\ c < l.oc
    /\ Emit(1, [i \in {0} |-> Element(PointwiseDot(kptr), c)])
    /\ kptr' = kptr + l.c
    /\ c' = c + 1
    /\ UNCHANGED <<l, pc, status, y, x, sbuf>>

PointwiseNext ==
    /\ pc = "pointwise" /\ y < l.oh
    /\ c >= l.oc
    /\ NextPixel
    /\ c' = 0 /\ kptr' = 0
    /\ UNCHANGED <<l, pc, status, sbuf, outp, out>>

-----------------------------------------------------------------------------
(* Larger kernels: the window is gathered into sbuf, then multiplied.      *)

\* The offsets of the kernel's cells in the input: one pixel further, and at
\* the end of a kernel row the rest of the input row.
KOft == [k \in 0..(MaxK - 1) |->
            (k \div l.kw) * (l.kw * l.c + (l.w - l.kw) * l.c) + (k % l.kw) * l.c]

SrcY0 == l.sy * y - l.top
SrcX0 == l.sx * x - l.left

\* slow_flag: the window is partly outside the input.
Slow == SrcY0 < 0 \/ SrcX0 < 0 \/ SrcY0 + l.kh > l.h \/ SrcX0 + l.kw > l.w

WindowChannels == IF Depthwise THEN l.oc ELSE l.c

\* The input channel gathered as window channel cc.
SrcChannel(cc) == IF Depthwise THEN cc \div l.dmul ELSE cc

\* Entries ks of every window channel are copied from the input.
Gathered(buf, ks) ==
    [i \in DOMAIN buf |->
        LET cc == i \div MaxK
            k  == i % MaxK
        IN  IF cc < WindowChannels /\ k \in ks
            THEN MatP(SrcY0, SrcX0) + SrcChannel(cc) + KOft[k]
            ELSE buf[i]]

GatherValid ==
    /\ pc = "gather" /\ y < l.oh
    /\ ~Slow
    /\ sbuf' = Gathered(sbuf, 0..(MaxK - 1))
    /\ pc' = "multiply"
    /\ UNCHANGED <<l, status, y, x, c, kptr, outp, out>>

\* Mutant: the window buffer is not set to the zero point first.
PaddedNot(buf) == buf

\* memset of the window's entries to in_zp.
Padded(buf) == [i \in DOMAIN buf |-> IF i < WindowChannels * MaxK THEN Pad ELSE buf[i]]

\* The kernel cells inside the input, _ky0.._ky1 and _kx0.._kx1.
CellsInside ==
    LET ky0 == IF SrcY0 < 0 THEN -SrcY0 ELSE 0
        kx0 == IF SrcX0 < 0 THEN -SrcX0 ELSE 0
        ky1 == IF l.h - SrcY0 > l.kh THEN l.kh ELSE l.h - SrcY0
        kx1 == IF l.w - SrcX0 > l.kw THEN l.kw ELSE l.w - SrcX0
    IN  {ky * l.kw + kx : ky \in ky0..(ky1 - 1), kx \in kx0..(kx1 - 1)}

GatherPadded ==
    /\ pc = "gather" /\ y < l.oh
    /\ Slow
    /\ sbuf' = Gathered(Padded(sbuf), CellsInside)
    /\ pc' = "multiply"
    /\ UNCHANGED <<l, status, y, x, c, kptr, outp, out>>

\* chi is 1 for depthwise layers, whose window start moves with the channel.
\* tm_dot_prod_3x3x1 adds the same nine pairs as tm_dot_prod.
WindowDot(ch) ==
    LET chi  == IF Depthwise THEN 1 ELSE l.c
        sptr == IF Depthwise THEN ch * MaxK ELSE 0
        k    == ch * chi * MaxK
        size == MaxK * chi
    IN  {<<sbuf[sptr + i], k + i>> :
            i \in IF size = 9 /\ Depthwise THEN 0..8 ELSE DotIndices(size)}

Multiply ==
    /\ pc = "multiply"
    /\ Emit(l.oc, [i \in 0..(l.oc - 1) |-> Element(WindowDot(i), i)])
    /\ NextPixel
    /\ pc' = "gather"
    /\ UNCHANGED <<l, status, c, kptr, sbuf>>

Finish ==
    /\ pc \in {"pointwise", "gather"}
    /\ y >= l.oh
    /\ pc' = "done"
    /\ UNCHANGED <<l, status, y, x, c, kptr, sbuf, outp, out>>

Next ==
    \/ Start
    \/ PointwisePair \/ PointwiseSingle \/ PointwiseNext
    \/ GatherValid \/ GatherPadded \/ Multiply
    \/ Finish

Spec == Init /\ [][Next]_vars

-----------------------------------------------------------------------------
(* Properties.                                                             *)

\* The text-book convolution over matrices in row, column, channel order and
\* weights in output channel, input channel, row, column order: element i of
\* the output is row oy, column ox, channel ch.
Reference(i) ==
    LET ch == i % l.oc
        ox == (i \div l.oc) % l.ow
        oy == (i \div l.oc) \div l.ow
        in(ky, kx, ci) ==
            LET row == oy * l.sy - l.top + ky
                col == ox * l.sx - l.left + kx
            IN  IF row \in 0..(l.h - 1) /\ col \in 0..(l.w - 1)
                THEN (row * l.w + col) * l.c + ci ELSE Pad
        cells == (0..(l.kh - 1)) \X (0..(l.kw - 1))
    IN  Element(
          IF Depthwise
          THEN {<<in(k[1], k[2], ch \div l.dmul), ch * MaxK + k[1] * l.kw + k[2]>> :
                   k \in cells}
          ELSE {<<in(k[1], k[2], ci), (ch * l.c + ci) * MaxK + k[1] * l.kw + k[2]>> :
                   k \in cells, ci \in 0..(l.c - 1)},
          ch)

\* Every output element is the text-book convolution at its place, whatever
\* the previous pixels left in sbuf, and all of them have been written when
\* tml_conv2d_dwconv2d returns TM_OK.
OutputIsConvolution ==
    /\ \A i \in DOMAIN out : out[i] = Reference(i)
    /\ pc = "done" /\ status = "TM_OK" => outp = l.oh * l.ow * l.oc
=============================================================================
