------------------------------ MODULE TmEngine ------------------------------
(***************************************************************************)
(* tm_load, tm_preprocess and tm_run of tinymaix/src/tm_model.c, the       *)
(* layers of tm_layers.c and parse_output of tinymaix_inference.c, over    *)
(* the partition's one main buffer.  All intermediate matrices live in     *)
(* that buffer at offsets the model gives, a new one over a dead one, and  *)
(* nothing clears it between inferences.  A byte of the buffer is the name *)
(* of the value stored in it: <<inference, matrix, form, index>>, so that  *)
(* what is followed is which value is read where.                          *)
(***************************************************************************)
EXTENDS Integers, Sequences, FiniteSets

CONSTANTS Models,      \* what tm_load is called with
          MainBufLen,  \* MDL_BUF_LEN: size of static_main_buf
          Pixels,      \* 28*28: size of the picture tm_preprocess converts
          Classes,     \* 10: scores parse_output reads
          MaxKSize, MaxKcSize, MaxCSize,   \* sizes of k_oft, sbuf, sumscale
          Bases,       \* where the linker may put a byte array, modulo 8
          MaxRuns      \* bound: inferences

Dims == [h : Nat, w : Nat, c : Nat]

\* A layer record of the model: its header, the convolution's parameters, the
\* offsets of scales, weights and biases in the record.  from1 is the layer
\* whose output tml_add takes from in_oft1.
LayerTypes == {"CONV2D", "DWCONV2D", "GAP", "FC", "SOFTMAX", "RESHAPE", "ADD"}
LayerRecords ==
    [type : LayerTypes \cup {"unknown"}, is_out : BOOLEAN, size : Nat,
     in_oft : Nat, out_oft : Nat, in_oft1 : Nat, from1 : Nat, in : Dims, out : Dims,
     k : Nat, s : Nat, dil : Nat, pad : Nat, dmul : Nat,
     ws_oft : Nat, w_oft : Nat, b_oft : Nat]

ASSUME EngineConstants ==
    /\ MainBufLen \in Nat \ {0} /\ Pixels \in Nat /\ Classes \in Nat /\ MaxRuns \in Nat
    /\ MaxKSize \in Nat /\ MaxKcSize \in Nat /\ MaxCSize \in Nat
    /\ Bases \subseteq 0..7
    /\ \A m \in Models :
          /\ m.out_deq \in BOOLEAN
          /\ m.layers \in Seq(LayerRecords)
          /\ Cardinality({n \in 1..Len(m.layers) : m.layers[n].is_out}) <= 1   \* g_outs[1]

VARIABLES mdl,         \* the loaded model
          phase,       \* "idle", "layer", "output", "parse"
          layer_i,     \* mdl->layer_i
          layer_body,  \* mdl->layer_body, an offset into the layers
          step,        \* progress inside the layer or the dequantisation
          buf, base,   \* static_main_buf, and its address modulo 8
          outs,        \* address of g_outs[0].data
          run,         \* inferences started
          tm_res

vars == <<mdl, phase, layer_i, layer_body, step, buf, base, outs, run, tm_res>>

Addresses == 0..(MainBufLen - 1)

Size(d) == d.h * d.w * d.c

\* TM_ALIGN of an address of the buffer, which is itself aligned to nothing.
Align(a) == ((base + a + 7) \div 8) * 8 - base

\* The layer record that starts at an offset of the layers' bytes.
Offset(m, n) ==
    LET start[j \in 0..Len(m.layers)] ==
            IF j = 0 THEN 0 ELSE start[j - 1] + m.layers[j].size
    IN  start[n]
LayerAt(m, off) == m.layers[CHOOSE n \in 1..Len(m.layers) : Offset(m, n - 1) = off]

h == LayerAt(mdl, layer_body)

-----------------------------------------------------------------------------
(* What one step of a layer reads and writes.  A step is what happens      *)
(* between two writes of the main buffer: reads first, then the write.     *)
(* A value is a pair of an address and a name.                             *)

Region(oft, n) == oft..(oft + n - 1)
Float(oft, i) == Region(oft + 4 * i, 4)

\* The matrix numbered 0 is the input, n the output of the n-th layer; the
\* output of a reshape is its input.
Matrix(n) ==
    LET source[j \in 0..Len(mdl.layers)] ==
            IF j > 0 /\ mdl.layers[j].type = "RESHAPE" THEN source[j - 1] ELSE j
    IN  source[n]

Name(n, form, i) == <<run, Matrix(n), form, i>>

Quantised(oft, n, indices) == {<<oft + i, Name(n, "q", i)>> : i \in indices}
Floats(oft, n, form, i) == {<<a, Name(n, form, i)>> : a \in Float(oft, i)}

\* The input of layer 0 is where tm_load put it, not where its header says.
InOft == IF layer_i = 0 THEN 0 ELSE h.in_oft
Produced == layer_i + 1       \* number of the matrix being computed
Consumed == layer_i           \* number of its input matrix

MaxK == h.k * h.k
IsConv == h.type \in {"CONV2D", "DWCONV2D"}
Pointwise == MaxK = 1

\* tml_conv2d_dwconv2d goes pixel by pixel: the window of all channels is
\* copied to sbuf before the channels of the output pixel are written.  With a
\* kernel of one pixel there is no copy, and the pixel is read again for every
\* two channels.
Batches == (h.out.c + 1) \div 2

\* Mutant: one output row too many.
ConvStepsOneRowMore == (h.out.h + 1) * h.out.w * (IF Pointwise THEN Batches ELSE 1)

ConvSteps == h.out.h * h.out.w * (IF Pointwise THEN Batches ELSE 1)
ConvPixel == IF Pointwise THEN step \div Batches ELSE step
ConvReads ==
    LET y0 == (ConvPixel \div h.out.w) * h.s - h.pad
        x0 == (ConvPixel % h.out.w) * h.s - h.pad
        rows == {r \in y0..(y0 + h.k - 1) : r \in 0..(h.in.h - 1)}
        cols == {q \in x0..(x0 + h.k - 1) : q \in 0..(h.in.w - 1)}
    IN  {(r * h.in.w + q) * h.in.c + ci : r \in rows, q \in cols, ci \in 0..(h.in.c - 1)}
ConvWrites ==
    LET first == ConvPixel * h.out.c
        chans == IF Pointwise
                 THEN {ch \in {2 * (step % Batches), 2 * (step % Batches) + 1} : ch < h.out.c}
                 ELSE 0..(h.out.c - 1)
    IN  {first + ch : ch \in chans}

\* tml_softmax works on floats in the output region and turns them into
\* bytes at the front of the same region.
SoftmaxPass == step \div h.in.c

\* Mutant: the bytes are written from the last cell to the first.
SoftmaxCellBackwards ==
    IF SoftmaxPass = 2 THEN (h.in.c - 1) - (step % h.in.c) ELSE step % h.in.c

SoftmaxCell == step % h.in.c

LayerSteps ==
    CASE IsConv -> ConvSteps
      [] h.type \in {"GAP", "FC"} -> h.out.c
      [] h.type = "SOFTMAX" -> 3 * h.in.c
      [] h.type = "ADD" -> Size(h.in)
      [] OTHER -> 0

StepReads ==
    CASE IsConv -> Quantised(InOft, Consumed, ConvReads)
      [] h.type = "GAP" ->
             Quantised(InOft, Consumed, {step + h.out.c * p : p \in 0..(h.in.h * h.in.w - 1)})
      [] h.type = "FC" -> Quantised(InOft, Consumed, 0..(h.in.c - 1))
      [] h.type = "ADD" -> Quantised(InOft, Consumed, {step})
                             \cup Quantised(h.in_oft1, h.from1, {step})
      [] h.type = "SOFTMAX" ->
             CASE SoftmaxPass = 0 -> Quantised(InOft, Consumed, {SoftmaxCell})
               [] SoftmaxPass = 1 -> Floats(h.out_oft, Produced, "real", SoftmaxCell)
               [] SoftmaxPass = 2 -> Floats(h.out_oft, Produced, "exp", SoftmaxCell)

StepWrites ==
    CASE IsConv -> Quantised(h.out_oft, Produced, ConvWrites)
      [] h.type \in {"GAP", "FC", "ADD"} -> Quantised(h.out_oft, Produced, {step})
      [] h.type = "SOFTMAX" ->
             CASE SoftmaxPass = 0 -> Floats(h.out_oft, Produced, "real", SoftmaxCell)
               [] SoftmaxPass = 1 -> Floats(h.out_oft, Produced, "exp", SoftmaxCell)
               [] SoftmaxPass = 2 -> Quantised(h.out_oft, Produced, {SoftmaxCell})

\* The bytes of the layer record a step uses: weights (bytes), biases and
\* scales (four bytes each) of the channels it computes.  tml_fc uses one scale.
BodyReads ==
    LET word(oft, i) == Region(oft + 4 * i, 4)
        chi == IF h.dmul > 0 THEN 1 ELSE h.in.c
    IN  CASE IsConv ->
               UNION {Region(h.w_oft + ch * chi * MaxK, chi * MaxK)
                        \cup word(h.b_oft, ch) \cup word(h.ws_oft, ch) :
                          ch \in {e % h.out.c : e \in ConvWrites}}
          [] h.type = "FC" ->
               Region(h.w_oft + step * h.in.c, h.in.c)
                  \cup word(h.b_oft, step) \cup word(h.ws_oft, 0)
          [] OTHER -> {}

-----------------------------------------------------------------------------
(* Actions.                                                                *)

\* A new value at each address of a set of values; what lies outside the
\* buffer is not modelled.
Stored(values) ==
    [a \in Addresses |->
        IF \E v \in values : v[1] = a THEN (CHOOSE v \in values : v[1] = a)[2] ELSE buf[a]]

Init ==
    /\ mdl \in Models
    /\ phase = "idle"
    /\ layer_i = 0 /\ layer_body = 0 /\ step = 0
    /\ buf = [a \in Addresses |-> <<0, 0, "q", 0>>]
    /\ base \in Bases
    /\ outs = 0 /\ run = 0 /\ tm_res = "TM_OK"

\* tm_load of a model the partition accepted: buf is given, nothing allocated.
Load(m) ==
    /\ phase = "idle"
    /\ mdl' = m
    /\ layer_i' = 0 /\ layer_body' = 0
    /\ tm_res' = "TM_OK"
    /\ UNCHANGED <<phase, step, buf, base, outs, run>>

\* Mutant: tm_run goes on where the layer cursor was left.
StartKeepingCursor ==
    /\ layer_i' = 0
    /\ UNCHANGED layer_body

StartCursor ==
    /\ layer_i' = 0
    /\ layer_body' = 0

\* tm_preprocess of the picture, then the beginning of tm_run.
Preprocess ==
    /\ phase = "idle" /\ run < MaxRuns
    /\ run' = run + 1
    /\ buf' = [a \in Addresses |-> IF a < Pixels THEN <<run', 0, "q", a>> ELSE buf[a]]
    /\ StartCursor
    /\ phase' = "layer" /\ step' = 0
    /\ UNCHANGED <<mdl, base, outs, tm_res>>

More == layer_i < Len(mdl.layers)       \* the condition of tm_run's loop

\* The status of the layer function; conv2d refuses before it writes (TmConv has
\* its check of the activation, which no field of these records is about).
LayerStatus ==
    CASE h.type = "unknown" -> "TM_ERR_LAYERTYPE"
      [] IsConv /\ h.dil # 1 -> "TM_ERR_TODO"
      [] IsConv /\ h.dil = 1 /\ MaxK > MaxKSize -> "TM_ERR_KSIZE"
      [] IsConv /\ h.dil = 1 /\ Pointwise /\ (h.pad # 0 \/ h.dmul # 0) -> "TM_ERR_UNSUPPORT"
      [] OTHER -> "TM_OK"

LayerFails ==
    /\ phase = "layer" /\ More
    /\ LayerStatus # "TM_OK"
    /\ tm_res' = LayerStatus
    /\ phase' = "idle"
    /\ UNCHANGED <<mdl, layer_i, layer_body, step, buf, base, outs, run>>

LayerStep ==
    /\ phase = "layer" /\ More
    /\ LayerStatus = "TM_OK"
    /\ step < LayerSteps
    /\ buf' = Stored(StepWrites)
    /\ step' = step + 1
    /\ UNCHANGED <<mdl, phase, layer_i, layer_body, base, outs, run, tm_res>>

Advance ==
    /\ layer_i' = layer_i + 1
    /\ layer_body' = layer_body + h.size
    /\ step' = 0
    /\ phase' = "layer"

LayerDone ==
    /\ phase = "layer" /\ More
    /\ LayerStatus = "TM_OK" /\ step = LayerSteps
    /\ \/ /\ ~h.is_out
          /\ Advance
          /\ UNCHANGED outs
       \/ /\ h.is_out /\ ~mdl.out_deq
          /\ outs' = h.out_oft
          /\ Advance
       \/ /\ h.is_out /\ mdl.out_deq
          /\ outs' = Align(h.out_oft + Size(h.out))
          /\ phase' = "output" /\ step' = 0
          /\ UNCHANGED <<layer_i, layer_body>>
    /\ UNCHANGED <<mdl, buf, base, run, tm_res>>

\* outf, aligned behind the output's bytes.
Dequantised(i) == Floats(Align(h.out_oft + Size(h.out)), Produced, "score", i)

Dequantise ==
    /\ phase = "output"
    /\ \/ /\ step < Size(h.out)
          /\ buf' = Stored(Dequantised(step))
          /\ step' = step + 1
          /\ UNCHANGED <<phase, layer_i, layer_body>>
       \/ /\ step = Size(h.out)
          /\ Advance
          /\ UNCHANGED buf
    /\ UNCHANGED <<mdl, base, outs, run, tm_res>>

RunDone ==
    /\ phase = "layer" /\ ~More
    /\ tm_res' = "TM_OK"
    /\ phase' = "parse"
    /\ UNCHANGED <<mdl, layer_i, layer_body, step, buf, base, outs, run>>

\* parse_output takes the scores as floats, whatever out_deq says.
ParseOutput ==
    /\ phase = "parse"
    /\ phase' = "idle"
    /\ UNCHANGED <<mdl, layer_i, layer_body, step, buf, base, outs, run, tm_res>>

Next ==
    \/ \E m \in Models : Load(m)
    \/ Preprocess \/ LayerFails \/ LayerStep \/ LayerDone \/ Dequantise \/ RunDone
    \/ ParseOutput

Spec == Init /\ [][Next]_vars

-----------------------------------------------------------------------------
(* Properties.                                                             *)

Computing == phase = "layer" /\ More /\ LayerStatus = "TM_OK" /\ step < LayerSteps

Reads ==
    IF Computing THEN StepReads
    ELSE IF phase = "output" /\ step < Size(h.out)
         THEN Quantised(h.out_oft, Produced, {step})
    ELSE IF phase = "parse" /\ mdl.out_deq
         THEN UNION {Floats(outs, Len(mdl.layers), "score", i) : i \in 0..(Classes - 1)}
    ELSE {}

\* Every variable keeps its type; the cursor of tm_run is on a layer record.
TypeOK ==
    /\ mdl \in Models
    /\ phase \in {"idle", "layer", "output", "parse"}
    /\ layer_i \in 0..Len(mdl.layers)
    /\ layer_body = Offset(mdl, layer_i)
    /\ step \in Nat /\ run \in 0..MaxRuns
    /\ outs \in Addresses /\ base \in Bases
    /\ DOMAIN buf = Addresses

\* Every value a layer, the dequantisation or parse_output takes from the main
\* buffer is the one its producer put there in this inference: not overwritten
\* by a later layer or by the reader itself, not left by an inference that was
\* aborted or by another model.  (parse_output is written for models whose
\* output is dequantised.)
InputsFresh == \A v \in Reads : v[1] \in Addresses /\ buf[v[1]] = v[2]

\* Writes of layers and dequantisation stay in static_main_buf, weights, biases
\* and scales are read inside the layer's own record, and the convolution's
\* static arrays are large enough: none of which tm_run checks.
AccessesInside ==
    /\ Computing =>
          /\ \A v \in StepWrites : v[1] \in Addresses
          /\ BodyReads \subseteq 0..(h.size - 1)
          /\ IsConv => /\ h.out.c <= MaxCSize
                       /\ ~Pointwise =>
                            (IF h.dmul > 0 THEN h.out.c ELSE h.in.c) * MaxK <= MaxKcSize
    /\ phase = "output" /\ step < Size(h.out) =>
          \A v \in Dequantised(step) : v[1] \in Addresses
=============================================================================
