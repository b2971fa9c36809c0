----------------------------- MODULE MCTinyMaix -----------------------------
(* A small instance of TinyMaixSystem.  Lengths are scaled down (a block   *)
(* of 4 bytes, a header of 2, a buffer of 14, a magic of 2, sub_size at 5  *)
(* and 6, layers from 9, images of 2 pixels) so that every comparison of   *)
(* the code has inputs on both sides and on the boundary, and so that, as  *)
(* in the code, the first block of a model ends before its sub_size.       *)
EXTENDS TinyMaixSystem

CONSTANTS c1, c2

MCMagic == <<5, 6>>

GoodModel    == <<5, 6, 0, 1, 0, 0, 1, 1, 1>>           \* padded with 3
AlignedModel == <<5, 6, 0, 1, 0, 0, 1, 1>>              \* a block of padding
LargestModel == <<5, 6, 0, 1, 0, 0, 1, 1, 1, 1, 1>>     \* fills the buffer
CutModel     == <<5, 6, 0, 1, 0, 0>>                    \* ends inside the header
Good == PackageOf(GoodModel)

\* Packages on which the handler gets past the header checks.
DecryptedPackages ==
    {PackageOf(m) : m \in {GoodModel, AlignedModel, LargestModel, CutModel,
                           <<5>>,                       \* too short for the magic check
                           <<5, 6>>,                    \* mdl_type read from the padding
                           <<5, 6, 0>>,                 \* sub_size beyond the padding
                           <<5, 6, 0, 1>>,              \* sub_size read from the padding
                           <<5, 6, 0, 1, 0>>,           \* half of it
                           <<5, 1, 0>>,                 \* wrong magic
                           <<5, 6, 3>>,                 \* wrong model type
                           <<5, 6, 0, 1, 0, 1, 1, 1>>}} \* needs a sub-buffer
    \cup {[Good EXCEPT !.original_size = 8],            \* size mismatch
          [PackageOf(CutModel) EXCEPT !.size = @ + 1],  \* a partial block
          [Good EXCEPT !.plain[11] = 1],                \* broken padding
          [Good EXCEPT !.plain[12] = 0],                \* padding of 0
          [Good EXCEPT !.plain[12] = 5]}                \* padding too long

\* One package per header check.
RejectedPackages ==
    {PackageOf(LargestModel \o <<1>>),
     [Good EXCEPT !.magic = FALSE], [Good EXCEPT !.version = 2],
     [Good EXCEPT !.original_size = 15],
     [Good EXCEPT !.size = 2, !.plain = <<>>],
     [Good EXCEPT !.size = 1, !.plain = <<>>]}

AllPackages == DecryptedPackages \cup RejectedPackages
OnePackage == {Good}

MCPixel == {"digit2", "client"}
MCBuiltin == <<"digit2", "digit2">>
Image == <<"client", "client">>
MCClass == [p \in Pictures |-> IF p = MCBuiltin THEN 2 ELSE IF p = Image THEN 7 ELSE -1]

Direct(type, in_vec, out_size) == [type |-> type, in_vec |-> in_vec, out_size |-> out_size]

\* Direct callers: an image, an image of the wrong size, vectors too small
\* for the answer, a type the service does not know.
MCDirectCalls ==
    {Direct(RUN, Image, 4), Direct(RUN, <<"client">>, 4), Direct(RUN, <<>>, 0),
     Direct(LOAD, <<>>, 0), Direct(KEY, <<>>, 15), Direct("other", <<>>, 0)}

FewDirectCalls == {Direct(RUN, Image, 4)}

-----------------------------------------------------------------------------
\* The two clients meet in the build with the good package, over the calls
\* that change what the other sees; every other package and call is explored
\* with c1 alone.  All that is excluded is an entry into a function, which
\* Fairness never asks for.
SharedCalls == {k \in Calls : /\ k.psa.type \in {LOAD, RUN}
                              /\ k.fn = "direct" => k.psa \in FewDirectCalls}

Meet == /\ pkg = Good
        /\ \A c \in Clients : call'[c] \in SharedCalls \cup {NoCall}
                              /\ ret'[c].fn # "get_model_key"

Alone == handles' \subseteq {c1} /\ ret'[c2] = NoReturn

MCNext == Next /\ (Meet \/ Alone)

MCSpec == Init /\ [][MCNext]_vars /\ Fairness
=============================================================================
