--------------------------- MODULE TinyMaixSystem ---------------------------
(***************************************************************************)
(* The inference partition with the non-secure threads that use it: the    *)
(* client API of interface/src/tfm_tinymaix_inference_api.c, and programs  *)
(* that make the PSA calls themselves (the manifest lets any non-secure    *)
(* client do so).                                                          *)
(***************************************************************************)
EXTENDS TinyMaixPartition

CONSTANTS DirectCalls   \* calls made by programs that do not use the API

ASSUME DirectConstants ==
    DirectCalls \subseteq [type : {LOAD, RUN, KEY, "other"},
                           in_vec : Seq(Pixel), out_size : Nat]

VARIABLES call,    \* call[c]: the function c is in, with its PSA arguments
          result,  \* result[c]: what the call brought back
          ret      \* ret[c]: what c's last function returned, once it has

apiVars == <<call, result, ret>>
vars == <<partVars, cryptoVars, ipcVars, apiVars>>

\* The PSA call of each API function.  run_inference_with_data sends no
\* input whatever image it is given; run_inference is that function.
ApiCall(fn) ==
    CASE fn = "load_encrypted_model" -> [type |-> LOAD, in_vec |-> <<>>, out_size |-> SIZEOF_INT]
      [] fn = "run_inference"        -> [type |-> RUN,  in_vec |-> <<>>, out_size |-> SIZEOF_INT]
      [] fn = "get_model_key"        -> [type |-> KEY,  in_vec |-> <<>>, out_size |-> DERIVED_KEY_LEN]

ApiFunctions == {"load_encrypted_model", "run_inference"}
                    \cup (IF DevMode THEN {"get_model_key"} ELSE {})
Calls == {[fn |-> f, psa |-> ApiCall(f)] : f \in ApiFunctions}
            \cup {[fn |-> "direct", psa |-> d] : d \in DirectCalls}
NoCall == [fn |-> "none", psa |-> [type |-> "other", in_vec |-> <<>>, out_size |-> 0]]

\* class is what *predicted_class was set to, as a sequence of at most one.
NoReturn == [fn |-> "none", status |-> "none", class |-> <<>>]
ReturnStatuses == Statuses \cup {"PSA_ERROR_CONNECTION_REFUSED",
    "TINYMAIX_STATUS_SUCCESS", "TINYMAIX_STATUS_ERROR_GENERIC",
    "TINYMAIX_STATUS_ERROR_INVALID_PARAM",
    "TINYMAIX_STATUS_ERROR_MODEL_LOAD_FAILED",
    "TINYMAIX_STATUS_ERROR_INFERENCE_FAILED"}
Returns == [fn : ApiFunctions \cup {"direct"}, status : ReturnStatuses, class : OutVecs]

\* What the function makes of the status and the output vector of its call.
Outcome(fn, r) ==
    LET Fn(st, cl) == [fn |-> fn, status |-> st, class |-> cl]
        psaOk == r.status = "PSA_SUCCESS"
    IN  CASE fn = "load_encrypted_model" ->
               IF ~psaOk \/ r.out # <<0>>      \* result starts as 1
               THEN Fn("TINYMAIX_STATUS_ERROR_MODEL_LOAD_FAILED", <<>>)
               ELSE Fn("TINYMAIX_STATUS_SUCCESS", <<>>)
          [] fn = "run_inference" ->
               IF ~psaOk \/ r.out = <<>> \/ r.out[1] < 0   \* result starts as -1
               THEN Fn("TINYMAIX_STATUS_ERROR_INFERENCE_FAILED", <<>>)
               ELSE Fn("TINYMAIX_STATUS_SUCCESS", r.out)
          [] fn = "get_model_key" ->
               Fn(IF psaOk THEN "TINYMAIX_STATUS_SUCCESS"
                           ELSE "TINYMAIX_STATUS_ERROR_GENERIC", <<>>)
          [] fn = "direct" -> Fn(r.status, r.out)

-----------------------------------------------------------------------------
\* Entering a function: parameters are fine, psa_connect is issued.
Invoke(c) ==
    /\ PsaConnect(c)
    /\ \E k \in Calls : call' = [call EXCEPT ![c] = k]
    /\ ret' = [ret EXCEPT ![c] = NoReturn]
    /\ UNCHANGED result

\* A null predicted_class, or a key buffer below 16 bytes.
InvokeBadParameter(c, fn) ==
    /\ phase[c] = "idle"
    /\ fn \in ApiFunctions \ {"load_encrypted_model"}
    /\ ret' = [ret EXCEPT ![c] = [fn |-> fn, class |-> <<>>,
                 status |-> "TINYMAIX_STATUS_ERROR_INVALID_PARAM"]]
    /\ UNCHANGED <<call, result, ipcVars>>

InvokeRefused(c, fn) ==
    /\ ConnectRefused(c)
    /\ fn \in ApiFunctions \cup {"direct"}
    /\ ret' = [ret EXCEPT ![c] = [fn |-> fn, class |-> <<>>,
                 status |-> IF fn = "direct" THEN "PSA_ERROR_CONNECTION_REFUSED"
                                             ELSE "TINYMAIX_STATUS_ERROR_GENERIC"]]
    /\ UNCHANGED <<call, result, ipcVars>>

MakeCall(c) ==
    /\ PsaCall(c, call[c].psa.type, call[c].psa.in_vec, call[c].psa.out_size)
    /\ UNCHANGED apiVars

\* Mutant: the error path returns before psa_close.
CloseUnlessFailed(c) ==
    \/ /\ PsaClose(c)
       /\ reply[c].status = "PSA_SUCCESS"
       /\ result' = [result EXCEPT ![c] = reply[c]]
       /\ UNCHANGED <<call, ret>>
    \/ /\ phase[c] = "call" /\ reply[c] \notin {NoReply} /\ reply[c].status # "PSA_SUCCESS"
       /\ phase' = [phase EXCEPT ![c] = "idle"]
       /\ reply' = [reply EXCEPT ![c] = NoReply]
       /\ ret' = [ret EXCEPT ![c] = Outcome(call[c].fn, reply[c])]
       /\ call' = [call EXCEPT ![c] = NoCall]
       /\ UNCHANGED <<handles, queue, serving, result>>

Close(c) ==
    /\ PsaClose(c)
    /\ result' = [result EXCEPT ![c] = reply[c]]
    /\ UNCHANGED <<call, ret>>

Return(c) ==
    /\ PsaClosed(c)
    /\ ret' = [ret EXCEPT ![c] = Outcome(call[c].fn, result[c])]
    /\ call' = [call EXCEPT ![c] = NoCall]
    /\ result' = [result EXCEPT ![c] = NoReply]

ClientStep(c) == MakeCall(c) \/ Close(c) \/ Return(c)

Client(c) ==
    /\ \/ Invoke(c) \/ ClientStep(c)
       \/ \E fn \in ApiFunctions : InvokeBadParameter(c, fn)
       \/ \E fn \in ApiFunctions \cup {"direct"} : InvokeRefused(c, fn)
    /\ UNCHANGED <<partVars, cryptoVars>>

Partition == PartNext /\ UNCHANGED apiVars

Init == /\ PartInit /\ CryptoInit /\ IpcInit
        /\ call = [c \in Clients |-> NoCall]
        /\ result = [c \in Clients |-> NoReply]
        /\ ret = [c \in Clients |-> NoReturn]

Next == Partition \/ \E c \in Clients : Client(c)

\* The partition's thread runs whenever it can, and a client inside an API
\* function goes on once its blocking call has returned.  Nobody has to call.
Fairness == /\ WF_vars(Partition)
            /\ \A c \in Clients : WF_vars(ClientStep(c) /\ UNCHANGED <<partVars, cryptoVars>>)

Spec == Init /\ [][Next]_vars
FairSpec == Spec /\ Fairness

-----------------------------------------------------------------------------
TypeOK ==
    /\ IpcTypeOK(Messages, Replies)
    /\ CryptoTypeOK
    /\ PartTypeOK
    /\ call \in [Clients -> Calls \cup {NoCall}]
    /\ result \in [Clients -> Replies \cup {NoReply}]
    /\ ret \in [Clients -> Returns \cup {NoReturn}]

\* Every API function returns: no path of the partition leaves a client
\* without an answer, and nobody waits for ever behind somebody else.
EveryCallReturns == \A c \in Clients : phase[c] # "idle" ~> phase[c] = "idle"

\* The image an inference without input data runs on is the one the source
\* calls "built-in test image".
BuiltinImageUsed ==
    \A c \in Clients :
        ret[c].fn = "run_inference" /\ ret[c].status = "TINYMAIX_STATUS_SUCCESS"
            => ret[c].class = <<Class[BuiltinPic]>>
-----------------------------------------------------------------------------
(* The system implements InferenceContract.  A call takes effect with the  *)
(* psa_reply that answers it.                                              *)

Stage(c) == IF phase[c] = "idle" THEN "idle"
            ELSE IF phase[c] = "close" \/ (phase[c] = "call" /\ reply[c] # NoReply)
                 THEN "answered"
            ELSE "pending"

AnswerOf(c) == IF phase[c] = "call" THEN reply[c] ELSE result[c]

Contract == INSTANCE InferenceContract WITH
    Acceptable <- Genuine,
    package <- pkg, loaded <- g_model_loaded, picture <- mnist_pic,
    stage <- [c \in Clients |-> Stage(c)], want <- call,
    answer <- [c \in Clients |-> AnswerOf(c)], returned <- ret

\* The partition and the API functions, with every interleaving of clients
\* and every crypto failure, do nothing the contract does not allow: each
\* function takes effect atomically, a load succeeds only on a package that
\* the encryptor made of a loadable model (see Genuine: not always a whole
\* one) and otherwise unloads, an inference succeeds only with a model
\* and classifies the picture in the buffer, and what is returned is what
\* the service answered to this very call.
ImplementsContract == Contract!Spec
=============================================================================
