------------------------- MODULE InferenceContract --------------------------
(***************************************************************************)
(* What the inference service promises a client of its API, with nothing   *)
(* of connections, queues or crypto calls: every function takes effect in  *)
(* one step somewhere between its call and its return, on a state made of  *)
(* "is there a model" and "which picture is in the image buffer".          *)
(***************************************************************************)
EXTENDS Integers, Sequences

CONSTANTS Clients, Calls, NoCall, NoReply, NoReturn, ImageSize, Outcome(_, _),
          Acceptable(_),  \* the packages whose model the service loads
          Results(_, _)   \* what an inference may answer for a package and a picture

VARIABLES package, loaded, picture,
          stage,    \* stage[c]: "idle", "pending" or "answered"
          want,     \* want[c]: the call c has made
          answer,   \* answer[c]: its status and output
          returned  \* returned[c]: what c's last function returned

vars == <<package, loaded, picture, stage, want, answer, returned>>

Ask(c) ==
    /\ stage[c] = "idle"
    /\ stage' = [stage EXCEPT ![c] = "pending"]
    /\ \E k \in Calls : want' = [want EXCEPT ![c] = k]
    /\ returned' = [returned EXCEPT ![c] = NoReturn]
    /\ UNCHANGED <<package, loaded, picture, answer>>

\* A function may refuse without reaching the service; then it fails.
Refuse(c) ==
    /\ stage[c] = "idle"
    /\ returned'[c].status \notin {"PSA_SUCCESS", "TINYMAIX_STATUS_SUCCESS"}
    /\ returned' = [returned EXCEPT ![c] = returned'[c]]
    /\ UNCHANGED <<package, loaded, picture, stage, want, answer>>

\* A load that succeeds leaves an acceptable model loaded; one that fails
\* leaves none, not even the model that was there.
Loads(ans) ==
    /\ UNCHANGED picture
    /\ \/ ans.status = "PSA_SUCCESS" /\ Acceptable(package) /\ loaded' = TRUE
       \/ ans.status # "PSA_SUCCESS" /\ loaded' = FALSE

\* An inference needs a model, changes no model, and classifies the picture
\* that is in the buffer once the input, if any, has been read.
Infers(c, ans) ==
    LET in == want[c].psa.in_vec
    IN  /\ UNCHANGED loaded
        /\ picture' # picture => loaded /\ Len(in) = ImageSize
        /\ ans.status = "PSA_SUCCESS" =>
             /\ loaded
             /\ Len(in) = ImageSize => picture' = in
             /\ Len(in) = 0 => picture' = picture
             /\ ans.out \in {<<>>} \cup {<<r>> : r \in Results(package, picture')}

Answer(c) ==
    LET ans == answer'[c]
    IN  /\ stage[c] = "pending"
        /\ stage' = [stage EXCEPT ![c] = "answered"]
        /\ answer' = [answer EXCEPT ![c] = ans]
        /\ \/ want[c].psa.type = "TINYMAIX_IPC_LOAD_ENCRYPTED_MODEL" /\ Loads(ans)
           \/ want[c].psa.type = "TINYMAIX_IPC_RUN_INFERENCE" /\ Infers(c, ans)
           \/ want[c].psa.type \notin {"TINYMAIX_IPC_LOAD_ENCRYPTED_MODEL",
                                       "TINYMAIX_IPC_RUN_INFERENCE"}
              /\ UNCHANGED <<loaded, picture>>
        /\ UNCHANGED <<package, want, returned>>

Return(c) ==
    /\ stage[c] = "answered"
    /\ stage' = [stage EXCEPT ![c] = "idle"]
    /\ returned' = [returned EXCEPT ![c] = Outcome(want[c].fn, answer[c])]
    /\ want' = [want EXCEPT ![c] = NoCall]
    /\ answer' = [answer EXCEPT ![c] = NoReply]
    /\ UNCHANGED <<package, loaded, picture>>

Init == /\ ~loaded
        /\ stage = [c \in Clients |-> "idle"]
        /\ want = [c \in Clients |-> NoCall]
        /\ answer = [c \in Clients |-> NoReply]

Next == \E c \in Clients : Ask(c) \/ Refuse(c) \/ Answer(c) \/ Return(c)

Spec == Init /\ [][Next]_vars
=============================================================================
