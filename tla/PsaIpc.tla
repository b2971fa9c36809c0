------------------------------- MODULE PsaIpc -------------------------------
(***************************************************************************)
(* The PSA Firmware Framework as the repository uses it: clients open a    *)
(* connection, make one call on it and close it, each a blocking call that *)
(* becomes a message of the service's queue; the service takes one message *)
(* at a time and answers it.  The Secure Partition Manager itself is TF-M, *)
(* outside this repository, so what is here is external: the calls that    *)
(* interface/src and partitions/ make, and what they rely on.              *)
(***************************************************************************)
EXTENDS Integers, Sequences, FiniteSets

CONSTANTS Clients,      \* non-secure threads using a service
          MaxHandles,   \* connections the SPM can have open at once
          NoClient      \* not a client

ASSUME IpcConstants == MaxHandles \in Nat /\ NoClient \notin Clients

VARIABLES phase,    \* phase[c]: which blocking PSA call client c is in
          handles,  \* clients that hold an open connection
          queue,    \* messages the service has not taken yet, oldest first
          serving,  \* client whose message the service is working on
          reply     \* reply[c]: answer to c's blocking call, or NoReply

ipcVars == <<phase, handles, queue, serving, reply>>

Phases == {"idle", "connect", "call", "close"}

NoReply == [status |-> "none", out |-> <<>>]

\* A message without payload: PSA_IPC_CONNECT and PSA_IPC_DISCONNECT.
Bare(c, t) == [client |-> c, type |-> t, in_vec |-> <<>>, out_size |-> 0]

IpcInit == /\ phase = [c \in Clients |-> "idle"]
           /\ handles = {}
           /\ queue = <<>>
           /\ serving = NoClient
           /\ reply = [c \in Clients |-> NoReply]

\* The invariant part of the type that does not depend on the service.
IpcTypeOK(Messages, Replies) ==
    /\ phase \in [Clients -> Phases]
    /\ handles \in SUBSET Clients
    /\ queue \in Seq(Messages)
    /\ serving \in Clients \cup {NoClient}
    /\ reply \in [Clients -> Replies \cup {NoReply}]

-----------------------------------------------------------------------------
(* The client side.  Each operator is one blocking call being issued; the  *)
(* ones that follow another call wait for its answer.                      *)

\* psa_connect returns a handle <= 0 when the SPM has none left, which the
\* clients of its other services may bring about at any time.
ConnectRefused(c) == phase[c] = "idle"

PsaConnect(c) ==
    /\ phase[c] = "idle"
    /\ Cardinality(handles) < MaxHandles
    /\ phase' = [phase EXCEPT ![c] = "connect"]
    /\ handles' = handles \cup {c}
    /\ queue' = Append(queue, Bare(c, "PSA_IPC_CONNECT"))
    /\ UNCHANGED <<serving, reply>>

PsaCall(c, type, in_vec, out_size) ==
    /\ phase[c] = "connect"
    /\ reply[c] # NoReply
    /\ phase' = [phase EXCEPT ![c] = "call"]
    /\ reply' = [reply EXCEPT ![c] = NoReply]
    /\ queue' = Append(queue, [client |-> c, type |-> type,
                               in_vec |-> in_vec, out_size |-> out_size])
    /\ UNCHANGED <<handles, serving>>

PsaClose(c) ==
    /\ phase[c] = "call"
    /\ reply[c] # NoReply
    /\ phase' = [phase EXCEPT ![c] = "close"]
    /\ reply' = [reply EXCEPT ![c] = NoReply]
    /\ queue' = Append(queue, Bare(c, "PSA_IPC_DISCONNECT"))
    /\ UNCHANGED <<handles, serving>>

\* psa_close returns once the service has answered the disconnection.
PsaClosed(c) ==
    /\ phase[c] = "close"
    /\ reply[c] # NoReply
    /\ phase' = [phase EXCEPT ![c] = "idle"]
    /\ handles' = handles \ {c}
    /\ reply' = [reply EXCEPT ![c] = NoReply]
    /\ UNCHANGED <<queue, serving>>

-----------------------------------------------------------------------------
(* The service side.                                                       *)

\* psa_wait and psa_get: block until there is a message, take the oldest.
PsaGet ==
    /\ queue # <<>>
    /\ serving' = Head(queue).client
    /\ queue' = Tail(queue)
    /\ UNCHANGED <<phase, handles, reply>>

\* psa_reply, with what psa_write has put in the client's output vector.
PsaReply(c, status, out) ==
    /\ reply' = [reply EXCEPT ![c] = [status |-> status, out |-> out]]
    /\ serving' = NoClient
    /\ UNCHANGED <<phase, handles, queue>>

-----------------------------------------------------------------------------
Queued(c) == \E i \in 1..Len(queue) : queue[i].client = c

\* A client blocked in a PSA call has exactly one of: a message waiting, a
\* message in service, an answer; an idle client has none of them, and a
\* client never has two messages waiting.  No path of a service may answer a
\* message twice, or drop one.
OneAnswer ==
    /\ \A i, j \in 1..Len(queue) : queue[i].client = queue[j].client => i = j
    /\ \A c \in Clients :
          /\ Queued(c) => serving # c /\ reply[c] = NoReply
          /\ serving = c => reply[c] = NoReply
          /\ phase[c] = "idle" <=> /\ ~Queued(c)
                                   /\ serving # c
                                   /\ reply[c] = NoReply

\* A connection is open exactly while its client is inside an API function:
\* no return path of the client API leaves one open.
HandlesBalanced ==
    /\ handles = {c \in Clients : phase[c] # "idle"}
    /\ Cardinality(handles) <= MaxHandles
=============================================================================
