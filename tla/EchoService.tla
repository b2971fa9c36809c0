---------------------------- MODULE EchoService -----------------------------
(***************************************************************************)
(* The echo partition, partitions/echo_service/echo_service.c, and its     *)
(* client function tfm_echo_service, interface/src/tfm_echo_api.c.  The    *)
(* partition's two buffers live across messages, so what one client sent   *)
(* is still there when the next one is served.                             *)
(***************************************************************************)
EXTENDS PsaIpc

CONSTANTS MaxData,      \* TFM_ECHO_MAX_DATA_SIZE, 256 on both sides
          Octet,        \* byte values
          Junk,         \* what an output buffer holds before the call
          ApiArgs,      \* [data, out_len] pairs tfm_echo_service is called with
          DirectArgs    \* the same for programs that make the PSA call themselves

Arguments == [data : Seq(Octet), out_len : Nat]

ASSUME EchoConstants ==
    /\ MaxData \in Nat
    /\ Junk \notin Octet
    /\ ApiArgs \subseteq Arguments /\ DirectArgs \subseteq Arguments

VARIABLES spc, msg,
          input_buffer, output_buffer,   \* of echo_service_entry
          arg,    \* arg[c]: what c's function was called with, api or direct
          res,    \* res[c]: status and output of its PSA call
          ret     \* ret[c]: what the function returned, once it has

partVars == <<spc, msg, input_buffer, output_buffer>>
apiVars == <<arg, res, ret>>
vars == <<ipcVars, partVars, apiVars>>

MessageTypes == {"PSA_IPC_CONNECT", "PSA_IPC_CALL", "PSA_IPC_DISCONNECT", "other"}
Messages == [client : Clients, type : MessageTypes, in_vec : Seq(Octet), out_size : Nat]
NoMessage == [client |-> NoClient, type |-> "other", in_vec |-> <<>>, out_size |-> 0]

Statuses == {"PSA_SUCCESS", "PSA_ERROR_INVALID_ARGUMENT", "PSA_ERROR_BUFFER_TOO_SMALL",
             "PSA_ERROR_COMMUNICATION_FAILURE", "PSA_ERROR_NOT_SUPPORTED"}
Replies == [status : Statuses, out : Seq(Octet \cup {Junk})]

Buffers == [1..MaxData -> Octet \cup {Junk}]

-----------------------------------------------------------------------------
(* The partition.                                                          *)

Reply(st, out) ==
    /\ PsaReply(msg.client, st, out)
    /\ spc' = "wait"
    /\ msg' = NoMessage

GetMessage ==
    /\ spc = "wait"
    /\ PsaGet
    /\ msg' = Head(queue)
    /\ spc' = "dispatch"
    /\ UNCHANGED <<input_buffer, output_buffer>>

ServeConnection ==
    /\ spc = "dispatch" /\ msg.type \in {"PSA_IPC_CONNECT", "PSA_IPC_DISCONNECT"}
    /\ Reply("PSA_SUCCESS", <<>>)
    /\ UNCHANGED <<input_buffer, output_buffer>>

ServeUnsupported ==
    /\ spc = "dispatch" /\ msg.type = "other"
    /\ Reply("PSA_ERROR_NOT_SUPPORTED", <<>>)
    /\ UNCHANGED <<input_buffer, output_buffer>>

\* Mutant: data of exactly the limit is turned away.
TooLongOffByOne == Len(msg.in_vec) >= MaxData

TooLong  == Len(msg.in_vec) > MaxData
TooSmall == msg.out_size < Len(msg.in_vec)

EchoRejected ==
    /\ spc = "dispatch" /\ msg.type = "PSA_IPC_CALL"
    /\ \/ TooLong /\ Reply("PSA_ERROR_INVALID_ARGUMENT", <<>>)
       \/ ~TooLong /\ TooSmall /\ Reply("PSA_ERROR_BUFFER_TOO_SMALL", <<>>)
    /\ UNCHANGED <<input_buffer, output_buffer>>

\* n bytes copied to the front of a buffer, the rest of it left alone.
Copy(from, n, to) == [i \in 1..MaxData |-> IF i <= n THEN from[i] ELSE to[i]]

\* Mutant: the short-read branch forgets psa_reply.
ReadFailedUnanswered ==
    /\ spc' = "wait"
    /\ msg' = NoMessage
    /\ UNCHANGED ipcVars

ReadFailed == Reply("PSA_ERROR_COMMUNICATION_FAILURE", <<>>)

\* Mutant: psa_write sends as much of the buffer as the client has room for.
WrittenToRoom(buffer, n) ==
    SubSeq(buffer, 1, IF msg.out_size < MaxData THEN msg.out_size ELSE MaxData)

\* What psa_write sends: the bytes that were read.
Written(buffer, n) == SubSeq(buffer, 1, n)

\* psa_read brings n bytes, all of them unless the read is cut short.
Echo(n) ==
    /\ spc = "dispatch" /\ msg.type = "PSA_IPC_CALL"
    /\ ~TooLong /\ ~TooSmall
    /\ n \in 0..Len(msg.in_vec)
    /\ input_buffer' = Copy(msg.in_vec, n, input_buffer)
    /\ \/ /\ n # Len(msg.in_vec)
          /\ ReadFailed
          /\ UNCHANGED output_buffer
       \/ /\ n = Len(msg.in_vec)
          /\ output_buffer' = Copy(input_buffer', n, output_buffer)
          /\ Reply("PSA_SUCCESS", Written(output_buffer', n))

Partition ==
    /\ \/ GetMessage \/ ServeConnection \/ ServeUnsupported \/ EchoRejected
       \/ \E n \in 0..MaxData : Echo(n)
    /\ UNCHANGED apiVars

-----------------------------------------------------------------------------
(* tfm_echo_service, and direct callers.                                   *)

\* null: one of the three pointers is NULL.
NoArg == [via |-> "none", type |-> "other", null |-> FALSE, data |-> <<>>, out_len |-> 0]
ApiCall(a, null) == [via |-> "api", type |-> "PSA_IPC_CALL", null |-> null,
                     data |-> a.data, out_len |-> a.out_len]
DirectCall(a, type) == [via |-> "direct", type |-> type, null |-> FALSE,
                        data |-> a.data, out_len |-> a.out_len]

NoReturn == [status |-> "none", out_data |-> <<>>, out_size |-> -1]

\* The function's own checks, before it connects.
ApiRejects(a) == a.via = "api" /\ (a.null \/ Len(a.data) > MaxData \/ a.out_len < Len(a.data))

\* The output buffer of a function that has not called the service.
Untouched(n) == [i \in 1..n |-> Junk]

InvokeRejected(c, a) ==
    /\ phase[c] = "idle"
    /\ ApiRejects(a)
    /\ arg' = [arg EXCEPT ![c] = a]
    /\ ret' = [ret EXCEPT ![c] = [status |-> "PSA_ERROR_INVALID_ARGUMENT",
                                  out_data |-> Untouched(a.out_len), out_size |-> -1]]
    /\ UNCHANGED <<ipcVars, res>>

InvokeRefused(c, a) ==
    /\ ConnectRefused(c)
    /\ ~ApiRejects(a)
    /\ arg' = [arg EXCEPT ![c] = a]
    /\ ret' = [ret EXCEPT ![c] = [status |-> "PSA_ERROR_CONNECTION_REFUSED",
                                  out_data |-> Untouched(a.out_len), out_size |-> -1]]
    /\ UNCHANGED <<ipcVars, res>>

Invoke(c, a) ==
    /\ PsaConnect(c)
    /\ ~ApiRejects(a)
    /\ arg' = [arg EXCEPT ![c] = a]
    /\ ret' = [ret EXCEPT ![c] = NoReturn]
    /\ UNCHANGED res

MakeCall(c) ==
    /\ PsaCall(c, arg[c].type, arg[c].data, arg[c].out_len)
    /\ UNCHANGED apiVars

\* psa_call has returned: out_data was written in place, and on success
\* *out_size takes the length the framework reports.
Close(c) ==
    /\ PsaClose(c)
    /\ res' = [res EXCEPT ![c] = reply[c]]
    /\ UNCHANGED <<arg, ret>>

\* Mutant: the size counts a terminating zero byte.
OutSizeWithNul(r) == IF r.status = "PSA_SUCCESS" THEN Len(r.out) + 1 ELSE -1

\* *out_size, -1 standing for "not assigned".
OutSize(r) == IF r.status = "PSA_SUCCESS" THEN Len(r.out) ELSE -1

Return(c) ==
    /\ PsaClosed(c)
    /\ ret' = [ret EXCEPT ![c] =
                 [status   |-> res[c].status,
                  out_data |-> [i \in 1..arg[c].out_len |->
                                  IF i <= Len(res[c].out) THEN res[c].out[i] ELSE Junk],
                  out_size |-> OutSize(res[c])]]
    /\ res' = [res EXCEPT ![c] = NoReply]
    /\ UNCHANGED arg

CallRecords == {ApiCall(a, null) : a \in ApiArgs, null \in BOOLEAN}
                  \cup {DirectCall(a, t) : a \in DirectArgs, t \in {"PSA_IPC_CALL", "other"}}

ClientStep(c) == (MakeCall(c) \/ Close(c) \/ Return(c)) /\ UNCHANGED partVars

Client(c) ==
    \/ ClientStep(c)
    \/ /\ \E a \in CallRecords : Invoke(c, a) \/ InvokeRejected(c, a) \/ InvokeRefused(c, a)
       /\ UNCHANGED partVars

Init == /\ IpcInit
        /\ spc = "wait" /\ msg = NoMessage
        /\ input_buffer = [i \in 1..MaxData |-> Junk]
        /\ output_buffer = [i \in 1..MaxData |-> Junk]
        /\ arg = [c \in Clients |-> NoArg]
        /\ res = [c \in Clients |-> NoReply]
        /\ ret = [c \in Clients |-> NoReturn]

Next == Partition \/ \E c \in Clients : Client(c)

\* The partition's thread keeps running, and a client that is inside the API
\* function goes on when its blocking call returns.
Fairness == WF_vars(Partition) /\ \A c \in Clients : WF_vars(ClientStep(c))

Spec == Init /\ [][Next]_vars
FairSpec == Spec /\ Fairness

-----------------------------------------------------------------------------
TypeOK ==
    /\ IpcTypeOK(Messages, Replies)
    /\ spc \in {"wait", "dispatch"} /\ msg \in Messages \cup {NoMessage}
    /\ input_buffer \in Buffers /\ output_buffer \in Buffers
    /\ arg \in [Clients -> CallRecords \cup {NoArg}]
    /\ res \in [Clients -> Replies \cup {NoReply}]
    /\ \A c \in Clients : /\ ret[c].out_data \in Seq(Octet \cup {Junk})
                          /\ ret[c].out_size \in -1..MaxData

\* A call that succeeds returns exactly the caller's own bytes, says how many
\* they are, and leaves the rest of the output buffer alone; one that fails
\* writes nothing: never bytes another client left in the partition's buffers.
EchoIntact ==
    \A c \in Clients : ret[c] # NoReturn =>
        LET a == arg[c]  n == Len(a.data)
        IN  IF ret[c].status = "PSA_SUCCESS"
            THEN /\ ret[c].out_size = n
                 /\ ret[c].out_data = a.data \o Untouched(a.out_len - n)
            ELSE ret[c].out_size = -1 /\ ret[c].out_data = Untouched(a.out_len)

\* The checks of tfm_echo_service are those of the partition, boundary
\* included: what it lets through the partition never rejects for its size,
\* and what fits is not turned away.
SidesAgree ==
    \A c \in Clients : ret[c] # NoReturn /\ arg[c].via = "api" =>
        /\ ret[c].status \notin {"PSA_ERROR_BUFFER_TOO_SMALL", "PSA_ERROR_NOT_SUPPORTED"}
        /\ ret[c].status = "PSA_ERROR_INVALID_ARGUMENT" <=>
              \/ arg[c].null
              \/ Len(arg[c].data) > MaxData
              \/ arg[c].out_len < Len(arg[c].data)

\* Every call of tfm_echo_service returns.
EveryEchoReturns == \A c \in Clients : phase[c] # "idle" ~> phase[c] = "idle"
=============================================================================
