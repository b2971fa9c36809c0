---------------------------- MODULE EchoProofs ------------------------------
(***************************************************************************)
(* The echo partition and its client function, for any number of clients,  *)
(* any limit on the data and any data.                                     *)
(***************************************************************************)
EXTENDS EchoService, TLAPS

\* The service has no message in hand.
Free == serving = NoClient

\* The message a blocked client has sent.
MessageOf(c) ==
    IF phase[c] = "connect" THEN Bare(c, "PSA_IPC_CONNECT")
    ELSE IF phase[c] = "call"
         THEN [client |-> c, type |-> arg[c].type, in_vec |-> arg[c].data, out_size |-> arg[c].out_len]
         ELSE Bare(c, "PSA_IPC_DISCONNECT")

\* What is in the queue or in hand is what its client has sent.
MessagesInv ==
    /\ IF spc = "wait" THEN Free ELSE serving \in Clients
    /\ \A c \in Clients :
          /\ \A i \in 1..Len(queue) : queue[i].client = c => queue[i] = MessageOf(c)
          /\ spc # "wait" /\ serving = c => msg = MessageOf(c)

\* A right answer to a call with argument a: all of the data, or nothing; and
\* what the API function has checked is not rejected.
RightAnswer(a, r) ==
    /\ r \in Replies
    /\ IF r.status = "PSA_SUCCESS"
       THEN r.out = a.data /\ Len(a.data) <= MaxData /\ Len(a.data) <= a.out_len
       ELSE r.out = <<>>
    /\ a.via = "api" => r.status \notin {"PSA_ERROR_BUFFER_TOO_SMALL", "PSA_ERROR_NOT_SUPPORTED",
                                         "PSA_ERROR_INVALID_ARGUMENT"}

\* A client inside a call was let through by the function's checks, and what it
\* has been answered is right.
AnswersInv ==
    \A c \in Clients :
        /\ phase[c] # "idle" => /\ arg[c] \in CallRecords /\ ~ApiRejects(arg[c])
                                /\ ret[c] = NoReturn
        /\ phase[c] = "call" /\ reply[c] # NoReply => RightAnswer(arg[c], reply[c])
        /\ phase[c] = "close" => RightAnswer(arg[c], res[c])

ReturnsInv == EchoIntact /\ SidesAgree /\ ret = [c \in Clients |-> ret[c]]

EchoInv == TypeOK /\ OneAnswer /\ MessagesInv /\ AnswersInv /\ ReturnsInv

-----------------------------------------------------------------------------
(* Types of the operators.                                                 *)

LEMMA RecordsType ==
    ASSUME NEW a \in CallRecords
    PROVE  /\ a.via \in {"api", "direct"} /\ a.type \in {"PSA_IPC_CALL", "other"}
           /\ a.via = "api" => a.type = "PSA_IPC_CALL"
           /\ a.data \in Seq(Octet) /\ a.out_len \in Nat
<1>1. ASSUME NEW b \in ApiArgs, NEW null \in BOOLEAN, a = ApiCall(b, null)
      PROVE  a.via = "api" /\ a.type = "PSA_IPC_CALL" /\ a.data \in Seq(Octet) /\ a.out_len \in Nat
  BY <1>1, EchoConstants DEF ApiCall, Arguments
<1>2. ASSUME NEW b \in DirectArgs, NEW t \in {"PSA_IPC_CALL", "other"}, a = DirectCall(b, t)
      PROVE  a.via = "direct" /\ a.type = t /\ a.data \in Seq(Octet) /\ a.out_len \in Nat
  BY <1>2, EchoConstants DEF DirectCall, Arguments
<1> QED BY <1>1, <1>2 DEF CallRecords

LEMMA NoReplyNotReply == NoReply \notin Replies
BY DEF NoReply, Replies, Statuses

LEMMA BareType ==
    ASSUME NEW c \in Clients, NEW t \in {"PSA_IPC_CONNECT", "PSA_IPC_DISCONNECT"}
    PROVE  Bare(c, t) \in Messages
BY DEF Bare, Messages, MessageTypes

LEMMA UntouchedType ==
    ASSUME NEW n \in Nat
    PROVE  Untouched(n) \in Seq(Octet \cup {Junk}) /\ Len(Untouched(n)) = n
BY DEF Untouched

\* Copying into a buffer keeps it one.
LEMMA CopyType ==
    ASSUME NEW to \in Buffers, NEW n \in Nat, n <= MaxData, NEW from,
           \A i \in 1..n : from[i] \in Octet \cup {Junk}
    PROVE  Copy(from, n, to) \in Buffers
BY EchoConstants DEF Copy, Buffers

\* What is read into one buffer, copied to the other and written from there is
\* what the client sent, whatever the two held before.
LEMMA RoundTripOfBytes ==
    ASSUME NEW data \in Seq(Octet), Len(data) <= MaxData, NEW in, NEW out
    PROVE  Written(Copy(Copy(data, Len(data), in), Len(data), out), Len(data)) = data
<1> DEFINE n == Len(data)
           first == Copy(data, n, in)
           second == Copy(first, n, out)
<1>1. n \in Nat /\ n <= MaxData /\ MaxData \in Nat
  BY EchoConstants
<1>2. \A i \in 1..n : first[i] = data[i]
  BY <1>1 DEF Copy
<1>3. \A i \in 1..n : second[i] = data[i]
  BY <1>1, <1>2 DEF Copy
<1>4. Written(second, n) = [i \in 1..n |-> second[i]]
  BY <1>1 DEF Written, SubSeq
<1> HIDE DEF second
<1>5. [i \in 1..n |-> second[i]] = data
  BY <1>3
<1> QED BY <1>4, <1>5 DEF second

-----------------------------------------------------------------------------
(* What each PSA call does to OneAnswer.                                   *)

LEMMA OnceInit == IpcInit => OneAnswer
BY IpcConstants DEF IpcInit, OneAnswer, Queued

\* A message at the end of the queue: whose messages are waiting.
LEMMA QueuedAppend ==
    ASSUME NEW M, queue \in Seq(M), NEW m, queue' = Append(queue, m)
    PROVE  \A c : Queued(c)' <=> (Queued(c) \/ m.client = c)
<1>1. Len(queue') = Len(queue) + 1 /\ Len(queue) \in Nat /\ queue'[Len(queue) + 1] = m
  OBVIOUS
<1>2. \A i \in 1..Len(queue) : queue'[i] = queue[i]
  OBVIOUS
<1> SUFFICES ASSUME NEW c PROVE Queued(c)' <=> (Queued(c) \/ m.client = c)
  OBVIOUS
<1>3. Queued(c)' => Queued(c) \/ m.client = c
  <2> SUFFICES ASSUME NEW i \in 1..Len(queue'), queue'[i].client = c
               PROVE  Queued(c) \/ m.client = c
    BY DEF Queued
  <2>1. i \in 1..Len(queue) \/ i = Len(queue) + 1
    BY <1>1
  <2> QED BY <1>1, <1>2, <2>1 DEF Queued
<1>4. Queued(c) => Queued(c)'
  BY <1>1, <1>2 DEF Queued
<1>5. m.client = c => Queued(c)'
  BY <1>1 DEF Queued
<1> QED BY <1>3, <1>4, <1>5

\* A client without a message in the queue may put one there.
LEMMA OnceAppend ==
    ASSUME NEW M, queue \in Seq(M), OneAnswer, NEW m, queue' = Append(queue, m),
           ~Queued(m.client)
    PROVE  \A i, j \in 1..Len(queue') : queue'[i].client = queue'[j].client => i = j
<1>1. Len(queue') = Len(queue) + 1 /\ Len(queue) \in Nat /\ queue'[Len(queue) + 1] = m
  OBVIOUS
<1>2. \A i \in 1..Len(queue) : queue'[i] = queue[i] /\ queue[i].client # m.client
  BY DEF Queued
<1>3. \A i \in 1..Len(queue') : i \in 1..Len(queue) \/ i = Len(queue) + 1
  BY <1>1
<1> QED BY <1>1, <1>2, <1>3 DEF OneAnswer

LEMMA ConnectOnce ==
    ASSUME queue \in Seq(Messages), phase \in [Clients -> Phases], OneAnswer,
           NEW c \in Clients, PsaConnect(c)
    PROVE  OneAnswer'
<1> USE DEF PsaConnect
<1>1. Bare(c, "PSA_IPC_CONNECT").client = c
  BY DEF Bare
<1>2. ~Queued(c) /\ serving # c /\ reply[c] = NoReply
  BY DEF OneAnswer
<1>3. \A i, j \in 1..Len(queue') : queue'[i].client = queue'[j].client => i = j
  BY <1>1, <1>2, OnceAppend
<1>4. \A d : Queued(d)' <=> (Queued(d) \/ d = c)
  BY <1>1, QueuedAppend
<1> QED BY <1>2, <1>3, <1>4 DEF OneAnswer, Phases

\* Issuing the next call: the answer of the one before is consumed.
LEMMA NextCallOnce ==
    ASSUME IpcTypeOK(Messages, Replies), OneAnswer, NEW c \in Clients, NEW m, m.client = c,
           NEW p \in {"call", "close"}, phase[c] # "idle", reply[c] # NoReply,
           phase' = [phase EXCEPT ![c] = p], reply' = [reply EXCEPT ![c] = NoReply],
           queue' = Append(queue, m), serving' = serving
    PROVE  OneAnswer'
<1>1. /\ queue \in Seq(Messages) /\ phase \in [Clients -> Phases]
      /\ reply \in [Clients -> Replies \cup {NoReply}]
  BY DEF IpcTypeOK
<1>2. ~Queued(c) /\ serving # c
  BY DEF OneAnswer
<1>3. \A i, j \in 1..Len(queue') : queue'[i].client = queue'[j].client => i = j
  BY <1>1, <1>2, OnceAppend
<1>4. \A d : Queued(d)' <=> (Queued(d) \/ d = c)
  BY <1>1, QueuedAppend
<1> QED BY <1>1, <1>2, <1>3, <1>4 DEF OneAnswer

LEMMA ClosedOnce ==
    ASSUME IpcTypeOK(Messages, Replies), OneAnswer, NEW c \in Clients, PsaClosed(c)
    PROVE  OneAnswer'
<1> USE DEF PsaClosed
<1>1. phase \in [Clients -> Phases] /\ reply \in [Clients -> Replies \cup {NoReply}]
  BY DEF IpcTypeOK
<1>2. ~Queued(c) /\ serving # c /\ \A d : Queued(d)' <=> Queued(d)
  BY DEF OneAnswer, Queued
<1> QED BY <1>1, <1>2 DEF OneAnswer

\* The service takes a message when it has none: its client waits no longer in
\* the queue.
LEMMA GetOnce ==
    ASSUME queue \in Seq(Messages), OneAnswer, Free, PsaGet
    PROVE  OneAnswer' /\ serving' \in Clients
<1> USE DEF PsaGet, Free
<1>1. queue \in Seq(Messages) /\ queue # <<>> /\ Head(queue) \in Messages
  OBVIOUS
<1>2. PICK h \in Clients : h = Head(queue).client /\ serving' = h
  BY <1>1 DEF Messages
<1>3. /\ Len(queue') = Len(queue) - 1 /\ Len(queue) \in Nat \ {0}
      /\ \A i \in 1..Len(queue') : i + 1 \in 1..Len(queue) /\ queue'[i] = queue[i + 1]
      /\ queue[1].client = h
  BY <1>1, <1>2
<1>4. \A i, j \in 1..Len(queue') : queue'[i].client = queue'[j].client => i = j
  BY <1>3 DEF OneAnswer
<1>5. Queued(h)
  BY <1>3 DEF Queued
<1>6. ~Queued(h)'
  <2> SUFFICES ASSUME NEW i \in 1..Len(queue'), queue'[i].client = h PROVE FALSE
    BY DEF Queued
  <2>1. 1 \in 1..Len(queue) /\ i + 1 \in 1..Len(queue) /\ queue[i + 1].client = queue[1].client
    BY <1>3
  <2>2. i + 1 = 1
    BY <2>1 DEF OneAnswer
  <2> QED BY <2>2
<1>7. \A d : d # h => (Queued(d)' <=> Queued(d))
  <2> SUFFICES ASSUME NEW d, d # h PROVE Queued(d)' <=> Queued(d)
    OBVIOUS
  <2>1. Queued(d)' => Queued(d)
    BY <1>3 DEF Queued
  <2>2. ASSUME NEW i \in 1..Len(queue), queue[i].client = d PROVE Queued(d)'
    <3>1. i # 1 /\ i - 1 \in 1..Len(queue')
      BY <1>3, <2>2
    <3>2. queue'[i - 1] = queue[i]
      BY <1>3, <3>1
    <3> QED BY <2>2, <3>1, <3>2 DEF Queued
  <2> QED BY <2>1, <2>2 DEF Queued
<1>8. \A d \in Clients : serving # d
  BY IpcConstants
<1>9. OneAnswer'
  BY <1>2, <1>4, <1>5, <1>6, <1>7, <1>8 DEF OneAnswer
<1> QED BY <1>2, <1>9

\* The service answers the message it has in hand.
LEMMA ReplyOnce ==
    ASSUME IpcTypeOK(Messages, Replies), OneAnswer,
           NEW st, NEW out, [status |-> st, out |-> out] # NoReply,
           serving \in Clients, PsaReply(serving, st, out)
    PROVE  OneAnswer' /\ Free'
<1> USE DEF PsaReply
<1>1. reply \in [Clients -> Replies \cup {NoReply}]
  BY DEF IpcTypeOK
<1>2. \A d : Queued(d)' <=> Queued(d)
  BY DEF Queued
<1>3. reply'[serving] # NoReply /\ ~Queued(serving) /\ phase[serving] # "idle"
  BY <1>1 DEF OneAnswer
<1>4. \A d \in Clients : d # serving => reply'[d] = reply[d]
  BY <1>1
<1>5. \A d \in Clients : serving' # d
  BY IpcConstants
<1>6. OneAnswer'
  BY <1>2, <1>3, <1>4, <1>5 DEF OneAnswer
<1> QED BY <1>6 DEF Free

-----------------------------------------------------------------------------
LEMMA InitInv == Init => EchoInv
<1> SUFFICES ASSUME Init PROVE EchoInv
  OBVIOUS
<1> USE DEF Init
<1>1. OneAnswer
  BY OnceInit
<1>2. IpcTypeOK(Messages, Replies)
  BY DEF IpcInit, IpcTypeOK, Phases
<1>3. \A c \in Clients : ret[c].out_data \in Seq(Octet \cup {Junk}) /\ ret[c].out_size \in -1..MaxData
  <2>1. NoReturn.out_data \in Seq(Octet \cup {Junk}) /\ NoReturn.out_size \in -1..MaxData
    BY EchoConstants DEF NoReturn
  <2> QED BY <2>1
<1>4. TypeOK
  BY <1>2, <1>3 DEF TypeOK, Buffers
<1>5. MessagesInv /\ AnswersInv
  BY DEF IpcInit, MessagesInv, Free, AnswersInv
<1>6. ReturnsInv
  BY DEF ReturnsInv, EchoIntact, SidesAgree
<1> QED BY <1>1, <1>4, <1>5, <1>6 DEF EchoInv

LEMMA Linked ==
    ASSUME EchoInv, spc = "dispatch"
    PROVE  /\ serving \in Clients /\ msg.client = serving /\ msg = MessageOf(serving)
           /\ msg \in Messages
           /\ phase[serving] \in {"connect", "call", "close"}
           /\ reply[serving] = NoReply
<1>1. serving \in Clients /\ msg = MessageOf(serving)
  BY DEF EchoInv, MessagesInv
<1>2. msg.client = serving
  BY <1>1 DEF MessageOf, Bare
<1>3. phase[serving] # "idle" /\ phase[serving] \in Phases /\ reply[serving] = NoReply
  BY <1>1 DEF EchoInv, TypeOK, IpcTypeOK, OneAnswer
<1>4. msg # NoMessage
  BY <1>1, <1>2, IpcConstants DEF NoMessage
<1> QED BY <1>1, <1>2, <1>3, <1>4 DEF EchoInv, TypeOK, Phases

\* The answer to a message: if it is a call's, it has to be a right one.
LEMMA ReplyKeepsInv ==
    ASSUME EchoInv, spc = "dispatch", NEW st \in Statuses, NEW out \in Seq(Octet \cup {Junk}),
           Reply(st, out), UNCHANGED apiVars,
           input_buffer' \in Buffers, output_buffer' \in Buffers,
           phase[serving] = "call" => RightAnswer(arg[serving], [status |-> st, out |-> out])
    PROVE  EchoInv'
<1>1. serving \in Clients /\ msg.client = serving
  BY Linked
<1>2. PsaReply(serving, st, out) /\ spc' = "wait" /\ msg' = NoMessage
  BY <1>1 DEF Reply
<1>3. [status |-> st, out |-> out] \in Replies /\ [status |-> st, out |-> out] # NoReply
  BY NoReplyNotReply DEF Replies
<1>4. IpcTypeOK(Messages, Replies)
  BY DEF EchoInv, TypeOK
<1>5. OneAnswer' /\ Free'
  BY <1>1, <1>2, <1>3, <1>4, ReplyOnce DEF EchoInv
<1>6. IpcTypeOK(Messages, Replies)'
  BY <1>1, <1>2, <1>3, <1>4 DEF IpcTypeOK, PsaReply
<1>7. TypeOK'
  BY <1>2, <1>6 DEF EchoInv, TypeOK, apiVars
<1>8. MessagesInv'
  BY <1>2, <1>5 DEF EchoInv, MessagesInv, MessageOf, PsaReply, apiVars
<1>9. AnswersInv'
  BY <1>1, <1>2, <1>4 DEF EchoInv, AnswersInv, PsaReply, apiVars, IpcTypeOK
<1>10. ReturnsInv'
  BY DEF EchoInv, ReturnsInv, EchoIntact, SidesAgree, apiVars
<1> QED BY <1>5, <1>7, <1>8, <1>9, <1>10 DEF EchoInv

-----------------------------------------------------------------------------
(* The steps of the partition.                                             *)

LEMMA GetMessageKeepsInv ==
    ASSUME EchoInv, GetMessage, UNCHANGED apiVars
    PROVE  EchoInv'
<1>1. IpcTypeOK(Messages, Replies)
  BY DEF EchoInv, TypeOK
<1>2. Free /\ PsaGet /\ msg' = Head(queue) /\ spc' = "dispatch" /\ UNCHANGED <<input_buffer, output_buffer>>
  BY DEF EchoInv, MessagesInv, GetMessage
<1>3. OneAnswer' /\ serving' \in Clients
  BY <1>1, <1>2, GetOnce DEF EchoInv, IpcTypeOK
<1>4. queue \in Seq(Messages) /\ queue # <<>> /\ queue' = Tail(queue) /\ serving' = Head(queue).client
      /\ UNCHANGED <<phase, handles, reply>>
  BY <1>1, <1>2 DEF IpcTypeOK, PsaGet
<1>5. IpcTypeOK(Messages, Replies)' /\ Head(queue) \in Messages
  BY <1>1, <1>3, <1>4 DEF IpcTypeOK
<1>6. TypeOK'
  BY <1>2, <1>5 DEF EchoInv, TypeOK, apiVars
<1>7. /\ Head(queue) = queue[1] /\ 1 \in 1..Len(queue)
      /\ \A i \in 1..Len(queue') : queue'[i] = queue[i + 1] /\ i + 1 \in 1..Len(queue)
  BY <1>4
<1>8. \A c : MessageOf(c)' = MessageOf(c)
  BY <1>4 DEF MessageOf, apiVars
<1>9. MessagesInv'
  <2>1. ASSUME NEW c \in Clients, NEW i \in 1..Len(queue'), queue'[i].client = c
        PROVE  queue'[i] = MessageOf(c)'
    BY <1>7, <1>8, <2>1 DEF EchoInv, MessagesInv
  <2>2. ASSUME NEW c \in Clients, serving' = c PROVE msg' = MessageOf(c)'
    BY <1>2, <1>4, <1>7, <1>8, <2>2 DEF EchoInv, MessagesInv
  <2> QED BY <1>2, <1>3, <2>1, <2>2 DEF MessagesInv
<1>10. AnswersInv' /\ ReturnsInv'
  BY <1>4 DEF EchoInv, AnswersInv, ReturnsInv, EchoIntact, SidesAgree, apiVars
<1> QED BY <1>3, <1>6, <1>9, <1>10 DEF EchoInv

\* A message of type PSA_IPC_CALL, or of no type the service knows, is a call.
LEMMA InCall ==
    ASSUME EchoInv, spc = "dispatch", msg.type \in {"PSA_IPC_CALL", "other"}
    PROVE  /\ phase[serving] = "call" /\ arg[serving] \in CallRecords
           /\ msg.type = arg[serving].type /\ msg.in_vec = arg[serving].data
           /\ msg.out_size = arg[serving].out_len
           /\ ~ApiRejects(arg[serving])
<1>1. serving \in Clients /\ msg = MessageOf(serving) /\ phase[serving] \in {"connect", "call", "close"}
  BY Linked
<1>2. phase[serving] = "call"
  BY <1>1 DEF MessageOf, Bare
<1>3. arg[serving] \in CallRecords /\ ~ApiRejects(arg[serving])
  BY <1>1, <1>2 DEF EchoInv, AnswersInv
<1> QED BY <1>1, <1>2, <1>3 DEF MessageOf

LEMMA PartitionKeepsInv ==
    ASSUME EchoInv, Partition
    PROVE  EchoInv'
<1> USE DEF Partition
<1>0. /\ input_buffer \in Buffers /\ output_buffer \in Buffers
      /\ <<>> \in Seq(Octet \cup {Junk})
  BY DEF EchoInv, TypeOK
<1>1. CASE GetMessage
  BY <1>1, GetMessageKeepsInv
<1>2. CASE ServeConnection
  <2>1. phase[serving] # "call"
    <3>1. serving \in Clients /\ msg = MessageOf(serving)
      BY <1>2, Linked DEF ServeConnection
    <3>2. phase[serving] = "call" => arg[serving] \in CallRecords
      BY <3>1 DEF EchoInv, AnswersInv
    <3> QED BY <1>2, <3>1, <3>2, RecordsType DEF ServeConnection, MessageOf
  <2>2. "PSA_SUCCESS" \in Statuses
    BY DEF Statuses
  <2> QED BY <1>0, <1>2, <2>1, <2>2, ReplyKeepsInv DEF ServeConnection
<1>3. CASE ServeUnsupported
  <2>1. spc = "dispatch" /\ msg.type = "other" /\ Reply("PSA_ERROR_NOT_SUPPORTED", <<>>)
        /\ UNCHANGED <<input_buffer, output_buffer>>
    BY <1>3 DEF ServeUnsupported
  <2>2. arg[serving] \in CallRecords /\ arg[serving].type = "other"
    BY <2>1, InCall
  <2>3. arg[serving].via # "api"
    BY <2>2, RecordsType
  <2>4. "PSA_ERROR_NOT_SUPPORTED" \in Statuses
    BY DEF Statuses
  <2>5. RightAnswer(arg[serving], [status |-> "PSA_ERROR_NOT_SUPPORTED", out |-> <<>>])
    BY <1>0, <2>3, <2>4 DEF RightAnswer, Replies
  <2> QED BY <1>0, <2>1, <2>4, <2>5, ReplyKeepsInv
<1>4. CASE EchoRejected
  <2>1. PICK st \in {"PSA_ERROR_INVALID_ARGUMENT", "PSA_ERROR_BUFFER_TOO_SMALL"} :
           Reply(st, <<>>) /\ (TooLong \/ TooSmall)
    BY <1>4 DEF EchoRejected
  <2>2. spc = "dispatch" /\ msg.type = "PSA_IPC_CALL" /\ UNCHANGED <<input_buffer, output_buffer>>
    BY <1>4 DEF EchoRejected
  <2>3. arg[serving].via # "api"
    BY <2>1, <2>2, InCall DEF TooLong, TooSmall, ApiRejects
  <2>4. st \in Statuses
    BY DEF Statuses
  <2>5. RightAnswer(arg[serving], [status |-> st, out |-> <<>>])
    BY <1>0, <2>3, <2>4 DEF RightAnswer, Replies
  <2> QED BY <1>0, <2>1, <2>2, <2>4, <2>5, ReplyKeepsInv
<1>5. ASSUME NEW n \in 0..MaxData, Echo(n) PROVE EchoInv'
  <2>1. /\ spc = "dispatch" /\ msg.type = "PSA_IPC_CALL" /\ ~TooLong /\ ~TooSmall
        /\ n \in 0..Len(msg.in_vec) /\ input_buffer' = Copy(msg.in_vec, n, input_buffer)
    BY <1>5 DEF Echo
  <2>2. /\ arg[serving] \in CallRecords /\ msg.in_vec = arg[serving].data
        /\ msg.out_size = arg[serving].out_len
    BY <2>1, InCall
  <2>3. arg[serving].data \in Seq(Octet) /\ arg[serving].out_len \in Nat /\ MaxData \in Nat
    BY <2>2, RecordsType, EchoConstants
  <2>4. Len(msg.in_vec) <= MaxData /\ Len(msg.in_vec) <= msg.out_size /\ n \in Nat /\ n <= MaxData
    BY <2>1, <2>2, <2>3 DEF TooLong, TooSmall
  <2>5. input_buffer' \in Buffers
    BY <1>0, <2>1, <2>2, <2>3, <2>4, CopyType
  <2>6. CASE n # Len(msg.in_vec)
    <3>1. Reply("PSA_ERROR_COMMUNICATION_FAILURE", <<>>) /\ UNCHANGED output_buffer
      BY <1>5, <2>6 DEF Echo, ReadFailed
    <3>2. "PSA_ERROR_COMMUNICATION_FAILURE" \in Statuses
      BY DEF Statuses
    <3>3. RightAnswer(arg[serving], [status |-> "PSA_ERROR_COMMUNICATION_FAILURE", out |-> <<>>])
      BY <1>0, <3>2 DEF RightAnswer, Replies
    <3> QED BY <1>0, <2>1, <2>5, <3>1, <3>2, <3>3, ReplyKeepsInv
  <2>7. CASE n = Len(msg.in_vec)
    <3>1. /\ output_buffer' = Copy(input_buffer', n, output_buffer)
          /\ Reply("PSA_SUCCESS", Written(output_buffer', n))
      BY <1>5, <2>7 DEF Echo
    <3>2. Written(output_buffer', n) = arg[serving].data
      BY <2>1, <2>2, <2>3, <2>4, <2>7, <3>1, RoundTripOfBytes
    <3>3. output_buffer' \in Buffers
      <4>1. \A i \in 1..n : input_buffer'[i] \in Octet \cup {Junk}
        BY <2>3, <2>4, <2>5 DEF Buffers
      <4> QED BY <1>0, <2>4, <3>1, <4>1, CopyType
    <3>4. "PSA_SUCCESS" \in Statuses /\ arg[serving].data \in Seq(Octet \cup {Junk})
      BY <2>3 DEF Statuses
    <3>5. RightAnswer(arg[serving], [status |-> "PSA_SUCCESS", out |-> arg[serving].data])
      BY <2>2, <2>4, <3>4 DEF RightAnswer, Replies
    <3> QED BY <2>1, <2>5, <3>1, <3>2, <3>3, <3>4, <3>5, ReplyKeepsInv
  <2> QED BY <2>6, <2>7
<1> QED BY <1>1, <1>2, <1>3, <1>4, <1>5

-----------------------------------------------------------------------------
(* The steps of the clients.                                               *)

\* A client that sends its next message: the others' messages stay the same.
LEMMA SentMessages ==
    ASSUME EchoInv, NEW c \in Clients, NEW m, queue' = Append(queue, m), m.client = c,
           m = MessageOf(c)', ~Queued(c), serving # c, UNCHANGED <<serving, partVars>>,
           \A d \in Clients : d # c => MessageOf(d)' = MessageOf(d)
    PROVE  MessagesInv'
<1>1. queue \in Seq(Messages)
  BY DEF EchoInv, TypeOK, IpcTypeOK
<1>2. Len(queue') = Len(queue) + 1 /\ Len(queue) \in Nat /\ queue'[Len(queue) + 1] = m
  BY <1>1
<1>3. \A i \in 1..Len(queue) : queue'[i] = queue[i] /\ queue[i].client # c
  BY <1>1 DEF Queued
<1>4. \A i \in 1..Len(queue') : i \in 1..Len(queue) \/ i = Len(queue) + 1
  BY <1>2
<1>5. ASSUME NEW d \in Clients, NEW i \in 1..Len(queue'), queue'[i].client = d
      PROVE  queue'[i] = MessageOf(d)'
  <2>1. CASE i \in 1..Len(queue)
    BY <1>3, <1>5, <2>1 DEF EchoInv, MessagesInv
  <2>2. CASE i = Len(queue) + 1
    BY <1>2, <1>5, <2>2
  <2> QED BY <1>4, <2>1, <2>2
<1>6. ASSUME NEW d \in Clients, spc' # "wait", serving' = d PROVE msg' = MessageOf(d)'
  BY <1>6 DEF EchoInv, MessagesInv, partVars
<1>7. IF spc' = "wait" THEN Free' ELSE serving' \in Clients
  BY DEF EchoInv, MessagesInv, partVars, Free
<1> QED BY <1>5, <1>6, <1>7 DEF MessagesInv

LEMMA InvokeKeepsInv ==
    ASSUME EchoInv, NEW c \in Clients, NEW a \in CallRecords, Invoke(c, a), UNCHANGED partVars
    PROVE  EchoInv'
<1> USE DEF Invoke
<1>1. /\ IpcTypeOK(Messages, Replies) /\ PsaConnect(c) /\ phase[c] = "idle" /\ ~ApiRejects(a)
      /\ arg' = [arg EXCEPT ![c] = a] /\ ret' = [ret EXCEPT ![c] = NoReturn] /\ res' = res
  BY DEF EchoInv, TypeOK, PsaConnect
<1>2. arg \in [Clients -> CallRecords \cup {NoArg}] /\ phase \in [Clients -> Phases]
  BY DEF EchoInv, TypeOK, IpcTypeOK
<1>3. /\ phase'[c] = "connect" /\ arg'[c] = a
      /\ \A d \in Clients : d # c => phase'[d] = phase[d] /\ arg'[d] = arg[d]
  BY <1>1, <1>2 DEF PsaConnect
<1>4. ret' = [d \in Clients |-> ret'[d]] /\ \A d \in Clients : ret'[d] = IF d = c THEN NoReturn ELSE ret[d]
  BY <1>1 DEF EchoInv, ReturnsInv
<1>5. OneAnswer'
  BY <1>1, ConnectOnce DEF EchoInv, TypeOK, IpcTypeOK
<1>6. IpcTypeOK(Messages, Replies)'
  BY <1>1, BareType DEF IpcTypeOK, PsaConnect, Phases
<1>7. TypeOK'
  <2>1. NoReturn.out_data \in Seq(Octet \cup {Junk}) /\ NoReturn.out_size \in -1..MaxData
    BY EchoConstants DEF NoReturn
  <2> QED BY <1>1, <1>2, <1>4, <1>6, <2>1 DEF EchoInv, TypeOK, partVars
<1>8. MessagesInv'
  <2>1. ~Queued(c) /\ serving # c
    BY <1>1 DEF EchoInv, OneAnswer
  <2>2. Bare(c, "PSA_IPC_CONNECT").client = c /\ Bare(c, "PSA_IPC_CONNECT") = MessageOf(c)'
    BY <1>3 DEF Bare, MessageOf
  <2>3. \A d \in Clients : d # c => MessageOf(d)' = MessageOf(d)
    BY <1>3 DEF MessageOf
  <2> QED BY <1>1, <2>1, <2>2, <2>3, SentMessages DEF PsaConnect
<1>9. AnswersInv'
  BY <1>1, <1>3, <1>4 DEF EchoInv, AnswersInv, PsaConnect
<1>10. ReturnsInv'
  <2>1. EchoIntact'
    BY <1>3, <1>4 DEF EchoInv, ReturnsInv, EchoIntact
  <2>2. SidesAgree'
    BY <1>3, <1>4 DEF EchoInv, ReturnsInv, SidesAgree
  <2> QED BY <1>4, <2>1, <2>2 DEF ReturnsInv
<1> QED BY <1>5, <1>7, <1>8, <1>9, <1>10 DEF EchoInv

\* A function that returns before it has connected: its status is a rejection
\* for a reason, or the refusal.
LEMMA EarlyReturnKeepsInv ==
    ASSUME EchoInv, NEW c \in Clients, NEW a \in CallRecords, UNCHANGED partVars,
           InvokeRejected(c, a) \/ InvokeRefused(c, a)
    PROVE  EchoInv'
<1>1. PICK st \in {"PSA_ERROR_INVALID_ARGUMENT", "PSA_ERROR_CONNECTION_REFUSED"} :
         /\ ret' = [ret EXCEPT ![c] = [status |-> st, out_data |-> Untouched(a.out_len), out_size |-> -1]]
         /\ IF st = "PSA_ERROR_INVALID_ARGUMENT" THEN ApiRejects(a) ELSE ~ApiRejects(a)
  BY DEF InvokeRejected, InvokeRefused
<1>2. /\ phase[c] = "idle" /\ arg' = [arg EXCEPT ![c] = a] /\ UNCHANGED <<ipcVars, res>>
  BY DEF InvokeRejected, InvokeRefused, ConnectRefused
<1> DEFINE r == [status |-> st, out_data |-> Untouched(a.out_len), out_size |-> -1]
<1>3. /\ arg'[c] = a /\ \A d \in Clients : d # c => arg'[d] = arg[d]
      /\ arg' \in [Clients -> CallRecords \cup {NoArg}]
  BY <1>2 DEF EchoInv, TypeOK
<1>4. ret' = [d \in Clients |-> ret'[d]] /\ \A d \in Clients : ret'[d] = IF d = c THEN r ELSE ret[d]
  BY <1>1 DEF EchoInv, ReturnsInv
<1>5. OneAnswer'
  BY <1>2 DEF EchoInv, OneAnswer, Queued, ipcVars
<1>6. TypeOK'
  <2>1. r.out_data \in Seq(Octet \cup {Junk}) /\ r.out_size \in -1..MaxData
    BY UntouchedType, RecordsType, EchoConstants
  <2>2. IpcTypeOK(Messages, Replies)'
    BY <1>2 DEF EchoInv, TypeOK, IpcTypeOK, ipcVars
  <2> HIDE DEF r
  <2> QED BY <1>2, <1>3, <1>4, <2>1, <2>2 DEF EchoInv, TypeOK, partVars
<1>7. MessagesInv'
  <2>1. \A d \in Clients : d # c => MessageOf(d)' = MessageOf(d)
    BY <1>2, <1>3 DEF MessageOf, ipcVars
  <2>2. ~Queued(c) /\ serving # c
    BY <1>2 DEF EchoInv, OneAnswer
  <2> QED BY <1>2, <2>1, <2>2 DEF EchoInv, MessagesInv, Queued, ipcVars, partVars, Free
<1>8. AnswersInv'
  BY <1>2, <1>3, <1>4 DEF EchoInv, AnswersInv, ipcVars
<1>9. ReturnsInv'
  <2>1. EchoIntact'
    BY <1>1, <1>3, <1>4 DEF EchoInv, ReturnsInv, EchoIntact
  <2>2. SidesAgree'
    BY <1>1, <1>3, <1>4 DEF EchoInv, ReturnsInv, SidesAgree, ApiRejects
  <2> QED BY <1>4, <2>1, <2>2 DEF ReturnsInv
<1> QED BY <1>5, <1>6, <1>7, <1>8, <1>9 DEF EchoInv

LEMMA MakeCallKeepsInv ==
    ASSUME EchoInv, NEW c \in Clients, MakeCall(c), UNCHANGED partVars
    PROVE  EchoInv'
<1> DEFINE m == [client |-> c, type |-> arg[c].type, in_vec |-> arg[c].data, out_size |-> arg[c].out_len]
<1>1. /\ IpcTypeOK(Messages, Replies) /\ PsaCall(c, arg[c].type, arg[c].data, arg[c].out_len)
      /\ UNCHANGED apiVars /\ phase[c] = "connect" /\ reply[c] # NoReply
      /\ queue' = Append(queue, m)
  BY DEF EchoInv, TypeOK, MakeCall, PsaCall
<1>2. phase \in [Clients -> Phases] /\ reply \in [Clients -> Replies \cup {NoReply}]
  BY <1>1 DEF IpcTypeOK
<1>3. /\ phase'[c] = "call" /\ reply'[c] = NoReply
      /\ \A d \in Clients : d # c => phase'[d] = phase[d] /\ reply'[d] = reply[d]
  BY <1>1, <1>2 DEF PsaCall
<1>4. arg[c] \in CallRecords /\ ~ApiRejects(arg[c]) /\ ret[c] = NoReturn
  BY <1>1 DEF EchoInv, AnswersInv
<1>5. m \in Messages
  BY <1>4, RecordsType DEF Messages, MessageTypes
<1>6. OneAnswer'
  BY <1>1, NextCallOnce DEF EchoInv, TypeOK, PsaCall
<1>7. TypeOK'
  <2>1. IpcTypeOK(Messages, Replies)'
    BY <1>1, <1>5 DEF IpcTypeOK, PsaCall, Phases
  <2> QED BY <1>1, <2>1 DEF EchoInv, TypeOK, apiVars, partVars
<1>8. MessagesInv'
  <2>1. ~Queued(c) /\ serving # c
    BY <1>1 DEF EchoInv, OneAnswer
  <2>2. m = MessageOf(c)' /\ m.client = c
    BY <1>1, <1>3 DEF MessageOf, apiVars
  <2>3. \A d \in Clients : d # c => MessageOf(d)' = MessageOf(d)
    BY <1>1, <1>3 DEF MessageOf, apiVars
  <2>4. serving' = serving
    BY <1>1 DEF PsaCall
  <2> HIDE DEF m
  <2> QED BY <1>1, <2>1, <2>2, <2>3, <2>4, SentMessages
<1>9. AnswersInv'
  BY <1>1, <1>3, <1>4 DEF EchoInv, AnswersInv, apiVars
<1>10. ReturnsInv'
  BY <1>1 DEF EchoInv, ReturnsInv, EchoIntact, SidesAgree, apiVars
<1> QED BY <1>6, <1>7, <1>8, <1>9, <1>10 DEF EchoInv

LEMMA CloseKeepsInv ==
    ASSUME EchoInv, NEW c \in Clients, Close(c), UNCHANGED partVars
    PROVE  EchoInv'
<1> DEFINE m == Bare(c, "PSA_IPC_DISCONNECT")
<1>1. /\ IpcTypeOK(Messages, Replies) /\ PsaClose(c) /\ phase[c] = "call" /\ reply[c] # NoReply
      /\ res' = [res EXCEPT ![c] = reply[c]] /\ UNCHANGED <<arg, ret>>
      /\ queue' = Append(queue, m)
  BY DEF EchoInv, TypeOK, Close, PsaClose
<1>2. phase \in [Clients -> Phases] /\ reply \in [Clients -> Replies \cup {NoReply}]
      /\ res \in [Clients -> Replies \cup {NoReply}]
  BY <1>1 DEF EchoInv, TypeOK, IpcTypeOK
<1>3. /\ phase'[c] = "close" /\ reply'[c] = NoReply /\ res'[c] = reply[c]
      /\ \A d \in Clients : d # c => phase'[d] = phase[d] /\ reply'[d] = reply[d] /\ res'[d] = res[d]
  BY <1>1, <1>2 DEF PsaClose
<1>4. RightAnswer(arg[c], reply[c])
  BY <1>1 DEF EchoInv, AnswersInv
<1>5. OneAnswer'
  BY <1>1, NextCallOnce DEF EchoInv, TypeOK, PsaClose, Bare
<1>6. m \in Messages
  BY BareType
<1>7. TypeOK'
  <2>1. IpcTypeOK(Messages, Replies)'
    BY <1>1, <1>6 DEF IpcTypeOK, PsaClose, Phases
  <2> QED BY <1>1, <1>2, <2>1 DEF EchoInv, TypeOK, partVars
<1>8. MessagesInv'
  <2>1. ~Queued(c) /\ serving # c
    BY <1>1 DEF EchoInv, OneAnswer
  <2>2. m = MessageOf(c)' /\ m.client = c
    BY <1>3 DEF MessageOf, Bare
  <2>3. \A d \in Clients : d # c => MessageOf(d)' = MessageOf(d)
    BY <1>1, <1>3 DEF MessageOf
  <2>4. serving' = serving
    BY <1>1 DEF PsaClose
  <2> HIDE DEF m
  <2> QED BY <1>1, <2>1, <2>2, <2>3, <2>4, SentMessages
<1>9. AnswersInv'
  BY <1>1, <1>3, <1>4 DEF EchoInv, AnswersInv, RightAnswer
<1>10. ReturnsInv'
  BY <1>1 DEF EchoInv, ReturnsInv, EchoIntact, SidesAgree
<1> QED BY <1>5, <1>7, <1>8, <1>9, <1>10 DEF EchoInv

\* What the function makes of a right answer: the caller's bytes at the front
\* of its buffer and their number, or neither.
LEMMA ReturnedBuffer ==
    ASSUME NEW data \in Seq(Octet), NEW n \in Nat, Len(data) <= n
    PROVE  [i \in 1..n |-> IF i <= Len(data) THEN data[i] ELSE Junk] = data \o Untouched(n - Len(data))
<1>1. n - Len(data) \in Nat
  OBVIOUS
<1>2. Untouched(n - Len(data)) \in Seq({Junk}) /\ Len(Untouched(n - Len(data))) = n - Len(data)
  BY <1>1 DEF Untouched
<1>3. data \o Untouched(n - Len(data)) =
        [i \in 1..n |-> IF i <= Len(data) THEN data[i] ELSE Untouched(n - Len(data))[i - Len(data)]]
  BY <1>2
<1>4. \A i \in 1..n : i > Len(data) => Untouched(n - Len(data))[i - Len(data)] = Junk
  BY <1>1 DEF Untouched
<1> QED BY <1>3, <1>4

LEMMA ReturnKeepsInv ==
    ASSUME EchoInv, NEW c \in Clients, Return(c), UNCHANGED partVars
    PROVE  EchoInv'
<1> DEFINE a == arg[c]
           r == res[c]
           value == [status   |-> r.status,
                     out_data |-> [i \in 1..a.out_len |-> IF i <= Len(r.out) THEN r.out[i] ELSE Junk],
                     out_size |-> OutSize(r)]
<1>1. /\ IpcTypeOK(Messages, Replies) /\ PsaClosed(c) /\ phase[c] = "close"
      /\ ret' = [ret EXCEPT ![c] = value]
      /\ res' = [res EXCEPT ![c] = NoReply] /\ arg' = arg
  BY DEF EchoInv, TypeOK, Return, PsaClosed
<1>2. phase \in [Clients -> Phases] /\ reply \in [Clients -> Replies \cup {NoReply}]
      /\ res \in [Clients -> Replies \cup {NoReply}]
  BY <1>1 DEF EchoInv, TypeOK, IpcTypeOK
<1>3. phase'[c] = "idle" /\ \A d \in Clients : d # c => /\ phase'[d] = phase[d] /\ reply'[d] = reply[d]
                                                        /\ res'[d] = res[d]
  BY <1>1, <1>2 DEF PsaClosed
<1>4. ret' = [d \in Clients |-> ret'[d]] /\ \A d \in Clients : ret'[d] = IF d = c THEN value ELSE ret[d]
  <2> HIDE DEF value
  <2> QED BY <1>1 DEF EchoInv, ReturnsInv
<1>5. RightAnswer(a, r) /\ a \in CallRecords /\ ~ApiRejects(a)
  BY <1>1 DEF EchoInv, AnswersInv
<1>6. a.data \in Seq(Octet) /\ a.out_len \in Nat /\ MaxData \in Nat /\ r.status \in Statuses
  BY <1>5, RecordsType, EchoConstants DEF RightAnswer, Replies
<1>7. IF r.status = "PSA_SUCCESS"
      THEN /\ value.out_size = Len(a.data) /\ Len(a.data) \in 0..MaxData /\ Len(a.data) <= a.out_len
           /\ value.out_data = a.data \o Untouched(a.out_len - Len(a.data))
      ELSE value.out_size = -1 /\ value.out_data = Untouched(a.out_len)
  <2>1. CASE r.status = "PSA_SUCCESS"
    <3>1. r.out = a.data /\ Len(a.data) <= MaxData /\ Len(a.data) <= a.out_len
      BY <1>5, <2>1 DEF RightAnswer
    <3>2. value.out_size = Len(a.data) /\ Len(a.data) \in 0..MaxData
      BY <1>6, <2>1, <3>1 DEF OutSize
    <3>3. value.out_data = a.data \o Untouched(a.out_len - Len(a.data))
      BY <1>6, <3>1, ReturnedBuffer
    <3> QED BY <2>1, <3>1, <3>2, <3>3
  <2>2. CASE r.status # "PSA_SUCCESS"
    BY <1>5, <1>6, <2>2 DEF RightAnswer, OutSize, Untouched
  <2> QED BY <2>1, <2>2
<1>8. value.status = r.status
  OBVIOUS
<1>9. value.out_data \in Seq(Octet \cup {Junk}) /\ value.out_size \in -1..MaxData
  <2>1. \A i \in 1..a.out_len : (IF i <= Len(r.out) THEN r.out[i] ELSE Junk) \in Octet \cup {Junk}
    BY <1>5 DEF RightAnswer, Replies
  <2>2. value.out_data \in Seq(Octet \cup {Junk})
    BY <1>6, <2>1
  <2>3. value.out_size \in -1..MaxData
    <3> HIDE DEF value, a, r
    <3>1. CASE r.status = "PSA_SUCCESS"
      BY <1>6, <1>7, <3>1
    <3>2. CASE r.status # "PSA_SUCCESS"
      BY <1>6, <1>7, <3>2
    <3> QED BY <3>1, <3>2
  <2> QED BY <2>2, <2>3
<1> HIDE DEF value
<1>10. OneAnswer'
  BY <1>1, ClosedOnce DEF EchoInv, TypeOK
<1>11. TypeOK'
  <2>1. IpcTypeOK(Messages, Replies)'
    BY <1>1 DEF IpcTypeOK, PsaClosed, Phases
  <2> QED BY <1>1, <1>2, <1>4, <1>9, <2>1 DEF EchoInv, TypeOK, partVars
<1>12. MessagesInv'
  <2>1. \A d \in Clients : d # c => MessageOf(d)' = MessageOf(d)
    BY <1>1, <1>3 DEF MessageOf
  <2>2. ~Queued(c) /\ serving # c
    BY <1>1 DEF EchoInv, OneAnswer, PsaClosed
  <2>3. UNCHANGED <<queue, serving>>
    BY <1>1 DEF PsaClosed
  <2> QED BY <2>1, <2>2, <2>3 DEF EchoInv, MessagesInv, Queued, partVars, Free
<1>13. AnswersInv'
  BY <1>1, <1>3, <1>4 DEF EchoInv, AnswersInv
<1>14. ReturnsInv'
  <2>1. EchoIntact'
    BY <1>1, <1>4, <1>7, <1>8 DEF EchoInv, ReturnsInv, EchoIntact
  <2>2. SidesAgree'
    BY <1>1, <1>4, <1>5, <1>8 DEF EchoInv, ReturnsInv, SidesAgree, RightAnswer, ApiRejects
  <2> QED BY <1>4, <2>1, <2>2 DEF ReturnsInv
<1> QED BY <1>10, <1>11, <1>12, <1>13, <1>14 DEF EchoInv

-----------------------------------------------------------------------------
LEMMA NextKeepsInv == ASSUME EchoInv, [Next]_vars PROVE EchoInv'
<1>1. CASE Partition
  BY <1>1, PartitionKeepsInv
<1>2. ASSUME NEW c \in Clients, Client(c) PROVE EchoInv'
  BY <1>2, InvokeKeepsInv, EarlyReturnKeepsInv, MakeCallKeepsInv, CloseKeepsInv, ReturnKeepsInv
     DEF Client, ClientStep
<1>3. CASE UNCHANGED vars
  <2>1. UNCHANGED ipcVars /\ UNCHANGED partVars /\ UNCHANGED apiVars
    BY <1>3 DEF vars
  <2>2. OneAnswer'
    BY <2>1 DEF EchoInv, OneAnswer, Queued, ipcVars
  <2>3. TypeOK'
    BY <2>1 DEF EchoInv, TypeOK, IpcTypeOK, ipcVars, partVars, apiVars
  <2>4. MessagesInv' /\ AnswersInv' /\ ReturnsInv'
    BY <2>1 DEF EchoInv, MessagesInv, MessageOf, AnswersInv, ReturnsInv, EchoIntact, SidesAgree,
                Free, ipcVars, partVars, apiVars
  <2> QED BY <2>2, <2>3, <2>4 DEF EchoInv
<1> QED BY <1>1, <1>2, <1>3 DEF Next

\* EchoInv is inductive: it holds however the calls of the clients interleave.
THEOREM EchoInvariance == Spec => []EchoInv
BY InitInv, NextKeepsInv, PTL DEF Spec

\* Every variable keeps its type: no copy leaves the two buffers.
THEOREM TypeCorrect == Spec => []TypeOK
<1>1. EchoInv => TypeOK
  BY DEF EchoInv
<1> QED BY <1>1, EchoInvariance, PTL

\* A caller gets back its own bytes, all of them, or nothing: whoever else is
\* served in between and whatever the partition's buffers still hold.
THEOREM OwnBytesBack == Spec => []EchoIntact
<1>1. EchoInv => EchoIntact
  BY DEF EchoInv, ReturnsInv
<1> QED BY <1>1, EchoInvariance, PTL

\* The checks of the API function and of the partition are the same.
THEOREM LimitsAgree == Spec => []SidesAgree
<1>1. EchoInv => SidesAgree
  BY DEF EchoInv, ReturnsInv
<1> QED BY <1>1, EchoInvariance, PTL
=============================================================================
