------------------------------ MODULE NsProofs ------------------------------
(***************************************************************************)
(* Theorems about NsSystem, for any number of clients and of mailbox       *)
(* slots, any settings of the kernel and any number of calls, in all three *)
(* builds: types; the mutex keeps one thread inside; a permit of the       *)
(* semaphore is worth an empty slot; a client gets the answer to its own   *)
(* request; a call leaves nothing behind it; the statistics stay in range; *)
(* and, with the shipped settings, boot finds the memory it needs.         *)
(***************************************************************************)
EXTENDS NsSystem, FiniteSetTheorems, WellFoundedInduction, TLAPS

-----------------------------------------------------------------------------
(* The inductive invariant: where threads are, what the lock knows of      *)
(* them, and whose the slots are.                                          *)

Using   == {"sample", "account", "notify", "wait", "check"}
Outside == {"idle", "acquire", "reset", "average"}
Inside  == {"secure", "release", "claim", "claimed"} \cup Using

Places == Outside \cup {"release"} \cup
          (IF build = "trustzone" THEN {"secure"} ELSE {"claim", "claimed"} \cup Using)

Stages == {"platform", "cp", "kernel", "app_thread", "start", "running", "parked"} \cup
          (IF build = "trustzone" THEN {"interface"} ELSE {"secure_cpu", "mailbox_init"})

Permits == IF ~Exists(lock) THEN 0 ELSE IF build = "trustzone" THEN 1 ELSE NumSlots

Requests == [owner : Clients \cup {Nobody}, n : Nat]

TypesInv ==
    /\ build \in {"trustzone", "mailbox"}
    /\ pc \in [Threads -> Outside \cup Inside \cup {"receive"}]
    /\ \A t \in Clients : pc[t] \in Places
    /\ thread \in [Threads -> {"absent", "ready", "lock", "flags"}]
    /\ thread[MailboxThread] = "absent"
    /\ idx \in [Threads -> Slots]
    /\ calls \in [Clients -> Nat]
    /\ answer \in [Clients -> Requests]
    /\ slot \in [Slots -> [state : {"empty", "claimed", "pending", "replied"}, req : Requests]]
    /\ lock \in [kind : {"none", "mutex", "semaphore"}, tokens : Nat,
                 holders : SUBSET Clients, waiting : Seq(Clients)]

\* Before the kernel starts no thread has done anything.
BootInv ==
    /\ main \in Stages
    /\ main # "running" =>
          \A t \in Clients : /\ pc[t] = "idle" /\ thread[t] \in {"absent", "ready"}
                             /\ answer[t] = NoRequest

\* What a thread waits on says where it is.
WaitingInv ==
    \A t \in Clients : /\ thread[t] = "lock" => pc[t] \in {"secure", "claim"}
                       /\ thread[t] = "flags" => pc[t] = "check"
                       /\ thread[t] = "absent" => pc[t] = "idle"

\* The permits taken and those left add up.
CountInv == /\ IsFiniteSet(lock.holders)
            /\ lock.tokens + Cardinality(lock.holders) = Permits

\* A thread waits for a permit only when none is left, once, and is blocked.
QueueInv ==
    /\ lock.waiting # <<>> => lock.tokens = 0
    /\ \A i \in DOMAIN lock.waiting : thread[lock.waiting[i]] = "lock"
    /\ \A i, j \in DOMAIN lock.waiting : lock.waiting[i] = lock.waiting[j] => i = j

\* The holders are the threads past the lock.
HoldersInv ==
    \A t \in Clients : t \in lock.holders <=> pc[t] \in Inside /\ thread[t] # "lock"

\* An occupied slot is of a client that is using it, and the other way round;
\* a slot that was found stays empty under the spin lock.
SlotInv ==
    /\ \A i \in Slots : slot[i].state # "empty" =>
          /\ slot[i].req.owner \in Clients
          /\ pc[slot[i].req.owner] \in Using
          /\ idx[slot[i].req.owner] = i
    /\ \A t \in Clients : pc[t] \in Using =>
          slot[idx[t]].state # "empty" /\ slot[idx[t]].req.owner = t
    /\ \A t \in Clients : pc[t] = "claimed" =>
          slot[idx[t]].state = "empty" /\ irq_off = t

\* No call is turned down where there is a lock.
AnswerInv == Exists(lock) => \A t \in Clients : answer[t] # Error

LockInv == CountInv /\ QueueInv /\ HoldersInv
IInv == TypesInv /\ BootInv /\ WaitingInv /\ LockInv /\ SlotInv /\ AnswerInv

LEMMA Constants ==
    /\ App \in Clients /\ MailboxThread \notin Clients
    /\ Threads = Clients \cup {MailboxThread} /\ Nobody \notin Threads
    /\ NumSlots \in Nat /\ NumSlots > 0 /\ 1 \in Slots
    /\ Builds \subseteq {"trustzone", "mailbox", "thread"}
BY NsConstants DEF Slots

LEMMA LessRelation == \A j, i \in Nat : j < i => <<j, i>> \in OpToRel(<, Nat)
BY Zenon DEF OpToRel

-----------------------------------------------------------------------------
(* The count of permits.                                                   *)

\* A client that was given a permit and has not claimed yet leaves too few
\* holders for every slot to be occupied.
LEMMA PermitLeavesSlot ==
    ASSUME IInv, build = "mailbox",
           NEW t \in Clients, pc[t] = "claim", thread[t] = "ready"
    PROVE  EmptySlots # {}
<1> SUFFICES ASSUME EmptySlots = {} PROVE FALSE
  OBVIOUS
<1> USE Constants
<1> DEFINE H == lock.holders
           owner == [i \in Slots |-> slot[i].req.owner]
<1>1. IsFiniteSet(H) /\ t \in H
  BY DEF IInv, LockInv, CountInv, HoldersInv, Inside
<1>2. \A i \in Slots : slot[i].state # "empty"
  BY DEF EmptySlots
<1>3. \A i \in Slots : owner[i] \in H \ {t}
  <2> SUFFICES ASSUME NEW i \in Slots PROVE slot[i].req.owner \in H \ {t}
    OBVIOUS
  <2>1. slot[i].req.owner \in Clients /\ pc[slot[i].req.owner] \in Using
    BY <1>2 DEF IInv, SlotInv
  <2>2. thread[slot[i].req.owner] # "lock"
    BY <2>1 DEF IInv, WaitingInv, Using
  <2> QED BY <2>1, <2>2 DEF IInv, LockInv, HoldersInv, Inside, Using
<1>4. \A i, j \in Slots : owner[i] = owner[j] => i = j
  BY <1>2 DEF IInv, SlotInv
<1>5. owner \in Injection(Slots, H \ {t})
  <2>1. owner \in [Slots -> H \ {t}]
    BY <1>3
  <2> QED BY <2>1, <1>4 DEF Injection, IsInjective
<1>6. IsFiniteSet(H \ {t}) /\ Cardinality(H \ {t}) = Cardinality(H) - 1 /\ Cardinality(H) \in Nat
  BY <1>1, FS_RemoveElement, FS_CardinalityType
<1>7. IsFiniteSet(Slots) /\ Cardinality(Slots) = NumSlots
  BY FS_Interval DEF Slots
<1>8. Cardinality(Slots) <= Cardinality(H \ {t})
  BY <1>5, <1>6, <1>7, FS_Injection
<1>9. Cardinality(H) <= NumSlots
  BY <1>6 DEF IInv, TypesInv, LockInv, CountInv, Permits
<1> QED BY <1>6, <1>7, <1>8, <1>9

\* The loop over the slots takes the first empty one.
LEMMA FirstEmptySlot ==
    ASSUME EmptySlots # {}
    PROVE  /\ (CHOOSE i \in EmptySlots : \A j \in EmptySlots : i <= j) \in Slots
           /\ slot[CHOOSE i \in EmptySlots : \A j \in EmptySlots : i <= j].state = "empty"
<1> DEFINE S == EmptySlots
           IsFirst(i) == \A j \in S : i <= j
<1>1. S \subseteq Nat /\ S \subseteq Slots
  BY Constants DEF EmptySlots, Slots
<1>2. PICK i \in S : \A j \in S : ~(<<j, i>> \in OpToRel(<, Nat))
  <2> HIDE DEF S
  <2> QED BY <1>1, NatLessThanWellFounded, WFMin, Zenon DEF S
<1>3. \A j \in S : ~(j < i)
  BY <1>1, <1>2, LessRelation
<1>4. \A j \in S : i <= j
  <2> HIDE DEF S
  <2> QED BY <1>1, <1>3
<1>5. (CHOOSE k \in S : IsFirst(k)) \in S
  <2> HIDE DEF S
  <2>1. \E k \in S : IsFirst(k)
    BY <1>4
  <2> HIDE DEF IsFirst
  <2> QED BY <2>1
<1> QED BY <1>5, Zenon DEF EmptySlots

\* At most one thread is past a mutex.
LEMMA OneHolder ==
    ASSUME IInv, build = "trustzone", NEW t \in lock.holders, NEW u \in lock.holders
    PROVE  t = u
<1> SUFFICES ASSUME t # u PROVE FALSE
  OBVIOUS
<1> DEFINE H == lock.holders
<1>1. IsFiniteSet(H) /\ Cardinality(H) \in Nat /\ Cardinality(H) <= 1
  BY FS_CardinalityType DEF IInv, TypesInv, LockInv, CountInv, Permits
<1>2. IsFiniteSet(H \ {t}) /\ Cardinality(H \ {t}) = Cardinality(H) - 1
  BY <1>1, FS_RemoveElement
<1>3. u \in H \ {t} /\ Cardinality((H \ {t}) \ {u}) = Cardinality(H \ {t}) - 1
  BY <1>2, FS_RemoveElement
<1>4. Cardinality((H \ {t}) \ {u}) \in Nat
  BY <1>2, FS_RemoveElement, FS_CardinalityType
<1> QED BY <1>1, <1>2, <1>3, <1>4

-----------------------------------------------------------------------------
(* The initial states and the boot.                                        *)

LEMMA InitInv == Init /\ build # "thread" => IInv
<1> SUFFICES ASSUME Init, build # "thread" PROVE IInv
  OBVIOUS
<1> USE Constants DEF Init
<1>1. lock = [kind |-> "none", tokens |-> 0, holders |-> {}, waiting |-> <<>>]
  BY DEF NoLock
<1>2. TypesInv
  <2>1. \A t \in Clients : pc[t] = "idle" /\ pc[t] \in Places
    BY DEF Places, Outside
  <2>2. pc \in [Threads -> Outside \cup Inside \cup {"receive"}]
    BY DEF Outside
  <2>3. NoRequest \in Requests /\ EmptySlot \in [state : {"empty", "claimed", "pending", "replied"}, req : Requests]
    BY DEF NoRequest, EmptySlot, Requests
  <2>4. <<>> \in Seq(Clients)
    OBVIOUS
  <2> QED BY <1>1, <2>1, <2>2, <2>3, <2>4 DEF TypesInv
<1>3. BootInv
  BY DEF BootInv, Stages
<1>4. WaitingInv
  BY DEF WaitingInv
<1>5. LockInv
  BY <1>1, FS_EmptySet DEF LockInv, CountInv, QueueInv, HoldersInv, Permits, Exists, Inside, Using
<1>6. SlotInv
  BY DEF SlotInv, EmptySlot, Using
<1>7. AnswerInv
  BY <1>1 DEF AnswerInv, Exists
<1> QED BY <1>2, <1>3, <1>4, <1>5, <1>6, <1>7 DEF IInv

\* The lock that is created has all its permits and nobody holds it.
LEMMA CreatedLock ==
    ASSUME IInv, main # "running", UNCHANGED <<build, pc, thread, answer>>,
           NEW kind \in {"mutex", "semaphore"}, NEW n \in Nat, LockCreate(kind, n),
           n = IF build = "trustzone" THEN 1 ELSE NumSlots
    PROVE  /\ LockInv' /\ AnswerInv'
           /\ lock' \in [kind : {"none", "mutex", "semaphore"}, tokens : Nat,
                         holders : SUBSET Clients, waiting : Seq(Clients)]
<1>0. \A t \in Clients : pc[t] = "idle" /\ answer[t] # Error
  BY DEF IInv, BootInv, NoRequest, Error
<1>1. CASE lock' = lock
  BY <1>0, <1>1 DEF IInv, TypesInv, LockInv, CountInv, QueueInv, HoldersInv, Permits, Exists, AnswerInv
<1>2. CASE lock' = [kind |-> kind, tokens |-> n, holders |-> {}, waiting |-> <<>>]
  BY <1>0, <1>2, FS_EmptySet
     DEF LockInv, CountInv, QueueInv, HoldersInv, Permits, Exists, AnswerInv, Inside, Using
<1> QED BY <1>1, <1>2, Zenon DEF LockCreate, NoLock

LEMMA BootKeepsInv == IInv /\ Boot => IInv'
<1> SUFFICES ASSUME IInv, Boot PROVE IInv'
  OBVIOUS
<1> USE Constants
<1>1. main # "running" /\ UNCHANGED <<build, slot, progVars>> /\ main' \in Stages
  BY DEF Boot, PlatformInit, CpInit, KernelInitialize, InterfaceInit, WaitSecureCpu, MailboxInit,
         AfterMailboxInit, MailboxThreadNew, AppThreadNew, CreateThread, KernelStart, MainGoes, NoThreads,
         mailboxVars, progVars, IInv, TypesInv, BootInv, Stages
<1>2. UNCHANGED irq_off /\ (\A t \in Clients : thread'[t] \in {thread[t], "ready"})
      /\ thread' \in [Threads -> {"absent", "ready", "lock", "flags"}] /\ thread'[MailboxThread] = "absent"
  <2>1. CASE AppThreadNew
    <3>1. /\ irq_off' = irq_off
          /\ \/ thread' = thread
             \/ thread' = [thread EXCEPT ![App] = "ready"]
      <4>1. irq_off' = irq_off /\ ThreadNew(App, 4096)
        BY <2>1 DEF AppThreadNew, CreateThread
      <4>2. CASE Fits(ThreadMemory(4096))
        BY <4>1, <4>2 DEF ThreadNew
      <4>3. CASE ~Fits(ThreadMemory(4096))
        BY <4>1, <4>3 DEF ThreadNew, IInv, TypesInv
      <4> QED BY <4>2, <4>3
    <3> QED BY <3>1 DEF IInv, TypesInv
  <2>2. CASE MailboxThreadNew
    BY <2>2 DEF MailboxThreadNew, CreateThread, MainGoes, IInv, TypesInv, BootInv, Stages
  <2>3. CASE UNCHANGED <<thread, irq_off>>
    BY <2>3 DEF IInv, TypesInv
  <2> QED BY <2>1, <2>2, <2>3 DEF Boot, PlatformInit, CpInit, KernelInitialize, InterfaceInit,
             WaitSecureCpu, MailboxInit, KernelStart, NoMemory, osVars
<1>3. /\ LockInv' /\ AnswerInv'
      /\ lock' \in [kind : {"none", "mutex", "semaphore"}, tokens : Nat,
                    holders : SUBSET Clients, waiting : Seq(Clients)]
  <2>1. CASE InterfaceInit
    <3>1. build = "trustzone" /\ UNCHANGED thread
      BY <2>1 DEF InterfaceInit, MainGoes, IInv, TypesInv, BootInv, Stages
    <3> QED BY <1>1, <2>1, <3>1, CreatedLock DEF InterfaceInit, os_wrapper_mutex_create, progVars
  <2>2. CASE MailboxInit
    <3>1. build = "mailbox" /\ UNCHANGED thread /\ LockCreate("semaphore", NumSlots)
      BY <2>2 DEF MailboxInit, IInv, TypesInv, LockInit, os_wrapper_semaphore_create, MAX_SEMAPHORE_COUNT
    <3> QED BY <1>1, <3>1, CreatedLock DEF progVars
  <2>3. CASE UNCHANGED lock
    <3>1. CountInv' /\ AnswerInv'
      BY <1>1, <2>3 DEF IInv, LockInv, CountInv, AnswerInv, Permits, progVars
    <3>2. QueueInv'
      <4>1. lock.waiting \in Seq(Clients)
        BY DEF IInv, TypesInv
      <4>2. \A i \in DOMAIN lock.waiting : FALSE
        BY <1>1, <4>1 DEF IInv, LockInv, QueueInv, BootInv
      <4> QED BY <2>3, <4>2 DEF IInv, LockInv, QueueInv
    <3>3. HoldersInv'
      BY <1>1, <1>2, <2>3 DEF IInv, LockInv, HoldersInv, BootInv, progVars, Inside, Using
    <3> QED BY <2>3, <3>1, <3>2, <3>3 DEF IInv, TypesInv, LockInv
  <2> QED BY <2>1, <2>2, <2>3
          DEF Boot, PlatformInit, CpInit, KernelInitialize, WaitSecureCpu, MailboxThreadNew, AppThreadNew,
              CreateThread, KernelStart, NoMemory, osVars
<1>4. TypesInv'
  BY <1>1, <1>2, <1>3 DEF IInv, TypesInv, progVars, Places
<1>5. BootInv' /\ WaitingInv'
  BY <1>1, <1>2 DEF IInv, BootInv, WaitingInv, progVars, Stages
<1>6. SlotInv'
  BY <1>1, <1>2 DEF IInv, SlotInv, progVars
<1> QED BY <1>3, <1>4, <1>5, <1>6 DEF IInv

-----------------------------------------------------------------------------
(* What a running thread may do without disturbing the rest.               *)

\* A thread that runs is a client: there is no mailbox thread.
LEMMA RunsFacts ==
    ASSUME IInv, NEW t \in Threads, NEW at, Runs(t, at)
    PROVE  /\ t \in Clients /\ thread[t] = "ready" /\ pc[t] = at /\ main = "running"
           /\ irq_off \in {Nobody, t} /\ UNCHANGED <<build, main>>
BY Constants DEF Runs, IInv, TypesInv, bootVars

\* Nothing is said of main() once the kernel runs.
LEMMA RunningInv ==
    ASSUME IInv, main = "running", UNCHANGED <<build, main>>
    PROVE  BootInv'
BY DEF IInv, BootInv, Stages

\* A thread that is ready goes on, and stays on its side of the lock.
LEMMA MoveKeepsLock ==
    ASSUME IInv, NEW t \in Clients, thread[t] = "ready", NEW to, Goto(t, to),
           UNCHANGED <<build, thread, lock>>, to \in Inside <=> pc[t] \in Inside
    PROVE  WaitingInv' /\ LockInv'
<1> USE Constants
<1>1. \A u \in Clients : pc'[u] = IF u = t THEN to ELSE pc[u]
  BY DEF Goto, IInv, TypesInv
<1>2. WaitingInv'
  BY <1>1 DEF IInv, WaitingInv
<1>3. CountInv' /\ QueueInv'
  BY DEF IInv, LockInv, CountInv, QueueInv, Permits
<1>4. HoldersInv'
  BY <1>1 DEF IInv, LockInv, HoldersInv
<1> QED BY <1>2, <1>3, <1>4 DEF LockInv

\* A thread goes on outside the part that uses a slot.
LEMMA MoveKeepsSlots ==
    ASSUME IInv, NEW t \in Clients, NEW to, Goto(t, to), UNCHANGED <<slot, idx, irq_off>>,
           to \in Using <=> pc[t] \in Using, to # "claimed"
    PROVE  SlotInv'
<1>1. \A u \in Clients : pc'[u] = IF u = t THEN to ELSE pc[u]
  BY Constants DEF Goto, IInv, TypesInv
<1> QED BY <1>1 DEF IInv, SlotInv

\* The typed part of a step of t.
LEMMA MoveKeepsTypes ==
    ASSUME IInv, NEW t \in Clients, NEW to \in Places, Goto(t, to), UNCHANGED build,
           thread' \in [Threads -> {"absent", "ready", "lock", "flags"}],
           thread'[MailboxThread] = "absent",
           idx' \in [Threads -> Slots], calls' \in [Clients -> Nat], answer' \in [Clients -> Requests],
           slot' \in [Slots -> [state : {"empty", "claimed", "pending", "replied"}, req : Requests]],
           lock' \in [kind : {"none", "mutex", "semaphore"}, tokens : Nat,
                      holders : SUBSET Clients, waiting : Seq(Clients)]
    PROVE  TypesInv'
<1> USE Constants
<1>1. Places \subseteq Outside \cup Inside \cup {"receive"} /\ Places' = Places
  BY DEF Places, Inside, Outside, Using
<1>2. \A u \in Threads : pc'[u] = IF u = t THEN to ELSE pc[u]
  BY DEF Goto, IInv, TypesInv
<1>3. pc' \in [Threads -> Outside \cup Inside \cup {"receive"}]
  BY <1>1 DEF Goto, IInv, TypesInv
<1>4. \A u \in Clients : pc'[u] \in Places'
  BY <1>1, <1>2 DEF IInv, TypesInv
<1> QED BY <1>3, <1>4 DEF IInv, TypesInv

-----------------------------------------------------------------------------
(* Taking and giving back the lock.                                        *)

\* A thread that asks for the lock holds it or waits for it, and in both
\* cases goes on from behind it.
LEMMA AcquireKeepsLock ==
    ASSUME IInv, NEW t \in Clients, thread[t] = "ready", pc[t] = "acquire",
           Exists(lock), LockAcquire(t), NEW to \in {"secure", "claim"}, Goto(t, to), UNCHANGED build
    PROVE  /\ WaitingInv' /\ LockInv' /\ Exists(lock')
           /\ thread' \in [Threads -> {"absent", "ready", "lock", "flags"}]
           /\ thread'[MailboxThread] = "absent"
           /\ lock' \in [kind : {"none", "mutex", "semaphore"}, tokens : Nat,
                         holders : SUBSET Clients, waiting : Seq(Clients)]
<1> USE Constants
<1>1. \A u \in Clients : pc'[u] = IF u = t THEN to ELSE pc[u]
  BY DEF Goto, IInv, TypesInv
<1>2. t \notin lock.holders
  BY DEF IInv, LockInv, HoldersInv, Inside, Using
<1>3. CASE lock.tokens = 0
  <2>1. /\ thread' = [thread EXCEPT ![t] = "lock"]
        /\ lock' = [lock EXCEPT !.waiting = Append(lock.waiting, t)]
    BY <1>3 DEF LockAcquire, AcquireBlocks
  <2>2. \A u \in Clients : thread'[u] = IF u = t THEN "lock" ELSE thread[u]
    BY <2>1 DEF IInv, TypesInv
  <2>3. /\ lock'.holders = lock.holders /\ lock'.tokens = lock.tokens /\ lock'.kind = lock.kind
        /\ lock'.waiting = Append(lock.waiting, t) /\ lock.waiting \in Seq(Clients)
    BY <2>1 DEF IInv, TypesInv
  <2>4. WaitingInv' /\ HoldersInv'
    BY <1>1, <1>2, <2>2, <2>3 DEF IInv, WaitingInv, LockInv, HoldersInv, Inside
  <2>5. CountInv' /\ Exists(lock')
    BY <2>3 DEF IInv, LockInv, CountInv, Permits, Exists
  <2>6. QueueInv'
    <3>1. \A i \in DOMAIN lock.waiting : lock.waiting[i] # t /\ lock.waiting[i] \in Clients
      BY <2>3 DEF IInv, LockInv, QueueInv
    <3>2. \A i \in DOMAIN lock'.waiting : lock'.waiting[i] = IF i \in DOMAIN lock.waiting THEN lock.waiting[i] ELSE t
      BY <2>3
    <3>3. \A i, j \in DOMAIN lock'.waiting : i \notin DOMAIN lock.waiting /\ j \notin DOMAIN lock.waiting => i = j
      BY <2>3
    <3>4. \A i \in DOMAIN lock'.waiting : thread'[lock'.waiting[i]] = "lock"
      BY <2>2, <3>1, <3>2 DEF IInv, LockInv, QueueInv
    <3>5. \A i, j \in DOMAIN lock'.waiting : lock'.waiting[i] = lock'.waiting[j] => i = j
      BY <3>1, <3>2, <3>3 DEF IInv, LockInv, QueueInv
    <3>6. lock'.tokens = 0
      BY <1>3, <2>3
    <3> QED BY <3>4, <3>5, <3>6 DEF QueueInv
  <2>7. lock' \in [kind : {"none", "mutex", "semaphore"}, tokens : Nat,
                   holders : SUBSET Clients, waiting : Seq(Clients)]
    <3>1. Append(lock.waiting, t) \in Seq(Clients)
      BY <2>3
    <3> QED BY <2>1, <3>1 DEF IInv, TypesInv
  <2>8. thread' \in [Threads -> {"absent", "ready", "lock", "flags"}] /\ thread'[MailboxThread] = "absent"
    BY <2>1 DEF IInv, TypesInv
  <2> QED BY <2>4, <2>5, <2>6, <2>7, <2>8 DEF LockInv
<1>4. CASE lock.tokens # 0
  <2>1. /\ lock'.holders = lock.holders \cup {t} /\ lock'.tokens = lock.tokens - 1
        /\ lock'.kind = lock.kind /\ lock'.waiting = lock.waiting
        /\ lock.tokens \in Nat /\ thread' = thread
    BY <1>4 DEF LockAcquire, AcquireBlocks, IInv, TypesInv
  <2>2. lock' \in [kind : {"none", "mutex", "semaphore"}, tokens : Nat,
                   holders : SUBSET Clients, waiting : Seq(Clients)]
    <3>1. lock' = [lock EXCEPT !.tokens = lock.tokens - 1, !.holders = lock.holders \cup {t}]
      BY <1>4 DEF LockAcquire, AcquireBlocks
    <3>2. lock.tokens - 1 \in Nat
      BY <1>4, <2>1
    <3> QED BY <3>1, <3>2 DEF IInv, TypesInv
  <2>3. WaitingInv' /\ HoldersInv'
    BY <1>1, <1>2, <2>1 DEF IInv, WaitingInv, LockInv, HoldersInv, Inside
  <2>4. CountInv' /\ Exists(lock')
    <3>1. Cardinality(lock.holders) \in Nat /\ IsFiniteSet(lock.holders \cup {t})
          /\ Cardinality(lock.holders \cup {t}) = Cardinality(lock.holders) + 1
      BY <1>2, FS_CardinalityType, FS_AddElement DEF IInv, LockInv, CountInv
    <3> QED BY <2>1, <3>1 DEF IInv, LockInv, CountInv, Permits, Exists
  <2>5. QueueInv'
    BY <1>4, <2>1 DEF IInv, LockInv, QueueInv
  <2> QED BY <2>1, <2>2, <2>3, <2>4, <2>5 DEF IInv, TypesInv, LockInv
<1> QED BY <1>3, <1>4

\* The lock that a thread gives back goes to the one that waited longest.
LEMMA ReleaseKeepsLock ==
    ASSUME IInv, NEW t \in Clients, thread[t] = "ready", pc[t] = "release",
           LockRelease(t), Goto(t, "idle"), UNCHANGED build
    PROVE  /\ WaitingInv' /\ LockInv' /\ (Exists(lock') <=> Exists(lock))
           /\ thread' \in [Threads -> {"absent", "ready", "lock", "flags"}]
           /\ thread'[MailboxThread] = "absent"
           /\ lock' \in [kind : {"none", "mutex", "semaphore"}, tokens : Nat,
                         holders : SUBSET Clients, waiting : Seq(Clients)]
<1> USE Constants
<1>1. \A u \in Clients : pc'[u] = IF u = t THEN "idle" ELSE pc[u]
  BY DEF Goto, IInv, TypesInv
<1>2. t \in lock.holders /\ lock.tokens \in Nat /\ lock.waiting \in Seq(Clients)
  BY DEF IInv, TypesInv, LockInv, HoldersInv, Inside
<1>3. /\ Cardinality(lock.holders) \in Nat /\ IsFiniteSet(lock.holders \ {t})
      /\ Cardinality(lock.holders \ {t}) = Cardinality(lock.holders) - 1
  BY <1>2, FS_CardinalityType, FS_RemoveElement DEF IInv, LockInv, CountInv
<1>4. CASE lock.waiting = <<>>
  <2>1. /\ lock'.holders = lock.holders \ {t} /\ lock'.tokens = lock.tokens + 1
        /\ lock'.kind = lock.kind /\ lock'.waiting = lock.waiting /\ thread' = thread
    BY <1>4 DEF LockRelease, IInv, TypesInv
  <2>2. lock' \in [kind : {"none", "mutex", "semaphore"}, tokens : Nat,
                   holders : SUBSET Clients, waiting : Seq(Clients)]
    <3>1. lock' = [lock EXCEPT !.tokens = lock.tokens + 1, !.holders = lock.holders \ {t}]
      BY <1>4 DEF LockRelease
    <3>2. lock.tokens + 1 \in Nat
      BY <1>2
    <3> QED BY <3>1, <3>2 DEF IInv, TypesInv
  <2>3. WaitingInv' /\ HoldersInv'
    BY <1>1, <1>2, <2>1 DEF IInv, WaitingInv, LockInv, HoldersInv, Inside, Using
  <2>4. CountInv' /\ (Exists(lock') <=> Exists(lock))
    <3>1. (Exists(lock') <=> Exists(lock)) /\ Permits' = Permits
      BY <2>1 DEF Permits, Exists
    <3>2. lock.tokens + Cardinality(lock.holders) = Permits
      BY DEF IInv, LockInv, CountInv
    <3>3. lock'.tokens + Cardinality(lock'.holders) = lock.tokens + Cardinality(lock.holders)
      BY <1>2, <1>3, <2>1
    <3> QED BY <1>3, <2>1, <3>1, <3>2, <3>3 DEF CountInv
  <2>5. QueueInv'
    BY <1>4, <2>1 DEF IInv, LockInv, QueueInv
  <2> QED BY <2>1, <2>2, <2>3, <2>4, <2>5 DEF IInv, TypesInv, LockInv
<1>5. CASE lock.waiting # <<>>
  <2> DEFINE next == Head(lock.waiting)
  <2>1. next = lock.waiting[1] /\ 1 \in DOMAIN lock.waiting /\ next \in Clients
    BY <1>2, <1>5
  <2>2. thread[next] = "lock" /\ next # t /\ next \notin lock.holders /\ pc[next] \in {"secure", "claim"}
    BY <2>1 DEF IInv, LockInv, QueueInv, HoldersInv, WaitingInv
  <2>3. /\ lock' = [lock EXCEPT !.holders = (lock.holders \ {t}) \cup {next}, !.waiting = Tail(lock.waiting)]
        /\ thread' = [thread EXCEPT ![next] = "ready"]
    BY <1>5 DEF LockRelease
  <2> HIDE DEF next
  <2>4. /\ lock'.holders = (lock.holders \ {t}) \cup {next} /\ lock'.tokens = lock.tokens
        /\ lock'.kind = lock.kind /\ lock'.waiting = Tail(lock.waiting)
    BY <2>3 DEF IInv, TypesInv
  <2>5. lock' \in [kind : {"none", "mutex", "semaphore"}, tokens : Nat,
                   holders : SUBSET Clients, waiting : Seq(Clients)]
    <3>1. Tail(lock.waiting) \in Seq(Clients)
      BY <1>2, <1>5
    <3> QED BY <2>1, <2>3, <3>1 DEF IInv, TypesInv
  <2>6. \A u \in Clients : thread'[u] = IF u = next THEN "ready" ELSE thread[u]
    BY <2>3 DEF IInv, TypesInv
  <2>7. WaitingInv'
    BY <1>1, <2>2, <2>6 DEF IInv, WaitingInv
  <2>8. HoldersInv'
    BY <1>1, <2>2, <2>4, <2>6 DEF IInv, LockInv, HoldersInv, Inside, Using
  <2>9. CountInv' /\ (Exists(lock') <=> Exists(lock))
    <3>1. next \notin lock.holders \ {t}
      BY <2>2
    <3>2. /\ IsFiniteSet((lock.holders \ {t}) \cup {next})
          /\ Cardinality((lock.holders \ {t}) \cup {next}) = Cardinality(lock.holders \ {t}) + 1
      BY <1>3, <3>1, FS_AddElement
    <3> QED BY <1>2, <1>3, <2>4, <3>2 DEF IInv, LockInv, CountInv, Permits, Exists
  <2>10. QueueInv'
    <3>1. \A i \in DOMAIN lock'.waiting :
             /\ i \in Nat /\ i + 1 \in DOMAIN lock.waiting /\ i + 1 # 1
             /\ lock'.waiting[i] = lock.waiting[i + 1]
      BY <1>2, <1>5, <2>4
    <3>2. \A i \in DOMAIN lock.waiting : i # 1 => lock.waiting[i] # next
      BY <2>1 DEF IInv, LockInv, QueueInv
    <3>3. \A i \in DOMAIN lock'.waiting : thread'[lock'.waiting[i]] = "lock"
      <4> SUFFICES ASSUME NEW i \in DOMAIN lock'.waiting PROVE thread'[lock'.waiting[i]] = "lock"
        OBVIOUS
      <4>1. lock'.waiting[i] = lock.waiting[i + 1] /\ i + 1 \in DOMAIN lock.waiting /\ lock.waiting[i + 1] # next
        BY <3>1, <3>2
      <4>2. lock.waiting[i + 1] \in Clients
        BY <1>2, <4>1
      <4> QED BY <2>6, <4>1, <4>2 DEF IInv, LockInv, QueueInv
    <3>4. \A i, j \in DOMAIN lock'.waiting : lock'.waiting[i] = lock'.waiting[j] => i = j
      <4> SUFFICES ASSUME NEW i \in DOMAIN lock'.waiting, NEW j \in DOMAIN lock'.waiting,
                          lock'.waiting[i] = lock'.waiting[j]
                   PROVE  i = j
        OBVIOUS
      <4>1. i + 1 = j + 1
        BY <3>1 DEF IInv, LockInv, QueueInv
      <4> QED BY <3>1, <4>1
    <3>5. lock'.tokens = 0
      BY <1>5, <2>4 DEF IInv, LockInv, QueueInv
    <3> QED BY <3>3, <3>4, <3>5 DEF QueueInv
  <2> QED BY <2>1, <2>3, <2>5, <2>7, <2>8, <2>9, <2>10 DEF IInv, TypesInv, LockInv
<1> QED BY <1>4, <1>5

-----------------------------------------------------------------------------
(* The steps of a client.                                                  *)

\* Entering and leaving a call.
LEMMA CallKeepsInv ==
    ASSUME IInv, NEW t \in Clients, Call(t) \/ Refused(t) \/ SecureCall(t)
    PROVE  IInv'
<1> USE Constants
<1>1. PICK to : /\ Goto(t, to) /\ to \in Places /\ to \notin Using \cup {"claimed"}
                /\ to \in Inside <=> pc[t] \in Inside
                /\ pc[t] \notin Using
                /\ thread[t] = "ready" /\ main = "running" /\ UNCHANGED <<build, main>>
  <2>1. CASE Call(t)
    <3>1. /\ Goto(t, "acquire") /\ pc[t] = "idle" /\ thread[t] = "ready" /\ main = "running"
          /\ UNCHANGED <<build, main>>
      BY <2>1, RunsFacts DEF Call, IInv, TypesInv
    <3> QED BY <3>1 DEF Places, Outside, Inside, Using
  <2>2. CASE Refused(t)
    <3>1. /\ Goto(t, "idle") /\ pc[t] = "acquire" /\ thread[t] = "ready" /\ main = "running"
          /\ UNCHANGED <<build, main>>
      BY <2>2, RunsFacts DEF Refused
    <3> QED BY <3>1 DEF Places, Outside, Inside, Using
  <2>3. CASE SecureCall(t)
    <3>1. /\ Goto(t, "release") /\ pc[t] = "secure" /\ thread[t] = "ready" /\ main = "running"
          /\ UNCHANGED <<build, main>>
      BY <2>3, RunsFacts DEF SecureCall
    <3> QED BY <3>1 DEF Places, Inside, Using
  <2> QED BY <2>1, <2>2, <2>3
<1>2. UNCHANGED <<slot, idx, irq_off, thread, lock>>
  BY DEF Call, Refused, SecureCall, mailboxVars
<1>3. calls' \in [Clients -> Nat] /\ calls[t] \in Nat
  <2>1. \/ calls' = calls
        \/ calls' = [calls EXCEPT ![t] = IF calls[t] = MaxCalls THEN 1 ELSE calls[t] + 1]
    BY DEF Call, Refused, SecureCall
  <2>2. calls[t] \in Nat /\ calls[t] + 1 \in Nat
    BY DEF IInv, TypesInv
  <2> QED BY <2>1, <2>2 DEF IInv, TypesInv
<1>4. \E a \in Requests : /\ answer' = [answer EXCEPT ![t] = a]
                          /\ a = Error => ~Exists(lock)
  <2>1. NoRequest \in Requests /\ Error \in Requests /\ NoRequest # Error
    BY DEF Requests, NoRequest, Error
  <2>2. Request(t) \in Requests /\ Request(t) # Error
    BY <1>3 DEF Request, Requests, Error
  <2> QED BY <2>1, <2>2 DEF Call, Refused, SecureCall
<1>5. answer' \in [Clients -> Requests] /\ AnswerInv'
  BY <1>2, <1>4 DEF IInv, TypesInv, AnswerInv, Exists
<1>6. TypesInv'
  BY <1>1, <1>2, <1>3, <1>5, MoveKeepsTypes DEF IInv, TypesInv
<1>7. WaitingInv' /\ LockInv'
  BY <1>1, <1>2, MoveKeepsLock
<1>8. SlotInv'
  BY <1>1, <1>2, MoveKeepsSlots
<1> QED BY <1>1, <1>5, <1>6, <1>7, <1>8, RunningInv DEF IInv

\* Acquire and Release.
LEMMA LockStepKeepsInv ==
    ASSUME IInv, NEW t \in Clients, Acquire(t) \/ Release(t)
    PROVE  IInv'
<1> USE Constants
<1>1. /\ UNCHANGED <<slot, idx, irq_off, calls, answer, build, main>> /\ main = "running"
      /\ thread[t] = "ready"
  BY RunsFacts DEF Acquire, Release, mailboxVars
<1>2. \E to \in Places : /\ Goto(t, to) /\ pc[t] \notin Using /\ to \notin Using \cup {"claimed"}
                         /\ WaitingInv' /\ LockInv' /\ (Exists(lock') <=> Exists(lock))
                         /\ thread' \in [Threads -> {"absent", "ready", "lock", "flags"}]
                         /\ thread'[MailboxThread] = "absent"
                         /\ lock' \in [kind : {"none", "mutex", "semaphore"}, tokens : Nat,
                                       holders : SUBSET Clients, waiting : Seq(Clients)]
  <2>1. CASE Acquire(t)
    <3> DEFINE to == IF build = "trustzone" THEN "secure" ELSE "claim"
    <3>1. pc[t] = "acquire" /\ Exists(lock) /\ LockAcquire(t) /\ Goto(t, to)
      BY <2>1, RunsFacts DEF Acquire, os_wrapper_mutex_acquire, OsLockAcquire, os_wrapper_semaphore_acquire
    <3>2. to \in Places /\ to \notin Using \cup {"claimed"} /\ pc[t] \notin Using /\ to \in {"secure", "claim"}
      BY <3>1 DEF Places, Using
    <3> HIDE DEF to
    <3> QED BY <1>1, <3>1, <3>2, AcquireKeepsLock
  <2>2. CASE Release(t)
    <3>1. pc[t] = "release" /\ LockRelease(t) /\ Goto(t, "idle")
      BY <2>2, RunsFacts DEF Release, os_wrapper_mutex_release, OsLockRelease, os_wrapper_semaphore_release
    <3>2. "idle" \in Places /\ "idle" \notin Using \cup {"claimed"} /\ pc[t] \notin Using
      BY <3>1 DEF Places, Outside, Using
    <3> QED BY <1>1, <3>1, <3>2, ReleaseKeepsLock
  <2> QED BY <2>1, <2>2
<1>3. TypesInv'
  BY <1>1, <1>2, MoveKeepsTypes DEF IInv, TypesInv
<1>4. SlotInv'
  BY <1>1, <1>2, MoveKeepsSlots
<1>5. AnswerInv'
  BY <1>1, <1>2 DEF IInv, AnswerInv
<1> QED BY <1>1, <1>2, <1>3, <1>4, <1>5, RunningInv DEF IInv

\* Looking for a slot: with a permit there is one.
LEMMA FindSlotKeepsInv ==
    ASSUME IInv, NEW t \in Clients, FindSlot(t)
    PROVE  IInv'
<1> USE Constants
<1>1. /\ UNCHANGED <<slot, thread, lock, calls, build, main>> /\ main = "running"
      /\ thread[t] = "ready" /\ pc[t] = "claim" /\ irq_off \in {Nobody, t}
  BY RunsFacts DEF FindSlot, mailboxVars
<1>2. build = "mailbox"
  BY <1>1 DEF IInv, TypesInv, Places, Outside
<1>3. EmptySlots # {}
  BY <1>1, <1>2, PermitLeavesSlot
<1>4. PICK i \in Slots : /\ slot[i].state = "empty" /\ idx' = [idx EXCEPT ![t] = i]
                         /\ irq_off' = t /\ Goto(t, "claimed") /\ UNCHANGED answer
  BY <1>3, FirstEmptySlot DEF FindSlot, SpinLock, IrqOff
<1>5. TypesInv'
  BY <1>1, <1>2, <1>4, MoveKeepsTypes DEF IInv, TypesInv, Places
<1>6. WaitingInv' /\ LockInv'
  BY <1>1, <1>4, MoveKeepsLock DEF Inside
<1>7. SlotInv'
  <2>1. \A u \in Clients : /\ pc'[u] = IF u = t THEN "claimed" ELSE pc[u]
                           /\ idx'[u] = IF u = t THEN i ELSE idx[u]
    BY <1>4 DEF Goto, IInv, TypesInv
  <2>2. \A u \in Clients : u # t => pc[u] # "claimed"
    BY <1>1 DEF IInv, SlotInv
  <2> QED BY <1>1, <1>4, <2>1, <2>2 DEF IInv, SlotInv, Using
<1>8. AnswerInv'
  BY <1>1, <1>4 DEF IInv, AnswerInv
<1> QED BY <1>1, <1>5, <1>6, <1>7, <1>8, RunningInv DEF IInv

\* The client whose slot a step of it changes, while it keeps that slot.
LEMMA KeepsSlot ==
    ASSUME IInv, NEW t \in Clients, NEW to, Goto(t, to), UNCHANGED <<idx, irq_off>>,
           pc[t] \in Using, to \in Using,
           NEW state \in {"claimed", "pending", "replied"}, slot' = [slot EXCEPT ![idx[t]].state = state]
    PROVE  /\ SlotInv'
           /\ slot' \in [Slots -> [state : {"empty", "claimed", "pending", "replied"}, req : Requests]]
<1> USE Constants
<1>1. \A u \in Clients : pc'[u] = IF u = t THEN to ELSE pc[u]
  BY DEF Goto, IInv, TypesInv
<1>2. idx[t] \in Slots /\ slot[idx[t]].state # "empty"
  BY DEF IInv, TypesInv, SlotInv
<1>3. \A i \in Slots : /\ slot'[i].req = slot[i].req
                       /\ slot'[i].state = "empty" <=> slot[i].state = "empty"
  BY <1>2 DEF IInv, TypesInv
<1>4. \A u \in Clients : idx[u] \in Slots
  BY DEF IInv, TypesInv
<1>5. "claimed" \notin Using
  BY DEF Using
<1>6. SlotInv'
  BY <1>1, <1>3, <1>4, <1>5 DEF IInv, SlotInv
<1> QED BY <1>2, <1>6 DEF IInv, TypesInv

\* Taking the slot, counting the empty ones, telling the secure core.
LEMMA TxKeepsInv ==
    ASSUME IInv, NEW t \in Clients, TakeSlot(t) \/ Sample(t) \/ Account(t) \/ Notify(t)
    PROVE  IInv'
<1> USE Constants
<1>1. /\ UNCHANGED <<thread, lock, calls, idx, answer, build, main>> /\ main = "running"
      /\ thread[t] = "ready" /\ t # MailboxThread
      /\ pc[t] \in {"claimed", "sample", "account", "notify"} /\ pc[t] \in Places
  BY RunsFacts DEF TakeSlot, Sample, Account, Notify, IInv, TypesInv
<1>2. build = "mailbox"
  BY <1>1 DEF IInv, TypesInv, Places, Outside
<1>3. \E to \in Using :
         /\ Goto(t, to) /\ SlotInv'
         /\ slot' \in [Slots -> [state : {"empty", "claimed", "pending", "replied"}, req : Requests]]
  <2>1. CASE TakeSlot(t)
    <3>1. /\ pc[t] = "claimed" /\ Goto(t, "sample") /\ irq_off' = Nobody
          /\ slot' = [slot EXCEPT ![idx[t]] = [state |-> "claimed", req |-> Request(t)]]
      BY <2>1, RunsFacts DEF TakeSlot, SpinUnlock
    <3>2. Request(t) \in Requests /\ Request(t).owner = t
      BY <1>1 DEF Request, Requests, IInv, TypesInv
    <3>3. /\ slot' \in [Slots -> [state : {"empty", "claimed", "pending", "replied"}, req : Requests]]
          /\ \A i \in Slots : slot'[i] = IF i = idx[t] THEN [state |-> "claimed", req |-> Request(t)] ELSE slot[i]
      BY <3>1, <3>2 DEF IInv, TypesInv
    <3>4. \A u \in Clients : pc'[u] = IF u = t THEN "sample" ELSE pc[u]
      BY <3>1 DEF Goto, IInv, TypesInv
    <3>5. \A u \in Clients : idx'[u] = idx[u] /\ idx[u] \in Slots
      BY <1>1 DEF IInv, TypesInv
    <3>6. slot[idx[t]].state = "empty" /\ \A u \in Clients : pc[u] = "claimed" => u = t
      BY <3>1 DEF IInv, SlotInv
    <3>7. \A i \in Slots : slot'[i].state # "empty" =>
             /\ slot'[i].req.owner \in Clients
             /\ pc'[slot'[i].req.owner] \in Using
             /\ idx'[slot'[i].req.owner] = i
      BY <3>2, <3>3, <3>4, <3>5, <3>6 DEF IInv, SlotInv, Using
    <3>8. \A u \in Clients : pc'[u] \in Using =>
             slot'[idx'[u]].state # "empty" /\ slot'[idx'[u]].req.owner = u
      BY <3>2, <3>3, <3>4, <3>5, <3>6 DEF IInv, SlotInv
    <3>9. \A u \in Clients : pc'[u] # "claimed"
      BY <3>4, <3>6
    <3> QED BY <3>1, <3>3, <3>7, <3>8, <3>9 DEF SlotInv, Using
  <2>2. CASE Sample(t) \/ Account(t)
    <3>1. /\ pc[t] \in Using /\ UNCHANGED <<slot, irq_off>>
          /\ Goto(t, "account") \/ Goto(t, "notify")
      BY <2>2, RunsFacts DEF Sample, Account, mailboxVars, Using
    <3>2. PICK to \in {"account", "notify"} : Goto(t, to)
      BY <3>1
    <3>3. to \in Using /\ to # "claimed"
      BY DEF Using
    <3> QED BY <1>1, <3>1, <3>2, <3>3, MoveKeepsSlots DEF IInv, TypesInv
  <2>3. CASE Notify(t)
    <3>1. /\ pc[t] \in Using /\ irq_off' = irq_off /\ Goto(t, "wait")
          /\ slot' = [slot EXCEPT ![idx[t]].state = "pending"]
      BY <1>1, <2>3, RunsFacts DEF Notify, Using
    <3> QED BY <1>1, <3>1, KeepsSlot DEF Using
  <2> QED BY <2>1, <2>2, <2>3
<1>4. PICK to \in Using : Goto(t, to)
  BY <1>3
<1>5. TypesInv'
  <2>1. to \in Places
    BY <1>2 DEF Places
  <2> QED BY <1>1, <1>3, <1>4, <2>1, MoveKeepsTypes DEF IInv, TypesInv
<1>6. WaitingInv' /\ LockInv'
  <2>1. to \in Inside /\ pc[t] \in Inside
    BY <1>1 DEF Inside, Using
  <2> QED BY <1>1, <1>4, <2>1, MoveKeepsLock
<1>7. AnswerInv'
  BY <1>1 DEF IInv, AnswerInv
<1> QED BY <1>1, <1>3, <1>5, <1>6, <1>7, RunningInv DEF IInv

\* Waiting for the reply.
LEMMA WaitKeepsInv ==
    ASSUME IInv, NEW t \in Clients, Wait(t)
    PROVE  IInv'
<1> USE Constants
<1>1. /\ UNCHANGED <<slot, irq_off, lock, calls, idx, answer, build, main>> /\ main = "running"
      /\ thread[t] = "ready" /\ pc[t] = "wait" /\ Goto(t, "check")
  BY RunsFacts DEF Wait, mailboxVars
<1>2. thread' = thread \/ thread' = [thread EXCEPT ![t] = "flags"]
  BY DEF Wait, WaitReply, WaitFlag
<1>3. \A u \in Clients : /\ pc'[u] = IF u = t THEN "check" ELSE pc[u]
                         /\ thread'[u] = IF u = t THEN thread'[t] ELSE thread[u]
                         /\ thread'[t] \in {"ready", "flags"}
  BY <1>1, <1>2 DEF Goto, IInv, TypesInv
<1>4. /\ thread' \in [Threads -> {"absent", "ready", "lock", "flags"}]
      /\ thread'[MailboxThread] = "absent"
  BY <1>2 DEF IInv, TypesInv
<1>5. TypesInv'
  <2>1. "check" \in Places
    BY <1>1 DEF IInv, TypesInv, Places, Using, Outside
  <2> QED BY <1>1, <1>4, <2>1, MoveKeepsTypes DEF IInv, TypesInv
<1>6. WaitingInv' /\ HoldersInv'
  BY <1>1, <1>3 DEF IInv, WaitingInv, LockInv, HoldersInv, Inside, Using
<1>7. CountInv'
  BY <1>1 DEF IInv, LockInv, CountInv, Permits
<1>8. QueueInv'
  <2>1. \A i \in DOMAIN lock.waiting : lock.waiting[i] \in Clients /\ lock.waiting[i] # t
    BY <1>1 DEF IInv, TypesInv, LockInv, QueueInv
  <2> QED BY <1>1, <1>3, <2>1 DEF IInv, LockInv, QueueInv
<1>9. SlotInv' /\ AnswerInv'
  BY <1>1, MoveKeepsSlots DEF IInv, AnswerInv, Using
<1> QED BY <1>1, <1>5, <1>6, <1>7, <1>8, <1>9, RunningInv DEF IInv, LockInv

\* The client takes its reply, and its slot is free again.
LEMMA TakeReplyKeepsInv ==
    ASSUME IInv, NEW t \in Clients, TakeReply(t)
    PROVE  IInv'
<1> USE Constants
<1>1. /\ UNCHANGED <<thread, irq_off, lock, calls, idx, build, main>> /\ main = "running"
      /\ thread[t] = "ready" /\ pc[t] = "check" /\ Goto(t, "release")
      /\ answer' = [answer EXCEPT ![t] = slot[idx[t]].req]
      /\ slot' = [slot EXCEPT ![idx[t]] = EmptySlot]
  BY RunsFacts DEF TakeReply
<1>2. /\ idx[t] \in Slots /\ slot[idx[t]].req \in Requests /\ slot[idx[t]].req.owner = t
  BY <1>1 DEF IInv, TypesInv, SlotInv, Using
<1>3. EmptySlot \in [state : {"empty", "claimed", "pending", "replied"}, req : Requests]
      /\ EmptySlot.state = "empty"
  BY DEF EmptySlot, NoRequest, Requests
<1>4. TypesInv'
  <2>1. "release" \in Places
    BY DEF Places
  <2> QED BY <1>1, <1>2, <1>3, <2>1, MoveKeepsTypes DEF IInv, TypesInv
<1>5. WaitingInv' /\ LockInv'
  BY <1>1, MoveKeepsLock DEF Inside, Using
<1>6. SlotInv'
  <2>1. \A u \in Clients : /\ pc'[u] = IF u = t THEN "release" ELSE pc[u]
                           /\ idx'[u] = idx[u] /\ idx[u] \in Slots
    BY <1>1 DEF Goto, IInv, TypesInv
  <2>2. \A i \in Slots : slot'[i] = IF i = idx[t] THEN EmptySlot ELSE slot[i]
    BY <1>1 DEF IInv, TypesInv
  <2>3. \A i \in Slots : i # idx[t] /\ slot[i].state # "empty" => slot[i].req.owner # t
    BY DEF IInv, SlotInv
  <2>4. \A i \in Slots : slot'[i].state # "empty" =>
           /\ slot'[i].req.owner \in Clients
           /\ pc'[slot'[i].req.owner] \in Using
           /\ idx'[slot'[i].req.owner] = i
    BY <1>3, <2>1, <2>2, <2>3 DEF IInv, SlotInv
  <2>5. \A u \in Clients : pc'[u] \in Using =>
           slot'[idx'[u]].state # "empty" /\ slot'[idx'[u]].req.owner = u
    <3> SUFFICES ASSUME NEW u \in Clients, pc'[u] \in Using
                 PROVE  slot'[idx'[u]].state # "empty" /\ slot'[idx'[u]].req.owner = u
      OBVIOUS
    <3>1. u # t /\ pc[u] \in Using
      BY <2>1 DEF Using
    <3>2. slot[idx[u]].state # "empty" /\ slot[idx[u]].req.owner = u
      BY <3>1 DEF IInv, SlotInv
    <3>3. idx[u] # idx[t]
      BY <1>2, <3>1, <3>2
    <3> QED BY <2>1, <2>2, <3>2, <3>3
  <2>6. \A u \in Clients : pc'[u] = "claimed" => slot'[idx'[u]].state = "empty" /\ irq_off' = u
    BY <1>1, <1>3, <2>1, <2>2 DEF IInv, SlotInv
  <2> QED BY <2>4, <2>5, <2>6 DEF SlotInv
<1>7. AnswerInv'
  <2>1. slot[idx[t]].req # Error
    BY <1>2 DEF Error
  <2> QED BY <1>1, <2>1 DEF IInv, TypesInv, AnswerInv
<1> QED BY <1>1, <1>4, <1>5, <1>6, <1>7, RunningInv DEF IInv

\* The reply goes to the slot it is for; the owner keeps it.
LEMMA ReplyKeepsInv ==
    ASSUME IInv, NEW i \in Slots, Reply(i)
    PROVE  IInv'
<1> USE Constants
<1>1. /\ UNCHANGED <<build, main, thread, irq_off, lock, pc, calls, idx>>
      /\ slot[i].state = "pending"
  BY DEF Reply, WakeTaskIsr, bootVars
<1>2. build = "mailbox"
  <2>1. slot[i].req.owner \in Clients /\ pc[slot[i].req.owner] \in Using
    BY <1>1 DEF IInv, SlotInv
  <2>2. pc[slot[i].req.owner] \in Places
    BY <2>1 DEF IInv, TypesInv
  <2> QED BY <2>1, <2>2 DEF IInv, TypesInv, Places, Outside, Using
<1>3. answer' = answer /\ slot' = [slot EXCEPT ![i].state = "replied"]
  BY <1>2 DEF Reply
<1>4. /\ slot' \in [Slots -> [state : {"empty", "claimed", "pending", "replied"}, req : Requests]]
      /\ \A j \in Slots : /\ slot'[j].req = slot[j].req
                          /\ slot'[j].state = "empty" <=> slot[j].state = "empty"
  BY <1>1, <1>3 DEF IInv, TypesInv
<1>5. TypesInv'
  BY <1>1, <1>3, <1>4 DEF IInv, TypesInv, Places
<1>6. BootInv' /\ WaitingInv' /\ AnswerInv'
  BY <1>1, <1>3 DEF IInv, BootInv, WaitingInv, AnswerInv, Stages
<1>7. LockInv'
  BY <1>1 DEF IInv, LockInv, CountInv, QueueInv, HoldersInv, Permits
<1>8. SlotInv'
  <2>1. \A u \in Clients : idx[u] \in Slots
    BY DEF IInv, TypesInv
  <2> QED BY <1>1, <1>4, <2>1 DEF IInv, SlotInv
<1> QED BY <1>5, <1>6, <1>7, <1>8 DEF IInv

\* The statistics, seen from the lock and the slots: only a place changes.
LEMMA StatisticsKeepsInv == IInv /\ Statistics => IInv'
<1> SUFFICES ASSUME IInv, Statistics PROVE IInv'
  OBVIOUS
<1> USE Constants
<1>1. PICK to \in {"idle", "reset", "average"} :
         /\ Goto(App, to) /\ pc[App] \in {"idle", "reset", "average"}
         /\ UNCHANGED <<slot, thread, irq_off, lock, calls, idx, answer, build, main>>
         /\ main = "running" /\ thread[App] = "ready"
  <2>1. ASSUME NEW from \in {"idle", "reset", "average"}, NEW to \in {"idle", "reset", "average"},
               Control(from, to)
        PROVE  /\ Goto(App, to) /\ pc[App] \in {"idle", "reset", "average"}
               /\ UNCHANGED <<slot, thread, irq_off, lock, calls, idx, answer, build, main>>
               /\ main = "running" /\ thread[App] = "ready"
    BY <2>1, RunsFacts DEF Control
  <2> QED BY <2>1 DEF Statistics, ResetBegin, ResetEnd, AverageBegin, AverageEnd
<1>2. to \in Places /\ to \notin Inside /\ to \notin Using /\ pc[App] \notin Inside /\ pc[App] \notin Using
      /\ to # "claimed"
  BY <1>1 DEF Places, Inside, Outside, Using
<1>3. TypesInv'
  BY <1>1, <1>2, MoveKeepsTypes DEF IInv, TypesInv
<1>4. WaitingInv' /\ LockInv'
  BY <1>1, <1>2, MoveKeepsLock
<1>5. SlotInv' /\ AnswerInv'
  BY <1>1, <1>2, MoveKeepsSlots DEF IInv, AnswerInv
<1> QED BY <1>1, <1>3, <1>4, <1>5, RunningInv DEF IInv

\* Threads that begin, and threads woken by an interrupt.
LEMMA ReadyKeepsInv ==
    ASSUME IInv, UNCHANGED <<slot, irq_off, lock, calls, idx, answer, pc, build, main>>,
           \A t \in Clients : \/ thread'[t] = thread[t]
                              \/ thread[t] \in {"absent", "flags"} /\ thread'[t] = "ready",
           thread' \in [Threads -> {"absent", "ready", "lock", "flags"}],
           thread'[MailboxThread] = "absent"
    PROVE  IInv'
<1> USE Constants
<1>1. TypesInv'
  BY DEF IInv, TypesInv, Places
<1>2. BootInv'
  BY DEF IInv, BootInv, Stages
<1>3. WaitingInv' /\ HoldersInv'
  BY DEF IInv, WaitingInv, LockInv, HoldersInv
<1>4. CountInv'
  BY DEF IInv, LockInv, CountInv, Permits
<1>5. QueueInv'
  <2>1. \A i \in DOMAIN lock.waiting : lock.waiting[i] \in Clients /\ thread[lock.waiting[i]] = "lock"
    BY DEF IInv, TypesInv, LockInv, QueueInv
  <2> QED BY <2>1 DEF IInv, LockInv, QueueInv
<1>6. SlotInv' /\ AnswerInv'
  BY DEF IInv, SlotInv, AnswerInv
<1> QED BY <1>1, <1>2, <1>3, <1>4, <1>5, <1>6 DEF IInv, LockInv

LEMMA SpawnKeepsInv ==
    ASSUME IInv, NEW t \in Clients, Spawn(t)
    PROVE  IInv'
<1> USE Constants
<1>1. /\ UNCHANGED <<slot, irq_off, lock, calls, idx, answer, pc, build, main>>
      /\ thread[t] = "absent" /\ ThreadNew(t, 0)
  BY RunsFacts DEF Spawn, mailboxVars, progVars, os_wrapper_thread_new
<1>2. thread' = thread \/ thread' = [thread EXCEPT ![t] = "ready"]
  <2>1. CASE Fits(ThreadMemory(0))
    BY <1>1, <2>1 DEF ThreadNew
  <2>2. CASE ~Fits(ThreadMemory(0))
    BY <1>1, <2>2 DEF ThreadNew, IInv, TypesInv
  <2> QED BY <2>1, <2>2
<1>3. /\ \A u \in Clients : thread'[u] = thread[u] \/ (thread[u] = "absent" /\ thread'[u] = "ready")
      /\ thread' \in [Threads -> {"absent", "ready", "lock", "flags"}]
      /\ thread'[MailboxThread] = "absent"
  BY <1>1, <1>2 DEF IInv, TypesInv
<1> QED BY <1>1, <1>3, ReadyKeepsInv

LEMMA ProcessingKeepsInv == IInv /\ Processing => IInv'
<1> SUFFICES ASSUME IInv, Processing PROVE IInv'
  OBVIOUS
<1> USE Constants
<1> DEFINE h == Head(isr_queue)
<1>1. UNCHANGED <<slot, irq_off, lock, calls, idx, answer, pc, build, main>>
  BY DEF Processing, PostProcess, mailboxVars, bootVars, progVars
<1>2. thread' = thread \/ (thread[h] = "flags" /\ thread' = [thread EXCEPT ![h] = "ready"])
  <2>1. CASE thread[h] = "flags" /\ flags[h]
    BY <2>1 DEF Processing, PostProcess
  <2>2. CASE ~(thread[h] = "flags" /\ flags[h])
    BY <2>2 DEF Processing, PostProcess, IInv, TypesInv
  <2> QED BY <2>1, <2>2
<1> HIDE DEF h
<1>3. /\ \A u \in Clients : thread'[u] = thread[u] \/ (thread[u] = "flags" /\ thread'[u] = "ready")
      /\ thread' \in [Threads -> {"absent", "ready", "lock", "flags"}]
      /\ thread'[MailboxThread] = "absent"
  BY <1>2 DEF IInv, TypesInv
<1> QED BY <1>1, <1>3, ReadyKeepsInv

-----------------------------------------------------------------------------
(* Together.  The steps of the mailbox thread and of its clients are not   *)
(* taken in these builds.                                                  *)

LEMMA NextKeepsInv == IInv /\ [Next]_vars => IInv'
<1> SUFFICES ASSUME IInv, [Next]_vars PROVE IInv'
  OBVIOUS
<1> USE Constants
<1>1. CASE Boot
  BY <1>1, BootKeepsInv
<1>2. CASE Receive
  BY <1>2, RunsFacts DEF Receive
<1>3. CASE Statistics
  BY <1>3, StatisticsKeepsInv
<1>4. CASE Processing
  BY <1>4, ProcessingKeepsInv
<1>5. CASE \E i \in Slots : Reply(i)
  BY <1>5, ReplyKeepsInv
<1>6. ASSUME NEW t \in Threads, Step(t) PROVE IInv'
  <2>1. t \in Clients
    BY <1>6, RunsFacts DEF Step, Refused, Acquire, SecureCall, Release, Send, FindSlot, TakeSlot, Sample,
                           Account, Notify, Wait, TakeReply, HasReply
  <2>2. ~Send(t) /\ ~HasReply(t)
    BY <2>1, RunsFacts DEF Send, HasReply, IInv, TypesInv, Places, Outside, Using
  <2> QED BY <1>6, <2>1, <2>2, CallKeepsInv, LockStepKeepsInv, FindSlotKeepsInv, TxKeepsInv,
             WaitKeepsInv, TakeReplyKeepsInv DEF Step
<1>7. CASE \E t \in Clients : Call(t) \/ Spawn(t)
  BY <1>7, CallKeepsInv, SpawnKeepsInv
<1>8. CASE UNCHANGED vars
  BY <1>8, ReadyKeepsInv DEF vars, osVars, mailboxVars, bootVars, progVars, IInv, TypesInv
<1> QED BY <1>1, <1>2, <1>3, <1>4, <1>5, <1>6, <1>7, <1>8 DEF Next

LEMMA BuildNeverChanges == Next => build' = build
<1>1. Boot => build' = build
  BY DEF Boot, PlatformInit, CpInit, KernelInitialize, InterfaceInit, WaitSecureCpu, MailboxInit,
         AfterMailboxInit, MailboxThreadNew, AppThreadNew, CreateThread, KernelStart, MainGoes
<1>2. \A t, at : Runs(t, at) => build' = build
  BY DEF Runs, bootVars
<1>3. Receive \/ Statistics => build' = build
  BY <1>2 DEF Receive, Statistics, ResetBegin, ResetEnd, AverageBegin, AverageEnd, Control
<1>4. \A t \in Threads : Step(t) => build' = build
  BY <1>2 DEF Step, Refused, Acquire, SecureCall, Release, Send, FindSlot, TakeSlot, Sample,
              Account, Notify, Wait, TakeReply, HasReply
<1>5. \A t \in Clients : Call(t) \/ Spawn(t) => build' = build
  BY <1>2 DEF Call, Spawn
<1>6. Processing => build' = build
  BY DEF Processing, bootVars
<1>7. \A i \in Slots : Reply(i) => build' = build
  BY DEF Reply, bootVars
<1> QED BY <1>1, <1>3, <1>4, <1>5, <1>6, <1>7 DEF Next

\* The invariant is about the builds with a lock; the build never changes.
LockBuild == build # "thread" => IInv

LEMMA LockBuildInvariant == Spec => []LockBuild
<1>1. Init => LockBuild
  BY InitInv DEF LockBuild
<1>2. LockBuild /\ [Next]_vars => LockBuild'
  <2> SUFFICES ASSUME LockBuild, [Next]_vars, build' # "thread" PROVE IInv'
    BY DEF LockBuild
  <2>1. build' = build
    BY BuildNeverChanges DEF vars, bootVars
  <2> QED BY <2>1, NextKeepsInv DEF LockBuild
<1> QED BY <1>1, <1>2, PTL DEF Spec

\* tfm_ns_interface_init: with the mutex, at most one thread is between
\* acquiring it and releasing it, however many call.
THEOREM MutualExclusion == Spec => []OneInside
<1>1. LockBuild => OneInside
  <2> SUFFICES ASSUME IInv, build = "trustzone",
                      NEW t \in Clients, NEW u \in Clients,
                      pc[t] \in {"secure", "release"}, thread[t] = "ready",
                      pc[u] \in {"secure", "release"}, thread[u] = "ready"
               PROVE  t = u
    BY DEF LockBuild, OneInside
  <2>1. t \in lock.holders /\ u \in lock.holders
    BY DEF IInv, LockInv, HoldersInv, Inside
  <2> QED BY <2>1, OneHolder
<1> QED BY <1>1, LockBuildInvariant, PTL

\* tfm_ns_mailbox_os_lock_init: as many permits as slots are enough, so that
\* a client with a permit finds a slot and no call is turned down.
THEOREM PermitsEnough == Spec => []PermitMeansSlot
<1>1. LockBuild => PermitMeansSlot
  <2> SUFFICES ASSUME IInv, build = "mailbox"
               PROVE  /\ \A t \in Clients : pc[t] = "claim" /\ thread[t] = "ready" => EmptySlots # {}
                      /\ \A t \in Clients : Exists(lock) => answer[t] # Error
    BY DEF LockBuild, PermitMeansSlot
  <2> QED BY PermitLeavesSlot DEF IInv, AnswerInv
<1> QED BY <1>1, LockBuildInvariant, PTL

-----------------------------------------------------------------------------
(* The statistics, in every build.                                         *)

AllPlaces == Outside \cup Inside \cup {"send", "receive"}

\* Outside a reset, NumSlots slots per transmission bound the used slots, and
\* what the application thread has read for an average.
CountersInv ==
    /\ pc \in [Threads -> AllPlaces] /\ seen \in [Threads -> Nat]
    /\ nr_tx \in Nat /\ nr_used_slots \in Nat
    /\ main # "running" => pc[App] = "idle"
    /\ \A t \in Threads : pc[t] = "account" => seen[t] <= NumSlots
    /\ pc[App] # "reset" => nr_used_slots <= NumSlots * nr_tx
    /\ pc[App] = "average" => seen[App] <= NumSlots * nr_tx

LEMMA SlotsFinite ==
    ASSUME NEW S \in SUBSET Slots
    PROVE  IsFiniteSet(S) /\ Cardinality(S) \in 0..NumSlots
<1>1. IsFiniteSet(Slots) /\ Cardinality(Slots) = NumSlots
  BY Constants, FS_Interval DEF Slots
<1> QED BY <1>1, FS_Subset, FS_CardinalityType, Constants

\* A step that neither touches the counters nor begins or ends an update.
LEMMA PlainStepKeepsCounters ==
    ASSUME CountersInv, NEW t \in Threads, NEW at, Runs(t, at), NEW to \in AllPlaces, Goto(t, to),
           UNCHANGED <<nr_tx, nr_used_slots, seen>>,
           at \notin {"reset", "average"}, to \notin {"account", "reset", "average"}
    PROVE  CountersInv'
<1> USE Constants DEF AllPlaces, Outside, Inside, Using
<1>1. /\ pc' \in [Threads -> AllPlaces] /\ main' = "running" /\ pc[t] = at
      /\ \A u \in Threads : pc'[u] = IF u = t THEN to ELSE pc[u]
  BY DEF Goto, Runs, bootVars, CountersInv
<1> QED BY <1>1 DEF CountersInv

LEMMA StepKeepsCounters ==
    ASSUME CountersInv, NEW t \in Threads, Step(t)
    PROVE  CountersInv'
<1> USE Constants DEF AllPlaces, Outside, Inside, Using
<1>1. CASE Refused(t)
  BY <1>1, PlainStepKeepsCounters DEF Refused, mailboxVars
<1>2. CASE Acquire(t)
  BY <1>2, PlainStepKeepsCounters DEF Acquire, mailboxVars
<1>3. CASE SecureCall(t)
  BY <1>3, PlainStepKeepsCounters DEF SecureCall, mailboxVars
<1>4. CASE Release(t)
  BY <1>4, PlainStepKeepsCounters DEF Release, mailboxVars
<1>5. CASE Send(t)
  BY <1>5, PlainStepKeepsCounters DEF Send, mailboxVars
<1>6. CASE FindSlot(t)
  BY <1>6, PlainStepKeepsCounters DEF FindSlot, mailboxVars
<1>7. CASE TakeSlot(t)
  BY <1>7, PlainStepKeepsCounters DEF TakeSlot
<1>8. CASE Sample(t)
  <2>1. CountEmpty \in 0..NumSlots
    BY SlotsFinite DEF CountEmpty, EmptySlots
  <2>2. PICK to \in {"account", "notify"} : Goto(t, to)
    BY <1>8 DEF Sample
  <2>3. /\ pc' \in [Threads -> AllPlaces] /\ main' = "running" /\ pc[t] = "sample"
        /\ \A u \in Threads : pc'[u] = IF u = t THEN to ELSE pc[u]
        /\ seen' = [seen EXCEPT ![t] = CountEmpty] /\ UNCHANGED <<nr_tx, nr_used_slots>>
    BY <1>8, <2>2 DEF Sample, Goto, Runs, bootVars, mailboxVars, CountersInv
  <2> HIDE DEF CountEmpty
  <2> QED BY <2>1, <2>3 DEF CountersInv
<1>9. CASE Account(t)
  <2>1. /\ pc' \in [Threads -> AllPlaces] /\ main' = "running" /\ pc[t] = "account"
        /\ \A u \in Threads : pc'[u] = IF u = t THEN "notify" ELSE pc[u]
        /\ seen' = [seen EXCEPT ![t] = 0]
        /\ nr_used_slots' = nr_used_slots + (NumSlots - seen[t]) /\ nr_tx' = nr_tx + 1
    BY <1>9 DEF Account, StatsAdd, Goto, Runs, bootVars, CountersInv
  <2>2. seen[t] \in 0..NumSlots
    BY <2>1 DEF CountersInv
  <2>3. NumSlots * (nr_tx + 1) = NumSlots * nr_tx + NumSlots /\ NumSlots * nr_tx \in Nat
    BY DEF CountersInv
  <2>4. nr_used_slots' <= nr_used_slots + NumSlots /\ nr_used_slots' \in Nat /\ nr_tx' \in Nat
    BY <2>1, <2>2 DEF CountersInv
  <2>5. pc[App] # "reset" => nr_used_slots' <= NumSlots * nr_tx'
    BY <2>1, <2>3, <2>4 DEF CountersInv
  <2>6. pc[App] = "average" => seen[App] <= NumSlots * nr_tx'
    BY <2>1, <2>3 DEF CountersInv
  <2>7. seen' \in [Threads -> Nat] /\ \A u \in Threads : seen'[u] = IF u = t THEN 0 ELSE seen[u]
    BY <2>1 DEF CountersInv
  <2> QED BY <2>1, <2>4, <2>5, <2>6, <2>7 DEF CountersInv
<1>10. CASE Notify(t)
  BY <1>10, PlainStepKeepsCounters DEF Notify
<1>11. CASE Wait(t)
  BY <1>11, PlainStepKeepsCounters DEF Wait, mailboxVars
<1>12. CASE TakeReply(t)
  BY <1>12, PlainStepKeepsCounters DEF TakeReply
<1>13. CASE HasReply(t)
  BY <1>13, PlainStepKeepsCounters DEF HasReply, mailboxVars
<1> QED BY <1>1, <1>2, <1>3, <1>4, <1>5, <1>6, <1>7, <1>8, <1>9, <1>10, <1>11, <1>12, <1>13 DEF Step

LEMMA StatisticsKeepsCounters == CountersInv /\ Statistics => CountersInv'
<1> SUFFICES ASSUME CountersInv, Statistics PROVE CountersInv'
  OBVIOUS
<1> USE Constants DEF AllPlaces, Outside, Inside, Using
<1>1. ASSUME NEW from \in AllPlaces, NEW to \in AllPlaces, Control(from, to)
      PROVE  /\ pc' \in [Threads -> AllPlaces] /\ main' = "running" /\ pc[App] = from
             /\ \A u \in Threads : pc'[u] = IF u = App THEN to ELSE pc[u]
  BY <1>1 DEF Control, Goto, Runs, bootVars, CountersInv
<1>2. CASE ResetBegin
  BY <1>1, <1>2 DEF ResetBegin, Reinit, CountersInv
<1>3. CASE ResetEnd
  <2>1. nr_used_slots' = 0 /\ nr_tx' = nr_tx /\ NumSlots * nr_tx \in Nat
    BY <1>3 DEF ResetEnd, Reinit, CountersInv
  <2> QED BY <1>1, <1>3, <2>1 DEF ResetEnd, CountersInv
<1>4. CASE AverageBegin
  BY <1>1, <1>4 DEF AverageBegin, CountersInv
<1>5. CASE AverageEnd
  BY <1>1, <1>5 DEF AverageEnd, CountersInv
<1> QED BY <1>2, <1>3, <1>4, <1>5 DEF Statistics

LEMMA NextKeepsCounters == CountersInv /\ [Next]_vars => CountersInv'
<1> SUFFICES ASSUME CountersInv, [Next]_vars PROVE CountersInv'
  OBVIOUS
<1> USE Constants DEF AllPlaces, Outside, Inside, Using
<1>1. ASSUME Boot PROVE CountersInv'
  <2>1. main # "running" /\ UNCHANGED <<pc, seen>>
    BY <1>1 DEF Boot, PlatformInit, CpInit, KernelInitialize, InterfaceInit, WaitSecureCpu, MailboxInit,
                AfterMailboxInit, MailboxThreadNew, AppThreadNew, CreateThread, KernelStart, MainGoes,
                NoThreads, progVars
  <2>2. UNCHANGED <<nr_tx, nr_used_slots>> \/ (nr_tx' = 0 /\ nr_used_slots' = 0)
    BY <1>1 DEF Boot, PlatformInit, CpInit, KernelInitialize, InterfaceInit, WaitSecureCpu, MailboxInit,
                MailboxThreadNew, AppThreadNew, CreateThread, KernelStart, NoThreads, mailboxVars, StatsInit, NoStats
  <2> QED BY <2>1, <2>2 DEF CountersInv
<1>2. CASE Receive
  BY <1>2, PlainStepKeepsCounters DEF Receive, mailboxVars
<1>3. CASE Statistics
  BY <1>3, StatisticsKeepsCounters
<1>4. CASE UNCHANGED <<pc, seen, nr_tx, nr_used_slots, main>>
  BY <1>4 DEF CountersInv
<1>5. CASE Processing
  BY <1>4, <1>5 DEF Processing, mailboxVars, bootVars, progVars
<1>6. CASE \E i \in Slots : Reply(i)
  BY <1>4, <1>6 DEF Reply, bootVars
<1>7. CASE \E t \in Threads : Step(t)
  BY <1>7, StepKeepsCounters
<1>8. ASSUME NEW t \in Clients, Call(t) \/ Spawn(t) PROVE CountersInv'
  <2>1. CASE Call(t)
    BY <2>1, PlainStepKeepsCounters DEF Call, mailboxVars
  <2>2. CASE Spawn(t)
    BY <1>4, <2>2 DEF Spawn, Runs, mailboxVars, bootVars, progVars
  <2> QED BY <1>8, <2>1, <2>2
<1>9. CASE UNCHANGED vars
  BY <1>4, <1>9 DEF vars, mailboxVars, bootVars, progVars
<1> QED BY <1>1, <1>2, <1>3, <1>5, <1>6, <1>7, <1>8, <1>9 DEF Next

LEMMA CountersInvariant == Spec => []CountersInv
<1>1. Init => CountersInv
  BY Constants DEF Init, CountersInv, AllPlaces, Outside, Inside, Using
<1> QED BY <1>1, NextKeepsCounters, PTL DEF Spec

\* The average of numbers that are in proportion, in tenths.
LEMMA AverageInProportion ==
    ASSUME NEW n \in Nat, NEW used \in Nat, NEW tx \in Nat, used <= n * tx
    PROVE  10 * Average(used, tx).avg_nr_slots + Average(used, tx).avg_nr_slots_tenths <= 10 * n
<1>1. CASE tx = 0
  BY <1>1 DEF Average, Udiv, Urem
<1>2. CASE tx # 0
  <2> DEFINE q == used \div tx
             r == used - tx * q
  <2>1. q \in Nat /\ tx * q <= used /\ used < tx * q + tx
    BY <1>2
  <2>2. r \in Nat /\ r < tx
    BY <2>1
  <2> DEFINE d == (r * 10) \div tx
  <2>3. d \in Nat /\ tx * d <= r * 10
    BY <1>2, <2>2
  <2> HIDE DEF q, d
  <2>4. d < 10
    BY <1>2, <2>2, <2>3
  <2>5. q <= n
    BY <1>2, <2>1
  <2>6. q = n => d = 0
    <3> SUFFICES ASSUME q = n PROVE d = 0
      OBVIOUS
    <3>1. tx * q = n * tx /\ r = 0
      BY <2>1, <2>2
    <3> QED BY <1>2, <2>3, <3>1
  <2>7. Average(used, tx).avg_nr_slots = q /\ Average(used, tx).avg_nr_slots_tenths = d
    BY <1>2 DEF Average, Udiv, Urem, q, d
  <2> QED BY <2>1, <2>3, <2>4, <2>5, <2>6, <2>7
<1> QED BY <1>1, <1>2

\* tfm_ns_mailbox_tx_stats_update, _reinit and _avg_slot: for any number of
\* threads and slots, with resets and averages anywhere between the locked
\* sections, the counters and the average never exceed what the slots allow.
THEOREM CountersBounded == Spec => []StatisticsBounded
<1>1. CountersInv => StatisticsBounded
  BY AverageInProportion, Constants DEF CountersInv, StatisticsBounded
<1> QED BY <1>1, CountersInvariant, PTL

-----------------------------------------------------------------------------
(* The kernel's memory, in every build.                                    *)

MemoryInv == conf \in DOMAIN Settings /\ Fits(memory)

LEMMA SettingsFacts ==
    ASSUME NEW c \in DOMAIN Settings
    PROVE  /\ Settings[c] \in Options /\ Compiles(Settings[c])
           /\ OsRtxConfigs[c] = osRtxConfig(Settings[c])
           /\ OsRtxConfigs[c].isr_queue_max \in Nat /\ NumSlots <= OsRtxConfigs[c].isr_queue_max
BY NsConstants DEF OsRtxConfigs, osRtxConfig, Options, KernelOptions

\* A pool that was initialised has what is not its own bookkeeping.
LEMMA KernelMemoryFits == conf \in DOMAIN Settings => Fits(KernelMemory)
<1> SUFFICES ASSUME conf \in DOMAIN Settings PROVE Fits(KernelMemory)
  OBVIOUS
<1> DEFINE k == Settings[conf].kernel
           o == Settings[conf].objects
<1>1. k \in KernelOptions /\ o \in ObjectOptions /\ cfg = osRtxConfig(Settings[conf])
  BY SettingsFacts DEF cfg, Options
<1>2. \A n \in Nat : n \div 8 \in Nat
  OBVIOUS
<1>3. \A e, n, s \in Nat : DataArea(e, n, s) \in Nat
  BY <1>2 DEF DataArea
<1>4. cfg.mem = PoolBytes(k, o) /\ cfg.mpi = PoolBlocks(k, o)
  BY <1>1 DEF osRtxConfig
<1>5. \A a \in DOMAIN cfg.mem : cfg.mem[a] \in Nat
  <2>1. /\ o.obj_mem["thread"] \in Nat /\ o.obj_mem["mempool"] \in Nat /\ o.obj_mem["msgqueue"] \in Nat
        /\ o.num["thread"] \in Nat /\ o.num["mempool"] \in Nat /\ o.num["msgqueue"] \in Nat
        /\ k.user_stack \in Nat /\ o.mempool_data \in Nat /\ o.msgqueue_data \in Nat /\ k.dynamic_mem \in Nat
    BY <1>1 DEF KernelOptions, ObjectOptions, Kinds
  <2> HIDE DEF k, o
  <2>2. /\ PoolBytes(k, o).stack \in Nat /\ PoolBytes(k, o).mp_data \in Nat
        /\ PoolBytes(k, o).mq_data \in Nat /\ PoolBytes(k, o).common \in Nat
        /\ DOMAIN PoolBytes(k, o) = {"stack", "mp_data", "mq_data", "common"}
    BY <1>3, <2>1 DEF PoolBytes
  <2> QED BY <1>4, <2>2
<1>6. \A b \in DOMAIN cfg.mpi : cfg.mpi[b] \in Nat
  <2>1. k.def_stack_num \in Nat /\ \A kind \in Kinds : o.num[kind] \in Nat
    BY <1>1 DEF KernelOptions, ObjectOptions
  <2> HIDE DEF k, o
  <2> QED BY <1>4, <2>1 DEF PoolBlocks
<1> HIDE DEF k, o
<1> QED BY <1>5, <1>6 DEF Fits, KernelMemory

\* Whatever is created leaves a memory that fits.
LEMMA CreationFits ==
    ASSUME MemoryInv
    PROVE  /\ \A t, size : ThreadNew(t, size) => Fits(memory')
           /\ \A kind, tokens : LockCreate(kind, tokens) => Fits(memory')
           /\ \A count, size : os_wrapper_msg_queue_create(count, size) => Fits(memory')
<1>1. ASSUME NEW t, NEW size, ThreadNew(t, size) PROVE Fits(memory')
  <2>1. memory' = IF Fits(ThreadMemory(size)) THEN ThreadMemory(size) ELSE memory
    BY <1>1 DEF ThreadNew
  <2> QED BY <2>1 DEF MemoryInv
<1>2. ASSUME NEW kind, NEW tokens, LockCreate(kind, tokens) PROVE Fits(memory')
  <2>1. memory' = IF Fits(TakeControlBlock(memory, kind)) THEN TakeControlBlock(memory, kind) ELSE memory
    BY <1>2 DEF LockCreate
  <2> QED BY <2>1 DEF MemoryInv
<1>3. ASSUME NEW count, NEW size, os_wrapper_msg_queue_create(count, size) PROVE Fits(memory')
  <2>1. memory' = IF Fits(QueueMemory(count, size)) THEN QueueMemory(count, size) ELSE memory
    BY <1>3 DEF os_wrapper_msg_queue_create
  <2> QED BY <2>1 DEF MemoryInv
<1> QED BY <1>1, <1>2, <1>3

LEMMA BootKeepsMemory == MemoryInv /\ Boot => MemoryInv'
<1> SUFFICES ASSUME MemoryInv, Boot PROVE MemoryInv'
  OBVIOUS
<1>1. conf' = conf
  BY DEF Boot, PlatformInit, CpInit, KernelInitialize, InterfaceInit, WaitSecureCpu, MailboxInit,
         MailboxThreadNew, AppThreadNew, CreateThread, KernelStart, NoMemory, osVars
<1>2. CASE KernelInitialize
  <2>1. Fits(memory')
    BY <1>2, KernelMemoryFits DEF KernelInitialize, MemoryInv
  <2> QED BY <1>1, <2>1 DEF MemoryInv, Fits
<1>3. CASE InterfaceInit \/ MailboxInit
  <2>1. Fits(memory')
    BY <1>3, CreationFits DEF InterfaceInit, MailboxInit, os_wrapper_mutex_create, LockInit, MqCreate,
                              os_wrapper_semaphore_create
  <2> QED BY <1>1, <2>1 DEF MemoryInv, Fits
<1>4. CASE MailboxThreadNew \/ AppThreadNew
  <2>1. Fits(memory')
    BY <1>4, CreationFits DEF MailboxThreadNew, AppThreadNew, CreateThread
  <2> QED BY <1>1, <2>1 DEF MemoryInv, Fits
<1>5. CASE UNCHANGED memory
  BY <1>1, <1>5 DEF MemoryInv, Fits
<1> QED BY <1>2, <1>3, <1>4, <1>5
        DEF Boot, PlatformInit, CpInit, WaitSecureCpu, KernelStart, NoMemory, osVars

LEMMA NextKeepsMemory == MemoryInv /\ [Next]_vars => MemoryInv'
<1> SUFFICES ASSUME MemoryInv, [Next]_vars PROVE MemoryInv'
  OBVIOUS
<1>1. CASE Boot
  BY <1>1, BootKeepsMemory
<1>2. ASSUME NEW t \in Clients, Spawn(t) PROVE MemoryInv'
  <2>1. Fits(memory') /\ conf' = conf
    BY <1>2, CreationFits DEF Spawn, os_wrapper_thread_new, Runs
  <2> QED BY <2>1 DEF MemoryInv, Fits
<1>3. CASE UNCHANGED <<conf, memory>>
  BY <1>3 DEF MemoryInv, Fits
<1>4. CASE Receive \/ Statistics \/ Processing
  BY <1>3, <1>4 DEF Receive, Statistics, ResetBegin, ResetEnd, AverageBegin, AverageEnd, Control,
                    Processing, PostProcess, Runs
<1>5. ASSUME NEW t \in Threads, Step(t) PROVE UNCHANGED <<conf, memory>>
  BY <1>5 DEF Step, Refused, Acquire, SecureCall, Release, Send, FindSlot, TakeSlot, Sample,
              Account, Notify, Wait, TakeReply, HasReply, Runs
<1>6. ASSUME NEW t \in Clients, Call(t) PROVE UNCHANGED <<conf, memory>>
  BY <1>6 DEF Call, Runs
<1>7. ASSUME NEW i \in Slots, Reply(i) PROVE UNCHANGED <<conf, memory>>
  BY <1>7 DEF Reply
<1>8. CASE UNCHANGED vars
  BY <1>3, <1>8 DEF vars, osVars
<1> QED BY <1>1, <1>2, <1>3, <1>4, <1>5, <1>6, <1>7, <1>8 DEF Next

LEMMA MemoryInvariant == Spec => []MemoryInv
<1>1. Init => MemoryInv
  <2> SUFFICES ASSUME Init PROVE MemoryInv
    OBVIOUS
  <2>1. conf \in DOMAIN Settings /\ memory = KernelMemory
    BY DEF Init
  <2> QED BY <2>1, KernelMemoryFits, Zenon DEF MemoryInv
<1> QED BY <1>1, NextKeepsMemory, PTL DEF Spec

-----------------------------------------------------------------------------
(* Requests and wake-ups in the builds with a lock.                        *)

\* The slot of a client holds the request of its present call, as far along
\* as the client is.
RequestsInv ==
    /\ \A t \in Clients : calls[t] <= MaxCalls
    /\ \A i \in Slots : slot[i].state = "empty" => slot[i] = EmptySlot
    /\ \A t \in Clients : /\ pc[t] \in {"sample", "account", "notify"} => slot[idx[t]].state = "claimed"
                          /\ pc[t] \in {"wait", "check"} => slot[idx[t]].state \in {"pending", "replied"}
                          /\ pc[t] \in Using => slot[idx[t]].req.n = calls[t]
    /\ \A t \in Clients : answer[t] \notin {NoRequest, Error} => answer[t] = [owner |-> t, n |-> calls[t]]
    /\ queue = NoQueue

Replied(t) == pc[t] \in {"wait", "check"} /\ slot[idx[t]].state = "replied"

\* A flag is set, and a wake-up pending, only for a client whose reply is
\* there; a client that is woken has used its flag up.
FlagsInv ==
    /\ flags \in [Threads -> BOOLEAN]
    /\ \A t \in Clients : /\ flags[t] => Replied(t)
                          /\ pc[t] = "check" /\ thread[t] = "ready" => Replied(t) /\ ~flags[t]
    /\ isr_queue \in Seq(Clients)
    /\ \A k \in DOMAIN isr_queue : Replied(isr_queue[k])

CallInv == IInv /\ RequestsInv /\ FlagsInv

\* Steps outside the part that uses a slot.
LEMMA OutsideKeepsRequests ==
    ASSUME CallInv, UNCHANGED <<slot, queue, flags, isr_queue>>,
           \A u \in Clients :
              /\ pc'[u] = pc[u] \/ (pc[u] \notin Using /\ pc'[u] \notin Using)
              /\ thread'[u] = thread[u] \/ pc'[u] # "check"
              /\ pc[u] \in Using => idx'[u] = idx[u] /\ calls'[u] = calls[u]
              /\ calls'[u] <= MaxCalls
              /\ answer'[u] \notin {NoRequest, Error} => answer'[u] = [owner |-> u, n |-> calls'[u]]
    PROVE  RequestsInv' /\ FlagsInv'
<1> USE Constants
<1>1. {"sample", "account", "notify", "wait", "check"} \subseteq Using
  BY DEF Using
<1>2. RequestsInv'
  <2>1. \A u \in Clients : /\ pc'[u] \in Using => /\ pc[u] \in Using /\ pc'[u] = pc[u]
                                                 /\ idx'[u] = idx[u] /\ calls'[u] = calls[u]
                           /\ pc'[u] \in {"sample", "account", "notify", "wait", "check"} => pc'[u] \in Using
    BY <1>1
  <2>2. \A i \in Slots : slot'[i].state = "empty" => slot'[i] = EmptySlot
    BY DEF CallInv, RequestsInv
  <2>3. ASSUME NEW u \in Clients
        PROVE  /\ pc'[u] \in {"sample", "account", "notify"} => slot'[idx'[u]].state = "claimed"
               /\ pc'[u] \in {"wait", "check"} => slot'[idx'[u]].state \in {"pending", "replied"}
               /\ pc'[u] \in Using => slot'[idx'[u]].req.n = calls'[u]
    <3>1. CASE pc'[u] \notin Using
      BY <2>1, <3>1
    <3>2. CASE pc'[u] \in Using
      <4>1. pc'[u] = pc[u] /\ idx'[u] = idx[u] /\ calls'[u] = calls[u] /\ pc[u] \in Using
        BY <2>1, <3>2
      <4> QED BY <4>1 DEF CallInv, RequestsInv
    <3> QED BY <3>1, <3>2
  <2> QED BY <2>2, <2>3 DEF CallInv, RequestsInv
<1>3. \A u \in Clients : Replied(u) => Replied(u)'
  BY <1>1 DEF Replied
<1>4. \A k \in DOMAIN isr_queue : isr_queue[k] \in Clients
  BY DEF CallInv, FlagsInv
<1>5. FlagsInv'
  BY <1>1, <1>3, <1>4 DEF CallInv, FlagsInv
<1> QED BY <1>2, <1>5

\* The move of one thread, seen from all of them.
LEMMA GotoPlaces ==
    ASSUME IInv, NEW t \in Clients, NEW to, Goto(t, to)
    PROVE  \A u \in Clients : pc'[u] = IF u = t THEN to ELSE pc[u]
BY Constants DEF Goto, IInv, TypesInv

LEMMA CallKeepsRequests ==
    ASSUME CallInv, NEW t \in Clients,
           Call(t) \/ Refused(t) \/ SecureCall(t) \/ Acquire(t) \/ Release(t) \/ FindSlot(t)
    PROVE  RequestsInv' /\ FlagsInv'
<1> USE Constants
<1>1. IInv /\ UNCHANGED <<slot, queue, flags, isr_queue>>
  BY DEF CallInv, Call, Refused, SecureCall, Acquire, Release, FindSlot, mailboxVars
<1>2. PICK to \in {"acquire", "idle", "release", "secure", "claim", "send", "claimed"} :
         Goto(t, to) /\ pc[t] \notin Using
  BY <1>1, RunsFacts DEF Call, Refused, SecureCall, Acquire, Release, FindSlot, Using
<1>3. \A u \in Clients : /\ pc'[u] = pc[u] \/ (pc[u] \notin Using /\ pc'[u] \notin Using)
                         /\ pc'[u] = "check" => pc[u] = "check"
  BY <1>1, <1>2, GotoPlaces DEF Using
<1>4. \A u \in Clients : thread'[u] = thread[u] \/ pc'[u] # "check"
  <2>1. CASE UNCHANGED thread
    BY <2>1
  <2>2. CASE thread' = [thread EXCEPT ![t] = "lock"]
    BY <1>1, <1>2, <2>2, GotoPlaces DEF IInv, TypesInv, Using
  <2>3. CASE lock.waiting # <<>> /\ thread' = [thread EXCEPT ![Head(lock.waiting)] = "ready"]
    <3>1. Head(lock.waiting) = lock.waiting[1] /\ 1 \in DOMAIN lock.waiting /\ Head(lock.waiting) \in Clients
      BY <1>1, <2>3 DEF IInv, TypesInv
    <3>2. pc[Head(lock.waiting)] # "check"
      BY <1>1, <3>1 DEF IInv, LockInv, QueueInv, WaitingInv
    <3>3. \A u \in Clients : thread'[u] = thread[u] \/ u = Head(lock.waiting)
      BY <1>1, <2>3, <3>1 DEF IInv, TypesInv
    <3> QED BY <1>3, <3>2, <3>3
  <2> QED BY <2>1, <2>2, <2>3
          DEF Call, Refused, SecureCall, Acquire, Release, FindSlot, os_wrapper_mutex_acquire, OsLockAcquire,
              os_wrapper_semaphore_acquire, LockAcquire, os_wrapper_mutex_release, OsLockRelease,
              os_wrapper_semaphore_release, LockRelease
<1>5. \A u \in Clients : /\ pc[u] \in Using => idx'[u] = idx[u] /\ calls'[u] = calls[u]
                         /\ calls'[u] <= MaxCalls
                         /\ answer'[u] \notin {NoRequest, Error} => answer'[u] = [owner |-> u, n |-> calls'[u]]
  <2>1. CASE Call(t)
    <3>1. /\ calls' = [calls EXCEPT ![t] = IF calls[t] = MaxCalls THEN 1 ELSE calls[t] + 1]
          /\ answer' = [answer EXCEPT ![t] = NoRequest] /\ UNCHANGED idx
      BY <2>1 DEF Call
    <3> QED BY <1>1, <1>2, <3>1, NsConstants DEF CallInv, RequestsInv, IInv, TypesInv
  <2>2. CASE Refused(t)
    <3>1. answer' = [answer EXCEPT ![t] = Error] /\ UNCHANGED <<calls, idx>>
      BY <2>2 DEF Refused
    <3> QED BY <1>1, <3>1 DEF CallInv, RequestsInv, IInv, TypesInv
  <2>3. CASE SecureCall(t)
    <3>1. answer' = [answer EXCEPT ![t] = [owner |-> t, n |-> calls[t]]] /\ UNCHANGED <<calls, idx>>
      BY <2>3 DEF SecureCall, Request
    <3> QED BY <1>1, <3>1 DEF CallInv, RequestsInv, IInv, TypesInv
  <2>4. CASE Acquire(t) \/ Release(t)
    <3>1. UNCHANGED <<calls, idx, answer>>
      BY <2>4 DEF Acquire, Release
    <3> QED BY <3>1 DEF CallInv, RequestsInv
  <2>5. CASE FindSlot(t)
    <3>1. /\ UNCHANGED calls
          /\ UNCHANGED idx \/ \E i : idx' = [idx EXCEPT ![t] = i]
          /\ UNCHANGED answer \/ answer' = [answer EXCEPT ![t] = Error]
      BY <2>5, Zenon DEF FindSlot
    <3>2. \A u \in Clients : u # t => idx'[u] = idx[u]
      BY <1>1, <3>1 DEF IInv, TypesInv
    <3> QED BY <1>1, <1>2, <3>1, <3>2 DEF CallInv, RequestsInv, IInv, TypesInv
  <2> QED BY <2>1, <2>2, <2>3, <2>4, <2>5
<1> QED BY <1>1, <1>3, <1>4, <1>5, OutsideKeepsRequests

\* A step of t that changes no slot but its own, with no wake-up about.
LEMMA OwnSlotKeepsRequests ==
    ASSUME CallInv, NEW t \in Clients, NEW to, Goto(t, to), to # "check",
           UNCHANGED <<idx, calls, thread, queue, flags, isr_queue>>, isr_queue = <<>>, ~flags[t],
           pc[t] \in Using \cup {"claimed"}, NEW s, slot' = [slot EXCEPT ![idx[t]] = s],
           s.state = "empty" => s = EmptySlot,
           to \in {"sample", "account", "notify"} => s.state = "claimed",
           to = "wait" => s.state = "pending",
           to \in Using => s.req.n = calls[t],
           \A u \in Clients : answer'[u] \notin {NoRequest, Error} => answer'[u] = [owner |-> u, n |-> calls[u]]
    PROVE  RequestsInv' /\ FlagsInv'
<1> USE Constants
<1>1. \A u \in Clients : pc'[u] = IF u = t THEN to ELSE pc[u]
  BY GotoPlaces DEF CallInv
<1>2. \A u \in Clients : idx[u] \in Slots /\ idx'[u] = idx[u] /\ calls'[u] = calls[u]
  BY DEF CallInv, IInv, TypesInv
<1>3. \A i \in Slots : slot'[i] = IF i = idx[t] THEN s ELSE slot[i]
  BY DEF CallInv, IInv, TypesInv
<1>4. {"sample", "account", "notify", "wait", "check"} \subseteq Using
  BY DEF Using
<1>5. \A u \in Clients : u # t /\ pc[u] \in Using => slot'[idx'[u]] = slot[idx[u]]
  <2>1. \A u \in Clients : u # t /\ pc[u] \in Using => idx[u] # idx[t]
    BY DEF CallInv, IInv, SlotInv
  <2> QED BY <1>2, <1>3, <2>1
<1>6. ASSUME NEW u \in Clients
      PROVE  /\ pc'[u] \in {"sample", "account", "notify"} => slot'[idx'[u]].state = "claimed"
             /\ pc'[u] \in {"wait", "check"} => slot'[idx'[u]].state \in {"pending", "replied"}
             /\ pc'[u] \in Using => slot'[idx'[u]].req.n = calls'[u]
  <2>1. CASE u = t
    BY <1>1, <1>2, <1>3, <2>1
  <2>2. CASE u # t
    <3>1. pc'[u] = pc[u]
      BY <1>1, <2>2
    <3> QED BY <1>2, <1>4, <1>5, <2>2, <3>1 DEF CallInv, RequestsInv
  <2> QED BY <2>1, <2>2
<1>7. RequestsInv'
  BY <1>2, <1>3, <1>6 DEF CallInv, RequestsInv
<1>8. \A u \in Clients : u # t /\ Replied(u) => Replied(u)'
  BY <1>1, <1>4, <1>5 DEF Replied
<1>9. FlagsInv'
  BY <1>1, <1>8 DEF CallInv, FlagsInv
<1> QED BY <1>7, <1>9

LEMMA TxKeepsRequests ==
    ASSUME CallInv, NEW t \in Clients, TakeSlot(t) \/ Sample(t) \/ Account(t) \/ Notify(t) \/ TakeReply(t)
    PROVE  RequestsInv' /\ FlagsInv'
<1> USE Constants
<1>1. IInv /\ UNCHANGED <<idx, calls, thread, queue, flags, isr_queue>> /\ isr_queue = <<>>
  BY DEF CallInv, TakeSlot, Sample, Account, Notify, TakeReply, Runs
<1>2. pc[t] \in {"claimed", "sample", "account", "notify", "check"} /\ thread[t] = "ready"
  BY <1>1, RunsFacts DEF TakeSlot, Sample, Account, Notify, TakeReply
<1>3. ~flags[t] /\ pc[t] \in Using \cup {"claimed"}
  BY <1>2 DEF CallInv, FlagsInv, Replied, Using
<1>4. idx[t] \in Slots /\ t # MailboxThread /\ calls[t] \in Nat
  BY DEF CallInv, IInv, TypesInv
<1>5. TakeReply(t) \/ answer' = answer
  BY DEF TakeSlot, Sample, Account, Notify
<1>6. \A u \in Clients : answer'[u] \notin {NoRequest, Error} => answer'[u] = [owner |-> u, n |-> calls[u]]
  <2>1. CASE TakeReply(t)
    <3>1. pc[t] = "check" /\ answer' = [answer EXCEPT ![t] = slot[idx[t]].req]
      BY <1>1, <2>1, RunsFacts DEF TakeReply
    <3>2. slot[idx[t]].req \in Requests /\ slot[idx[t]].req.owner = t /\ slot[idx[t]].req.n = calls[t]
      BY <1>4, <3>1 DEF CallInv, IInv, TypesInv, SlotInv, RequestsInv, Using
    <3>3. slot[idx[t]].req = [owner |-> t, n |-> calls[t]]
      BY <3>2 DEF Requests
    <3> QED BY <3>1, <3>3 DEF CallInv, IInv, TypesInv, RequestsInv
  <2> QED BY <1>5, <2>1 DEF CallInv, RequestsInv
<1>7. CASE TakeSlot(t)
  <2> DEFINE s == [state |-> "claimed", req |-> [owner |-> t, n |-> calls[t]]]
             to == "sample"
  <2>1. Goto(t, to) /\ slot' = [slot EXCEPT ![idx[t]] = s]
    BY <1>4, <1>7 DEF TakeSlot, Request
  <2>2. s.state = "claimed" /\ s.req.n = calls[t] /\ to \notin {"wait", "check"}
    OBVIOUS
  <2> HIDE DEF s, to
  <2> QED BY <1>1, <1>3, <1>6, <2>1, <2>2, OwnSlotKeepsRequests
<1>8. CASE Sample(t) \/ Account(t)
  <2>1. PICK to \in {"account", "notify"} : Goto(t, to)
    BY <1>8 DEF Sample, Account
  <2>2. slot' = [slot EXCEPT ![idx[t]] = slot[idx[t]]]
    BY <1>8, <1>4 DEF Sample, Account, mailboxVars, CallInv, IInv, TypesInv
  <2>3. pc[t] \in {"sample", "account"}
    BY <1>1, <1>8, RunsFacts DEF Sample, Account
  <2>4. slot[idx[t]].state = "claimed" /\ slot[idx[t]].req.n = calls[t]
    BY <2>3 DEF CallInv, RequestsInv, Using
  <2> QED BY <1>1, <1>3, <1>6, <2>1, <2>2, <2>4, OwnSlotKeepsRequests
<1>9. CASE Notify(t)
  <2> DEFINE s == [slot[idx[t]] EXCEPT !.state = "pending"]
  <2>1. Goto(t, "wait") /\ slot' = [slot EXCEPT ![idx[t]] = s] /\ pc[t] = "notify"
    BY <1>1, <1>4, <1>9, RunsFacts DEF Notify
  <2>2. s.state = "pending" /\ s.req.n = calls[t]
    BY <1>4, <2>1 DEF CallInv, IInv, TypesInv, RequestsInv, Using
  <2> HIDE DEF s
  <2> QED BY <1>1, <1>3, <1>6, <2>1, <2>2, OwnSlotKeepsRequests
<1>10. CASE TakeReply(t)
  <2> DEFINE to == "release"
  <2>1. Goto(t, to) /\ slot' = [slot EXCEPT ![idx[t]] = EmptySlot]
    BY <1>10 DEF TakeReply
  <2>2. EmptySlot.state = "empty" /\ to \notin Using
    BY DEF EmptySlot, Using
  <2>3. to \notin {"sample", "account", "notify", "wait", "check"}
    OBVIOUS
  <2> HIDE DEF to
  <2> QED BY <1>1, <1>3, <1>6, <2>1, <2>2, <2>3, OwnSlotKeepsRequests
<1> QED BY <1>7, <1>8, <1>9, <1>10

\* A flag that is set already means the reply is there.
LEMMA WaitKeepsRequests ==
    ASSUME CallInv, NEW t \in Clients, Wait(t)
    PROVE  RequestsInv' /\ FlagsInv'
<1> USE Constants
<1>1. /\ IInv /\ UNCHANGED <<slot, idx, calls, answer, queue, isr_queue>> /\ isr_queue = <<>>
      /\ pc[t] = "wait" /\ Goto(t, "check") /\ thread[t] = "ready"
  BY RunsFacts DEF CallInv, Wait, mailboxVars, Runs
<1>2. \A u \in Clients : pc'[u] = IF u = t THEN "check" ELSE pc[u]
  BY <1>1, GotoPlaces
<1>3. \/ flags[t] /\ flags' = [flags EXCEPT ![t] = FALSE] /\ UNCHANGED thread
      \/ ~flags[t] /\ thread' = [thread EXCEPT ![t] = "flags"] /\ UNCHANGED flags
  BY DEF Wait, WaitReply, WaitFlag, FlagAfterWait
<1>4. RequestsInv'
  BY <1>1, <1>2 DEF CallInv, RequestsInv, Using
<1>5. \A u \in Clients : Replied(u) => Replied(u)'
  BY <1>1, <1>2 DEF Replied
<1>6. FlagsInv'
  <2>1. CASE flags[t] /\ flags' = [flags EXCEPT ![t] = FALSE] /\ UNCHANGED thread
    <3>1. flags' \in [Threads -> BOOLEAN] /\ \A u \in Clients : flags'[u] => flags[u]
      BY <2>1 DEF CallInv, FlagsInv
    <3>2. ~flags'[t] /\ Replied(t)
      BY <2>1 DEF CallInv, FlagsInv
    <3> QED BY <1>1, <1>2, <1>5, <2>1, <3>1, <3>2 DEF CallInv, FlagsInv
  <2>2. CASE ~flags[t] /\ thread' = [thread EXCEPT ![t] = "flags"] /\ UNCHANGED flags
    <3>1. \A u \in Clients : thread'[u] = IF u = t THEN "flags" ELSE thread[u]
      BY <1>1, <2>2 DEF IInv, TypesInv
    <3> QED BY <1>1, <1>2, <1>5, <2>2, <3>1 DEF CallInv, FlagsInv
  <2> QED BY <1>3, <2>1, <2>2
<1> QED BY <1>4, <1>6

\* The secure core answers a client that waits for it.
LEMMA ReplyKeepsRequests ==
    ASSUME CallInv, NEW i \in Slots, Reply(i)
    PROVE  RequestsInv' /\ FlagsInv'
<1> USE Constants
<1>0. PICK o : o = slot[i].req.owner
  OBVIOUS
<1>1. IInv /\ UNCHANGED <<idx, calls, pc, thread, queue, build>> /\ slot[i].state = "pending"
  BY DEF CallInv, Reply, WakeTaskIsr, SetFlagIsr, bootVars
<1>2. o \in Clients /\ pc[o] \in Using /\ idx[o] = i
  BY <1>0, <1>1 DEF IInv, SlotInv
<1>3. pc[o] \in {"wait", "check"}
  BY <1>1, <1>2 DEF CallInv, RequestsInv, Using
<1>4. build # "thread"
  BY <1>1 DEF IInv, TypesInv
<1>5. UNCHANGED answer /\ slot' = [slot EXCEPT ![i].state = "replied"]
  BY <1>4 DEF Reply
<1>6. flags' = [flags EXCEPT ![o] = TRUE] /\ isr_queue' = Append(isr_queue, o)
  BY <1>0 DEF Reply, WakeTaskIsr, SetFlagIsr, FlagAfterSet
<1>7. \A u \in Clients : idx[u] \in Slots
  BY <1>1 DEF IInv, TypesInv
<1>8. \A j \in Slots : /\ j # i => slot'[j] = slot[j]
                       /\ slot'[j].req = slot[j].req
                       /\ slot'[i].state = "replied"
  BY <1>5, <1>1 DEF IInv, TypesInv
<1>9. \A u \in Clients : pc[u] \in Using /\ idx[u] = i => u = o
  BY <1>0, <1>2 DEF CallInv, IInv, SlotInv
<1>10. RequestsInv'
  <2>1. \A j \in Slots : slot'[j].state = "empty" => slot'[j] = EmptySlot
    BY <1>8 DEF CallInv, RequestsInv
  <2>2. \A u \in Clients : pc'[u] \in Using => slot'[idx'[u]].req.n = calls'[u]
    BY <1>1, <1>7, <1>8 DEF CallInv, RequestsInv
  <2>3. ASSUME NEW u \in Clients
        PROVE  /\ pc'[u] \in {"sample", "account", "notify"} => slot'[idx'[u]].state = "claimed"
               /\ pc'[u] \in {"wait", "check"} => slot'[idx'[u]].state \in {"pending", "replied"}
    <3>1. CASE pc[u] \in Using /\ idx[u] = i
      BY <1>1, <1>3, <1>8, <1>9, <3>1
    <3>2. CASE pc[u] \in Using /\ idx[u] # i
      BY <1>1, <1>7, <1>8, <3>2 DEF CallInv, RequestsInv
    <3> QED BY <1>1, <3>1, <3>2 DEF Using
  <2> QED BY <1>1, <1>5, <2>1, <2>2, <2>3 DEF CallInv, RequestsInv
<1>11. Replied(o)' /\ \A u \in Clients : Replied(u) => Replied(u)'
  BY <1>1, <1>2, <1>3, <1>7, <1>8 DEF Replied
<1>12. FlagsInv'
  <2>1. flags' \in [Threads -> BOOLEAN] /\ \A u \in Clients : u # o => flags'[u] = flags[u]
    BY <1>2, <1>6 DEF CallInv, FlagsInv
  <2>2. ~(pc[o] = "check" /\ thread[o] = "ready")
    BY <1>1, <1>2 DEF CallInv, FlagsInv, Replied
  <2>3. isr_queue' \in Seq(Clients) /\ \A k \in DOMAIN isr_queue : isr_queue[k] \in Clients
    BY <1>2, <1>6 DEF CallInv, FlagsInv
  <2>4. \A k \in DOMAIN isr_queue' : isr_queue'[k] = o \/ (k \in DOMAIN isr_queue /\ isr_queue'[k] = isr_queue[k])
    BY <1>6 DEF CallInv, FlagsInv
  <2>5. \A k \in DOMAIN isr_queue' : Replied(isr_queue[k])'
    BY <1>2, <1>11, <2>3, <2>4 DEF CallInv, FlagsInv
  <2> QED BY <1>1, <1>2, <1>11, <2>1, <2>2, <2>3, <2>5 DEF CallInv, FlagsInv
<1> QED BY <1>10, <1>12

LEMMA StatisticsKeepsRequests ==
    ASSUME CallInv, Statistics
    PROVE  RequestsInv' /\ FlagsInv'
<1> USE Constants
<1>1. PICK from, to \in {"idle", "reset", "average"} : Control(from, to)
  BY DEF Statistics, ResetBegin, ResetEnd, AverageBegin, AverageEnd
<1>2. /\ IInv /\ UNCHANGED <<slot, queue, flags, isr_queue, idx, calls, answer, thread>>
      /\ pc[App] = from /\ Goto(App, to)
  BY <1>1, RunsFacts DEF CallInv, Control
<1>3. \A u \in Clients : pc'[u] = IF u = App THEN to ELSE pc[u]
  BY <1>2, GotoPlaces
<1>4. from \notin Using /\ to \notin Using
  BY DEF Using
<1>5. \A u \in Clients : /\ pc'[u] = pc[u] \/ (pc[u] \notin Using /\ pc'[u] \notin Using)
                         /\ calls'[u] <= MaxCalls /\ thread'[u] = thread[u]
                         /\ pc[u] \in Using => idx'[u] = idx[u] /\ calls'[u] = calls[u]
                         /\ answer'[u] \notin {NoRequest, Error} => answer'[u] = [owner |-> u, n |-> calls'[u]]
  BY <1>2, <1>3, <1>4 DEF CallInv, RequestsInv
<1> QED BY <1>2, <1>5, OutsideKeepsRequests

\* Creating a thread concerns none that is in a call, and neither does the
\* rest of the start.
LEMMA CreationKeepsRequests ==
    ASSUME CallInv, UNCHANGED <<slot, queue, flags, isr_queue, idx, calls, answer, pc>>,
           \A u \in Clients : thread'[u] = thread[u] \/ pc[u] = "idle"
    PROVE  RequestsInv' /\ FlagsInv'
<1>1. \A u \in Clients : /\ pc'[u] = pc[u]
                         /\ calls'[u] <= MaxCalls /\ (thread'[u] = thread[u] \/ pc'[u] # "check")
                         /\ pc[u] \in Using => idx'[u] = idx[u] /\ calls'[u] = calls[u]
                         /\ answer'[u] \notin {NoRequest, Error} => answer'[u] = [owner |-> u, n |-> calls'[u]]
  BY DEF CallInv, RequestsInv
<1> QED BY <1>1, OutsideKeepsRequests

LEMMA BootKeepsRequests ==
    ASSUME CallInv, Boot
    PROVE  RequestsInv' /\ FlagsInv'
<1> USE Constants
<1>1. IInv /\ main # "running"
  BY DEF CallInv, Boot, PlatformInit, CpInit, KernelInitialize, InterfaceInit, WaitSecureCpu, MailboxInit,
         AfterMailboxInit, MailboxThreadNew, AppThreadNew, CreateThread, KernelStart, MainGoes
<1>2. build # "thread" /\ \A u \in Clients : pc[u] = "idle"
  BY <1>1 DEF IInv, TypesInv, BootInv
<1>3. UNCHANGED <<slot, queue, flags, isr_queue, idx, calls, answer, pc>>
  BY <1>2 DEF Boot, PlatformInit, CpInit, KernelInitialize, InterfaceInit, WaitSecureCpu, MailboxInit,
              MailboxThreadNew, AppThreadNew, CreateThread, KernelStart, NoMemory, NoThreads, osVars,
              mailboxVars, progVars
<1> QED BY <1>2, <1>3, CreationKeepsRequests

LEMMA SpawnKeepsRequests ==
    ASSUME CallInv, NEW t \in Clients, Spawn(t)
    PROVE  RequestsInv' /\ FlagsInv'
<1> USE Constants
<1>1. /\ IInv /\ UNCHANGED <<slot, queue, flags, isr_queue, idx, calls, answer, pc>>
      /\ thread[t] = "absent" /\ ThreadNew(t, 0)
  BY DEF CallInv, Spawn, mailboxVars, progVars, os_wrapper_thread_new
<1>2. \A u \in Clients : thread'[u] = thread[u] \/ pc[u] = "idle"
  <2>1. pc[t] = "idle"
    BY <1>1 DEF IInv, WaitingInv
  <2>2. \A u \in Clients : u # t => thread'[u] = thread[u]
    BY <1>1 DEF ThreadNew, IInv, TypesInv
  <2> QED BY <2>1, <2>2
<1> QED BY <1>1, <1>2, CreationKeepsRequests

\* A client that waits for its flag is woken by a flag that is set.
LEMMA ProcessingKeepsRequests ==
    ASSUME CallInv, Processing
    PROVE  RequestsInv' /\ FlagsInv'
<1> USE Constants
<1> DEFINE h == Head(isr_queue)
           wakes == thread[h] = "flags" /\ flags[h]
<1>1. /\ IInv /\ UNCHANGED <<slot, queue, idx, calls, answer, pc>>
      /\ isr_queue # <<>> /\ isr_queue' = Tail(isr_queue)
  BY DEF CallInv, Processing, PostProcess, mailboxVars, progVars
<1>2. /\ thread' = [thread EXCEPT ![h] = IF wakes THEN "ready" ELSE thread[h]]
      /\ flags' = [flags EXCEPT ![h] = IF wakes THEN FALSE ELSE flags[h]]
  BY DEF Processing, PostProcess, FlagAfterWait
<1>3. RequestsInv'
  BY <1>1 DEF CallInv, RequestsInv
<1>4. \A u \in Clients : Replied(u) => Replied(u)'
  BY <1>1 DEF Replied
<1> HIDE DEF wakes, h
<1>5. \A u \in Threads : /\ thread'[u] = IF u = h /\ wakes THEN "ready" ELSE thread[u]
                         /\ flags'[u] = IF u = h /\ wakes THEN FALSE ELSE flags[u]
  BY <1>1, <1>2 DEF CallInv, FlagsInv, IInv, TypesInv
<1>6. wakes /\ h \in Clients => Replied(h)
  BY DEF wakes, CallInv, FlagsInv
<1>7. flags' \in [Threads -> BOOLEAN]
  BY <1>2 DEF CallInv, FlagsInv
<1>8. \A u \in Clients : /\ flags'[u] => Replied(u)'
                         /\ pc'[u] = "check" /\ thread'[u] = "ready" => Replied(u)' /\ ~flags'[u]
  BY <1>1, <1>4, <1>5, <1>6 DEF CallInv, FlagsInv
<1>9. /\ isr_queue' \in Seq(Clients) /\ \A k \in DOMAIN isr_queue : isr_queue[k] \in Clients
      /\ \A k \in DOMAIN isr_queue' : \E j \in DOMAIN isr_queue : isr_queue'[k] = isr_queue[j]
  BY <1>1 DEF CallInv, FlagsInv
<1>10. \A k \in DOMAIN isr_queue' : Replied(isr_queue[k])'
  BY <1>4, <1>9 DEF CallInv, FlagsInv
<1> QED BY <1>3, <1>7, <1>8, <1>9, <1>10 DEF FlagsInv

LEMMA NextKeepsRequests == CallInv /\ [Next]_vars => CallInv'
<1> SUFFICES ASSUME CallInv, [Next]_vars PROVE RequestsInv' /\ FlagsInv'
  BY NextKeepsInv DEF CallInv
<1> USE Constants
<1>0. IInv
  BY DEF CallInv
<1>1. CASE Boot
  BY <1>1, BootKeepsRequests
<1>2. CASE Receive
  BY <1>0, <1>2, RunsFacts DEF Receive
<1>3. CASE Statistics
  BY <1>3, StatisticsKeepsRequests
<1>4. CASE Processing
  BY <1>4, ProcessingKeepsRequests
<1>5. CASE \E i \in Slots : Reply(i)
  BY <1>5, ReplyKeepsRequests
<1>6. ASSUME NEW t \in Threads, Step(t) PROVE RequestsInv' /\ FlagsInv'
  <2>1. t \in Clients
    BY <1>0, <1>6, RunsFacts DEF Step, Refused, Acquire, SecureCall, Release, Send, FindSlot, TakeSlot, Sample,
                                 Account, Notify, Wait, TakeReply, HasReply
  <2>2. build # "thread" /\ pc[t] \in Places /\ "send" \notin Places
    BY <1>0, <2>1 DEF IInv, TypesInv, Places, Outside, Using
  <2>3. ~Send(t) /\ ~HasReply(t)
    BY <2>2 DEF Send, HasReply, Runs
  <2> QED BY <1>6, <2>1, <2>3, CallKeepsRequests, TxKeepsRequests, WaitKeepsRequests DEF Step
<1>7. CASE \E t \in Clients : Call(t) \/ Spawn(t)
  BY <1>7, CallKeepsRequests, SpawnKeepsRequests
<1>8. CASE UNCHANGED vars
  BY <1>8, CreationKeepsRequests DEF vars, osVars, mailboxVars, bootVars, progVars
<1> QED BY <1>1, <1>2, <1>3, <1>4, <1>5, <1>6, <1>7, <1>8 DEF Next

LEMMA InitRequests == Init /\ build # "thread" => CallInv
<1> SUFFICES ASSUME Init, build # "thread" PROVE RequestsInv /\ FlagsInv
  BY InitInv DEF CallInv
<1> USE Constants, NsConstants
<1>1. \A t \in Clients : pc[t] = "idle" /\ calls[t] = 0 /\ answer[t] = NoRequest /\ ~flags[t]
  BY DEF Init
<1>2. \A i \in Slots : slot[i] = EmptySlot
  BY DEF Init
<1>3. RequestsInv
  BY <1>1, <1>2 DEF Init, RequestsInv, Using
<1>4. FlagsInv
  BY <1>1 DEF Init, FlagsInv, Replied
<1> QED BY <1>3, <1>4

CallsOfLockBuild == build # "thread" => CallInv

LEMMA CallsInvariant == Spec => []CallsOfLockBuild
<1>1. Init => CallsOfLockBuild
  BY InitRequests DEF CallsOfLockBuild
<1>2. CallsOfLockBuild /\ [Next]_vars => CallsOfLockBuild'
  <2> SUFFICES ASSUME CallsOfLockBuild, [Next]_vars, build' # "thread" PROVE CallInv'
    BY DEF CallsOfLockBuild
  <2>1. build' = build
    BY BuildNeverChanges DEF vars, bootVars
  <2> QED BY <2>1, NextKeepsRequests DEF CallsOfLockBuild
<1> QED BY <1>1, <1>2, PTL DEF Spec

-----------------------------------------------------------------------------
(* The build with a mailbox thread: where threads are, what clients have   *)
(* been told, and the one place where the request of a client is.          *)

ClientPlaces  == {"idle", "send", "wait", "check", "reset", "average"}
MailboxPlaces == {"receive", "claim", "claimed", "sample", "account", "notify"}

\* The mailbox thread has a message, and no slot for it yet.
Carries == \/ pc[MailboxThread] = "claimed"
           \/ pc[MailboxThread] = "claim" /\ thread[MailboxThread] = "ready"

\* A request that its client waits for, and the client it was answered to.
InFlight(r) == /\ r.owner \in Clients /\ r.n = calls[r.owner]
               /\ pc[r.owner] \in {"wait", "check"} /\ answer[r.owner] = NoRequest
Answered(t) == pc[t] \in {"wait", "check"} /\ answer[t] # NoRequest

MailboxTypes ==
    /\ build = "thread"
    /\ pc \in [Threads -> ClientPlaces \cup MailboxPlaces]
    /\ pc[MailboxThread] \in MailboxPlaces /\ \A t \in Clients : pc[t] \in ClientPlaces
    /\ thread \in [Threads -> {"absent", "ready", "flags", "message"}]
    /\ flags \in [Threads -> BOOLEAN] /\ isr_queue \in Seq(Clients)
    /\ idx \in [Threads -> Slots]
    /\ calls \in [Clients -> 0..MaxCalls] /\ answer \in [Clients -> Requests]
    /\ slot \in [Slots -> [state : {"empty", "claimed", "pending", "replied"}, req : Requests]]
    /\ queue \in [size : Nat, msgs : Seq(Requests), given : Seq(Requests)]
    /\ Len(queue.msgs) <= queue.size
    /\ lock = NoLock

MailboxStages == {"platform", "cp", "kernel", "secure_cpu", "mailbox_init", "mailbox_thread",
                  "app_thread", "start", "running", "parked"}

\* Before the kernel starts no thread has done anything.
MailboxBootInv ==
    /\ main \in MailboxStages
    /\ main # "running" => /\ pc[MailboxThread] = "receive" /\ queue.msgs = <<>>
                           /\ \A t \in Clients : pc[t] = "idle"

\* What is said of a client: what it waits on, that it is answered with the
\* request it made, and that it is signalled only when it is answered.
ClientInv ==
    \A t \in Clients :
       /\ thread[t] # "message"
       /\ thread[t] = "absent" => pc[t] = "idle"
       /\ thread[t] = "flags" => pc[t] = "check"
       /\ pc[t] = "send" => answer[t] = NoRequest
       /\ answer[t] \in {NoRequest, [owner |-> t, n |-> calls[t]]}
       /\ flags[t] => Answered(t)
       /\ pc[t] = "check" /\ thread[t] = "ready" => Answered(t) /\ ~flags[t]
SignalInv == \A k \in DOMAIN isr_queue : Answered(isr_queue[k])

MailboxThreadInv ==
    /\ thread[MailboxThread] # "flags"
    /\ thread[MailboxThread] = "absent" => pc[MailboxThread] = "receive"
    /\ thread[MailboxThread] = "message" => pc[MailboxThread] = "claim"
    /\ pc[MailboxThread] = "claimed" => slot[idx[MailboxThread]].state = "empty"
    /\ pc[MailboxThread] \in {"sample", "account", "notify"} => slot[idx[MailboxThread]].state = "claimed"

\* Every request that is queued, carried or in a slot is waited for.
TransitInv ==
    /\ \A k \in DOMAIN queue.msgs : InFlight(queue.msgs[k])
    /\ Carries => queue.given # <<>> /\ InFlight(queue.given[1])
    /\ \A i \in Slots : IF slot[i].state = "empty" THEN slot[i] = EmptySlot ELSE InFlight(slot[i].req)

\* And no two of them are of the same client.
OnePlaceInv ==
    /\ \A i, j \in DOMAIN queue.msgs : queue.msgs[i].owner = queue.msgs[j].owner => i = j
    /\ \A i, j \in Slots : slot[i].state # "empty" /\ slot[i].req.owner = slot[j].req.owner => i = j
    /\ \A i \in DOMAIN queue.msgs, j \in Slots : queue.msgs[i].owner # slot[j].req.owner
    /\ Carries => /\ \A i \in DOMAIN queue.msgs : queue.msgs[i].owner # queue.given[1].owner
                  /\ \A i \in Slots : slot[i].req.owner # queue.given[1].owner

ThreadCallInv == /\ MailboxTypes /\ MailboxBootInv /\ ClientInv /\ SignalInv
                 /\ MailboxThreadInv /\ TransitInv /\ OnePlaceInv

\* A step that leaves the requests where they are, and the clients waiting.
LEMMA KeepsTransit ==
    ASSUME ThreadCallInv, UNCHANGED <<slot, queue>>,
           pc'[MailboxThread] = pc[MailboxThread], thread'[MailboxThread] = thread[MailboxThread],
           idx'[MailboxThread] = idx[MailboxThread],
           \A r \in Requests : InFlight(r) => InFlight(r)'
    PROVE  MailboxThreadInv' /\ TransitInv' /\ OnePlaceInv'
<1> USE Constants
<1>1. Carries' = Carries
  BY DEF Carries
<1>2. MailboxThreadInv'
  BY DEF ThreadCallInv, MailboxThreadInv
<1>3. /\ \A k \in DOMAIN queue.msgs : queue.msgs[k] \in Requests
      /\ \A i \in Slots : slot[i].req \in Requests
      /\ queue.given # <<>> => queue.given[1] \in Requests
  BY DEF ThreadCallInv, MailboxTypes
<1>4. TransitInv'
  BY <1>1, <1>3 DEF ThreadCallInv, TransitInv
<1>5. OnePlaceInv'
  BY <1>1 DEF ThreadCallInv, OnePlaceInv
<1> QED BY <1>2, <1>4, <1>5

\* A step that changes nothing for the clients.
LEMMA KeepsClients ==
    ASSUME ThreadCallInv, UNCHANGED <<flags, isr_queue, calls, answer>>,
           \A t \in Clients : pc'[t] = pc[t] /\ thread'[t] = thread[t]
    PROVE  /\ ClientInv' /\ SignalInv' /\ \A r \in Requests : InFlight(r) => InFlight(r)'
<1>1. \A t \in Clients : Answered(t) => Answered(t)'
  BY DEF Answered
<1>2. ClientInv'
  BY <1>1 DEF ThreadCallInv, ClientInv
<1>3. \A k \in DOMAIN isr_queue : isr_queue[k] \in Clients
  BY DEF ThreadCallInv, MailboxTypes
<1>4. SignalInv'
  BY <1>1, <1>3 DEF ThreadCallInv, SignalInv
<1>5. \A r \in Requests : InFlight(r) => InFlight(r)'
  BY DEF InFlight
<1> QED BY <1>2, <1>4, <1>5

\* The move of one thread, seen from all of them.
LEMMA ThreadMoves ==
    ASSUME MailboxTypes, NEW t \in Threads, NEW to, Goto(t, to)
    PROVE  \A u \in Threads : pc'[u] = IF u = t THEN to ELSE pc[u]
BY DEF Goto, MailboxTypes

LEMMA ThreadRuns ==
    ASSUME ThreadCallInv, NEW t \in Threads, NEW at, Runs(t, at)
    PROVE  /\ thread[t] = "ready" /\ pc[t] = at /\ main = "running" /\ isr_queue = <<>>
           /\ UNCHANGED <<build, main>> /\ MailboxBootInv'
BY DEF Runs, ThreadCallInv, MailboxBootInv, MailboxStages, bootVars

-----------------------------------------------------------------------------
(* Steps of the clients, of the kernel and of main() in that build.        *)

\* A client goes on, with no wake-up about, and keeps to what is said of it.
LEMMA ClientMoveKeepsClients ==
    ASSUME ThreadCallInv, NEW t \in Clients, NEW to \in ClientPlaces, Goto(t, to), isr_queue = <<>>,
           UNCHANGED isr_queue,
           \A u \in Clients : u # t => /\ thread'[u] = thread[u] /\ flags'[u] = flags[u]
                                       /\ calls'[u] = calls[u] /\ answer'[u] = answer[u],
           thread'[t] \in {"ready", "flags"}, thread'[t] = "flags" => to = "check",
           to = "send" => answer'[t] = NoRequest,
           answer'[t] \in {NoRequest, [owner |-> t, n |-> calls'[t]]},
           flags'[t] => to \in {"wait", "check"} /\ answer'[t] # NoRequest,
           to = "check" /\ thread'[t] = "ready" => answer'[t] # NoRequest /\ ~flags'[t],
           pc[t] \in {"wait", "check"} /\ answer[t] = NoRequest =>
               to \in {"wait", "check"} /\ answer'[t] = NoRequest /\ calls'[t] = calls[t]
    PROVE  /\ ClientInv' /\ SignalInv' /\ \A r \in Requests : InFlight(r) => InFlight(r)'
           /\ pc' \in [Threads -> ClientPlaces \cup MailboxPlaces]
           /\ \A u \in Clients : pc'[u] \in ClientPlaces
           /\ pc'[MailboxThread] = pc[MailboxThread]
<1> USE Constants
<1>1. \A u \in Threads : pc'[u] = IF u = t THEN to ELSE pc[u]
  BY ThreadMoves DEF ThreadCallInv
<1>2. pc' \in [Threads -> ClientPlaces \cup MailboxPlaces] /\ \A u \in Clients : pc'[u] \in ClientPlaces
  BY <1>1 DEF Goto, ThreadCallInv, MailboxTypes
<1>3. \A r \in Requests : InFlight(r) => InFlight(r)'
  BY <1>1 DEF InFlight
<1>4. SignalInv'
  BY DEF SignalInv
<1>5. ClientInv'
  <2> SUFFICES ASSUME NEW u \in Clients
               PROVE  /\ thread'[u] # "message"
                      /\ thread'[u] = "absent" => pc'[u] = "idle"
                      /\ thread'[u] = "flags" => pc'[u] = "check"
                      /\ pc'[u] = "send" => answer'[u] = NoRequest
                      /\ answer'[u] \in {NoRequest, [owner |-> u, n |-> calls'[u]]}
                      /\ flags'[u] => Answered(u)'
                      /\ pc'[u] = "check" /\ thread'[u] = "ready" => Answered(u)' /\ ~flags'[u]
    BY DEF ClientInv
  <2>1. CASE u = t
    BY <1>1, <2>1 DEF Answered
  <2>2. CASE u # t
    BY <1>1, <2>2 DEF ThreadCallInv, ClientInv, Answered
  <2> QED BY <2>1, <2>2
<1> QED BY <1>1, <1>2, <1>3, <1>4, <1>5

LEMMA ThreadCallStep ==
    ASSUME ThreadCallInv, NEW t \in Clients, Call(t) \/ HasReply(t) \/ Wait(t)
    PROVE  ThreadCallInv'
<1> USE Constants
<1>1. /\ UNCHANGED <<build, slot, queue, idx, lock, isr_queue>> /\ isr_queue = <<>> /\ MailboxBootInv'
      /\ thread[t] = "ready" /\ thread \in [Threads -> {"absent", "ready", "flags", "message"}]
      /\ flags \in [Threads -> BOOLEAN] /\ calls \in [Clients -> 0..MaxCalls]
      /\ answer \in [Clients -> Requests] /\ build = "thread"
  BY ThreadRuns DEF Call, HasReply, Wait, mailboxVars, ThreadCallInv, MailboxTypes
<1>2. /\ flags[t] => Answered(t)
      /\ answer[t] \in {NoRequest, [owner |-> t, n |-> calls[t]]}
      /\ pc[t] = "check" => Answered(t) /\ ~flags[t]
  BY <1>1 DEF ThreadCallInv, ClientInv
<1>3. NoRequest \in Requests
  BY DEF NoRequest, Requests
<1>4. \E to \in ClientPlaces :
         /\ Goto(t, to)
         /\ thread' \in [Threads -> {"absent", "ready", "flags", "message"}] /\ flags' \in [Threads -> BOOLEAN]
         /\ calls' \in [Clients -> 0..MaxCalls] /\ answer' \in [Clients -> Requests]
         /\ \A u \in Clients : u # t => /\ thread'[u] = thread[u] /\ flags'[u] = flags[u]
                                        /\ calls'[u] = calls[u] /\ answer'[u] = answer[u]
         /\ thread'[MailboxThread] = thread[MailboxThread]
         /\ thread'[t] \in {"ready", "flags"} /\ (thread'[t] = "flags" => to = "check")
         /\ to = "send" => answer'[t] = NoRequest
         /\ answer'[t] \in {NoRequest, [owner |-> t, n |-> calls'[t]]}
         /\ flags'[t] => to \in {"wait", "check"} /\ answer'[t] # NoRequest
         /\ to = "check" /\ thread'[t] = "ready" => answer'[t] # NoRequest /\ ~flags'[t]
         /\ pc[t] \in {"wait", "check"} /\ answer[t] = NoRequest =>
               to \in {"wait", "check"} /\ answer'[t] = NoRequest /\ calls'[t] = calls[t]
  <2>1. CASE Call(t)
    <3>1. /\ pc[t] = "idle" /\ Goto(t, "send") /\ UNCHANGED <<thread, flags>>
          /\ calls' = [calls EXCEPT ![t] = IF calls[t] = MaxCalls THEN 1 ELSE calls[t] + 1]
          /\ answer' = [answer EXCEPT ![t] = NoRequest]
      BY <1>1, <2>1, ThreadRuns DEF Call
    <3>2. calls' \in [Clients -> 0..MaxCalls] /\ answer' \in [Clients -> Requests]
      BY <1>1, <1>3, <3>1, NsConstants
    <3>3. ~flags[t] /\ "send" \in ClientPlaces
      BY <1>2, <3>1 DEF Answered, ClientPlaces
    <3> QED BY <1>1, <3>1, <3>2, <3>3
  <2>2. CASE HasReply(t)
    <3>1. /\ pc[t] = "check" /\ Goto(t, "idle") /\ UNCHANGED <<thread, flags, calls, answer>>
          /\ answer[t] # NoRequest
      BY <2>2, ThreadRuns DEF HasReply
    <3>2. "idle" \in ClientPlaces
      BY DEF ClientPlaces
    <3> QED BY <1>1, <1>2, <3>1, <3>2
  <2>3. CASE Wait(t)
    <3>1. /\ pc[t] = "wait" /\ Goto(t, "check") /\ UNCHANGED <<calls, answer>> /\ "check" \in ClientPlaces
      BY <2>3, ThreadRuns DEF Wait, ClientPlaces
    <3>2. \/ flags[t] /\ flags' = [flags EXCEPT ![t] = FALSE] /\ UNCHANGED thread
          \/ ~flags[t] /\ thread' = [thread EXCEPT ![t] = "flags"] /\ UNCHANGED flags
      BY <2>3 DEF Wait, WaitReply, WaitFlag, FlagAfterWait
    <3>3. CASE flags[t] /\ flags' = [flags EXCEPT ![t] = FALSE] /\ UNCHANGED thread
      BY <1>1, <1>2, <3>1, <3>3 DEF Answered
    <3>4. CASE ~flags[t] /\ thread' = [thread EXCEPT ![t] = "flags"] /\ UNCHANGED flags
      BY <1>1, <1>2, <3>1, <3>4
    <3> QED BY <3>2, <3>3, <3>4
  <2> QED BY <2>1, <2>2, <2>3
<1>5. /\ ClientInv' /\ SignalInv' /\ \A r \in Requests : InFlight(r) => InFlight(r)'
      /\ pc' \in [Threads -> ClientPlaces \cup MailboxPlaces]
      /\ \A u \in Clients : pc'[u] \in ClientPlaces
      /\ pc'[MailboxThread] = pc[MailboxThread]
  BY <1>1, <1>4, ClientMoveKeepsClients
<1>6. MailboxTypes'
  BY <1>1, <1>4, <1>5 DEF ThreadCallInv, MailboxTypes
<1>7. MailboxThreadInv' /\ TransitInv' /\ OnePlaceInv'
  BY <1>1, <1>4, <1>5, KeepsTransit
<1> QED BY <1>1, <1>5, <1>6, <1>7 DEF ThreadCallInv

\* A client that waits for nothing has no request anywhere.
LEMMA NothingOf ==
    ASSUME ThreadCallInv, NEW t \in Clients, ~(pc[t] \in {"wait", "check"} /\ answer[t] = NoRequest)
    PROVE  /\ \A k \in DOMAIN queue.msgs : queue.msgs[k].owner # t
           /\ \A i \in Slots : slot[i].req.owner # t
           /\ Carries => queue.given[1].owner # t
<1> USE Constants
<1>1. \A r : InFlight(r) => r.owner # t
  BY DEF InFlight
<1>2. EmptySlot.req.owner # t
  BY DEF EmptySlot, NoRequest
<1> QED BY <1>1, <1>2 DEF ThreadCallInv, TransitInv

\* A message is queued, or goes straight to the mailbox thread.
LEMMA SendKeeps ==
    ASSUME ThreadCallInv, NEW t \in Clients, Send(t)
    PROVE  ThreadCallInv'
<1> USE Constants
<1> DEFINE m == MailboxThread
<1>0. PICK r : r = [owner |-> t, n |-> calls[t]]
  OBVIOUS
<1>1. /\ UNCHANGED <<build, slot, idx, lock, isr_queue, flags, calls, answer>> /\ isr_queue = <<>>
      /\ MailboxBootInv' /\ thread[t] = "ready" /\ pc[t] = "send" /\ Goto(t, "wait") /\ answer[t] = NoRequest
      /\ m \in Threads /\ t # m
  BY ThreadRuns DEF Send, mailboxVars, ThreadCallInv, ClientInv
<1>2. /\ queue \in [size : Nat, msgs : Seq(Requests), given : Seq(Requests)]
      /\ queue.msgs \in Seq(Requests) /\ queue.given \in Seq(Requests)
      /\ thread \in [Threads -> {"absent", "ready", "flags", "message"}]
      /\ r \in Requests /\ Len(queue.msgs) < queue.size
  BY <1>0, <1>1 DEF ThreadCallInv, MailboxTypes, Requests, Send, MqSend, HasRoom
<1>3. \/ /\ thread[m] = "message" /\ queue' = [queue EXCEPT !.given = <<r>>]
         /\ thread' = [thread EXCEPT ![m] = "ready"]
      \/ /\ thread[m] # "message" /\ queue' = [queue EXCEPT !.msgs = Append(queue.msgs, r)] /\ UNCHANGED thread
  BY <1>0, <1>1 DEF Send, MqSend, QueueSend, Request
<1>4. \A u \in Clients : thread'[u] = thread[u]
  BY <1>2, <1>3
<1>5. "wait" \in ClientPlaces /\ "wait" \notin {"check", "send"} /\ ~flags[t]
  BY <1>1 DEF ClientPlaces, ThreadCallInv, ClientInv, Answered
<1>6. /\ ClientInv' /\ SignalInv' /\ \A q \in Requests : InFlight(q) => InFlight(q)'
      /\ pc' \in [Threads -> ClientPlaces \cup MailboxPlaces]
      /\ \A u \in Clients : pc'[u] \in ClientPlaces
      /\ pc'[m] = pc[m]
  BY <1>1, <1>4, <1>5, ClientMoveKeepsClients
<1>7. InFlight(r)'
  <2>1. pc'[t] = "wait"
    BY <1>1, ThreadMoves DEF ThreadCallInv
  <2> QED BY <1>0, <1>1, <2>1 DEF InFlight
<1>8. /\ \A k \in DOMAIN queue.msgs : queue.msgs[k] \in Requests /\ queue.msgs[k].owner # t
      /\ \A i \in Slots : slot[i].req \in Requests /\ slot[i].req.owner # t
      /\ Carries => queue.given[1].owner # t
      /\ queue.given # <<>> => queue.given[1] \in Requests
  <2>1. /\ \A k \in DOMAIN queue.msgs : queue.msgs[k] \in Requests
        /\ queue.given # <<>> => queue.given[1] \in Requests
    BY <1>2
  <2>2. \A i \in Slots : slot[i].req \in Requests
    BY DEF ThreadCallInv, MailboxTypes
  <2>3. ~(pc[t] \in {"wait", "check"})
    BY <1>1
  <2> QED BY <2>1, <2>2, <2>3, NothingOf
<1>9. r.owner = t
  BY <1>0
<1>10. CASE thread[m] = "message" /\ queue' = [queue EXCEPT !.given = <<r>>] /\ thread' = [thread EXCEPT ![m] = "ready"]
  <2>1. /\ queue' \in [size : Nat, msgs : Seq(Requests), given : Seq(Requests)]
        /\ queue'.msgs = queue.msgs /\ queue'.size = queue.size /\ queue'.given = <<r>>
        /\ queue'.given[1] = r /\ queue'.given # <<>>
    <3>1. <<r>> \in Seq(Requests) /\ <<r>>[1] = r /\ <<r>> # <<>>
      BY <1>2
    <3> HIDE DEF m
    <3> QED BY <1>2, <1>10, <3>1
  <2>2. thread' \in [Threads -> {"absent", "ready", "flags", "message"}] /\ thread'[m] = "ready" /\ pc[m] = "claim"
    BY <1>1, <1>2, <1>10 DEF ThreadCallInv, MailboxThreadInv
  <2>3. MailboxTypes'
    BY <1>1, <1>2, <1>6, <2>1, <2>2 DEF ThreadCallInv, MailboxTypes
  <2>4. MailboxThreadInv'
    BY <1>6, <2>2 DEF MailboxThreadInv
  <2>5. TransitInv'
    BY <1>1, <1>6, <1>7, <1>8, <2>1 DEF ThreadCallInv, TransitInv
  <2>6. OnePlaceInv'
    BY <1>1, <1>8, <1>9, <2>1 DEF ThreadCallInv, OnePlaceInv
  <2> QED BY <1>1, <1>6, <2>3, <2>4, <2>5, <2>6 DEF ThreadCallInv
<1>11. CASE thread[m] # "message" /\ queue' = [queue EXCEPT !.msgs = Append(queue.msgs, r)] /\ UNCHANGED thread
  <2>1. /\ queue' \in [size : Nat, msgs : Seq(Requests), given : Seq(Requests)]
        /\ queue'.msgs = Append(queue.msgs, r) /\ queue'.size = queue.size /\ queue'.given = queue.given
        /\ Len(queue'.msgs) = Len(queue.msgs) + 1
    <3>1. Append(queue.msgs, r) \in Seq(Requests) /\ Len(Append(queue.msgs, r)) = Len(queue.msgs) + 1
      BY <1>2
    <3> QED BY <1>2, <1>11, <3>1
  <2>2. \A k \in DOMAIN queue'.msgs : \/ k = Len(queue.msgs) + 1 /\ queue'.msgs[k] = r
                                      \/ k \in DOMAIN queue.msgs /\ queue'.msgs[k] = queue.msgs[k]
    BY <1>2, <2>1
  <2>3. MailboxTypes'
    BY <1>1, <1>2, <1>6, <1>11, <2>1 DEF ThreadCallInv, MailboxTypes
  <2>4. MailboxThreadInv' /\ Carries' = Carries
    BY <1>1, <1>6, <1>11 DEF ThreadCallInv, MailboxThreadInv, Carries
  <2>5. TransitInv'
    <3>1. \A k \in DOMAIN queue'.msgs : InFlight(queue.msgs[k])'
      BY <1>6, <1>7, <1>8, <2>2 DEF ThreadCallInv, TransitInv
    <3> QED BY <1>1, <1>6, <1>8, <2>1, <2>4, <3>1 DEF ThreadCallInv, TransitInv
  <2>6. OnePlaceInv'
    <3>1. \A i, j \in DOMAIN queue'.msgs : queue'.msgs[i].owner = queue'.msgs[j].owner => i = j
      BY <1>8, <1>9, <2>2 DEF ThreadCallInv, OnePlaceInv
    <3>2. \A i \in DOMAIN queue'.msgs, j \in Slots : queue'.msgs[i].owner # slot[j].req.owner
      BY <1>8, <1>9, <2>2 DEF ThreadCallInv, OnePlaceInv
    <3>3. Carries => \A i \in DOMAIN queue'.msgs : queue'.msgs[i].owner # queue.given[1].owner
      BY <1>8, <1>9, <2>2 DEF ThreadCallInv, OnePlaceInv
    <3> QED BY <1>1, <2>1, <2>4, <3>1, <3>2, <3>3 DEF ThreadCallInv, OnePlaceInv
  <2> QED BY <1>1, <1>6, <2>3, <2>4, <2>5, <2>6 DEF ThreadCallInv
<1> QED BY <1>3, <1>10, <1>11

LEMMA ThreadStatistics ==
    ASSUME ThreadCallInv, Statistics
    PROVE  ThreadCallInv'
<1> USE Constants
<1>1. PICK from, to \in {"idle", "reset", "average"} : Control(from, to)
  BY DEF Statistics, ResetBegin, ResetEnd, AverageBegin, AverageEnd
<1>2. /\ UNCHANGED <<build, slot, queue, flags, isr_queue, idx, calls, answer, thread, lock>>
      /\ pc[App] = from /\ Goto(App, to) /\ isr_queue = <<>> /\ thread[App] = "ready" /\ MailboxBootInv'
  BY <1>1, ThreadRuns DEF Control
<1>3. UNCHANGED idx
  BY <1>1 DEF Control
<1>4. /\ to \in ClientPlaces /\ to \notin {"wait", "check", "send"} /\ from \notin {"wait", "check"}
      /\ ~flags[App] /\ answer[App] \in {NoRequest, [owner |-> App, n |-> calls[App]]}
  BY <1>2 DEF ClientPlaces, ThreadCallInv, ClientInv, Answered
<1>5. /\ ClientInv' /\ SignalInv' /\ \A r \in Requests : InFlight(r) => InFlight(r)'
      /\ pc' \in [Threads -> ClientPlaces \cup MailboxPlaces]
      /\ \A u \in Clients : pc'[u] \in ClientPlaces
      /\ pc'[MailboxThread] = pc[MailboxThread]
  BY <1>2, <1>4, ClientMoveKeepsClients
<1>6. MailboxTypes'
  BY <1>2, <1>5 DEF ThreadCallInv, MailboxTypes
<1>7. MailboxThreadInv' /\ TransitInv' /\ OnePlaceInv'
  BY <1>2, <1>5, KeepsTransit
<1> QED BY <1>2, <1>5, <1>6, <1>7 DEF ThreadCallInv

LEMMA ThreadSpawn ==
    ASSUME ThreadCallInv, NEW t \in Clients, Spawn(t)
    PROVE  ThreadCallInv'
<1> USE Constants
<1>1. /\ UNCHANGED <<build, slot, queue, flags, isr_queue, idx, calls, answer, pc, lock>>
      /\ isr_queue = <<>> /\ MailboxBootInv' /\ thread[t] = "absent" /\ ThreadNew(t, 0)
  BY ThreadRuns DEF Spawn, mailboxVars, progVars, os_wrapper_thread_new
<1>2. /\ thread' \in [Threads -> {"absent", "ready", "flags", "message"}]
      /\ \A u \in Threads : u # t => thread'[u] = thread[u]
      /\ thread'[t] \in {"absent", "ready"}
  BY <1>1 DEF ThreadNew, ThreadCallInv, MailboxTypes
<1>3. pc[t] = "idle" /\ ~flags[t]
  BY <1>1 DEF ThreadCallInv, ClientInv, Answered
<1>4. /\ SignalInv' /\ ClientInv' /\ \A r \in Requests : InFlight(r) => InFlight(r)'
  BY <1>1, <1>2, <1>3 DEF ThreadCallInv, SignalInv, ClientInv, Answered, InFlight
<1>5. MailboxTypes'
  BY <1>1, <1>2 DEF ThreadCallInv, MailboxTypes
<1>6. MailboxThreadInv' /\ TransitInv' /\ OnePlaceInv'
  BY <1>1, <1>2, <1>4, KeepsTransit
<1> QED BY <1>1, <1>4, <1>5, <1>6 DEF ThreadCallInv

LEMMA ThreadProcessing ==
    ASSUME ThreadCallInv, Processing
    PROVE  ThreadCallInv'
<1> USE Constants
<1>0. PICK h : h = Head(isr_queue)
  OBVIOUS
<1>1. /\ UNCHANGED <<build, main, slot, queue, idx, calls, answer, pc, lock>>
      /\ isr_queue # <<>> /\ isr_queue' = Tail(isr_queue)
  BY DEF Processing, PostProcess, mailboxVars, progVars, bootVars
<1>2. /\ isr_queue' \in Seq(Clients) /\ h \in Clients /\ h = isr_queue[1] /\ 1 \in DOMAIN isr_queue
      /\ \A k \in DOMAIN isr_queue' : k + 1 \in DOMAIN isr_queue /\ isr_queue'[k] = isr_queue[k + 1]
      /\ \A k \in DOMAIN isr_queue : isr_queue[k] \in Clients
  BY <1>0, <1>1 DEF ThreadCallInv, MailboxTypes
<1>3. \/ /\ thread[h] = "flags" /\ flags[h]
         /\ thread' = [thread EXCEPT ![h] = "ready"] /\ flags' = [flags EXCEPT ![h] = FALSE]
      \/ UNCHANGED <<thread, flags>>
  <2>1. CASE thread[h] = "flags" /\ flags[h]
    BY <1>0, <2>1 DEF Processing, PostProcess, FlagAfterWait
  <2>2. CASE ~(thread[h] = "flags" /\ flags[h])
    <3>1. thread' = [thread EXCEPT ![h] = thread[h]] /\ flags' = [flags EXCEPT ![h] = flags[h]]
      BY <1>0, <2>2 DEF Processing, PostProcess
    <3> QED BY <1>2, <3>1 DEF ThreadCallInv, MailboxTypes
  <2> QED BY <2>1, <2>2
<1>4. /\ thread' \in [Threads -> {"absent", "ready", "flags", "message"}] /\ flags' \in [Threads -> BOOLEAN]
      /\ \A u \in Threads : u # h => thread'[u] = thread[u] /\ flags'[u] = flags[u]
      /\ UNCHANGED <<thread, flags>> \/ (flags[h] /\ thread'[h] = "ready" /\ ~flags'[h])
  BY <1>2, <1>3 DEF ThreadCallInv, MailboxTypes
<1>5. \A u \in Clients : Answered(u) => Answered(u)'
  BY <1>1 DEF Answered
<1>6. SignalInv'
  BY <1>2, <1>5 DEF ThreadCallInv, SignalInv
<1>7. ClientInv'
  <2>1. flags[h] => Answered(h)
    BY <1>2 DEF ThreadCallInv, ClientInv
  <2>2. UNCHANGED <<thread, flags>> \/ thread[h] = "flags"
    BY <1>3
  <2> QED BY <1>1, <1>2, <1>4, <1>5, <2>1, <2>2 DEF ThreadCallInv, ClientInv
<1>8. \A r \in Requests : InFlight(r) => InFlight(r)'
  BY <1>1 DEF InFlight
<1>9. MailboxTypes' /\ MailboxBootInv'
  BY <1>1, <1>2, <1>4 DEF ThreadCallInv, MailboxTypes, MailboxBootInv, MailboxStages
<1>10. MailboxThreadInv' /\ TransitInv' /\ OnePlaceInv'
  <2>1. thread'[MailboxThread] = thread[MailboxThread]
    BY <1>2, <1>4
  <2> QED BY <1>1, <1>8, <2>1, KeepsTransit
<1> QED BY <1>6, <1>7, <1>9, <1>10 DEF ThreadCallInv

\* The interrupt handler hands over the reply and frees the slot.
LEMMA ThreadReply ==
    ASSUME ThreadCallInv, NEW i \in Slots, Reply(i)
    PROVE  ThreadCallInv'
<1> USE Constants
<1>0. PICK o, q : o = slot[i].req.owner /\ q = slot[i].req
  OBVIOUS
<1>1. /\ UNCHANGED <<build, main, idx, calls, pc, thread, queue, lock>> /\ slot[i].state = "pending"
      /\ answer' = [answer EXCEPT ![o] = q] /\ slot' = [slot EXCEPT ![i] = EmptySlot]
      /\ flags' = [flags EXCEPT ![o] = TRUE] /\ isr_queue' = Append(isr_queue, o)
  BY <1>0 DEF Reply, WakeTaskIsr, SetFlagIsr, FlagAfterSet, bootVars, ThreadCallInv, MailboxTypes
<1>2. /\ InFlight(q) /\ q \in Requests
  BY <1>0, <1>1 DEF ThreadCallInv, TransitInv, MailboxTypes
<1>3. /\ o \in Clients /\ pc[o] \in {"wait", "check"} /\ answer[o] = NoRequest
      /\ q = [owner |-> o, n |-> calls[o]] /\ q # NoRequest
  BY <1>0, <1>2 DEF InFlight, Requests, NoRequest
<1>4. EmptySlot \in [state : {"empty", "claimed", "pending", "replied"}, req : Requests] /\ EmptySlot.state = "empty"
  BY DEF EmptySlot, NoRequest, Requests
<1>5. MailboxTypes' /\ MailboxBootInv'
  <2>1. slot' \in [Slots -> [state : {"empty", "claimed", "pending", "replied"}, req : Requests]]
    BY <1>1, <1>4 DEF ThreadCallInv, MailboxTypes
  <2>2. isr_queue' \in Seq(Clients) /\ flags' \in [Threads -> BOOLEAN] /\ answer' \in [Clients -> Requests]
    BY <1>1, <1>2, <1>3 DEF ThreadCallInv, MailboxTypes
  <2> QED BY <1>1, <2>1, <2>2 DEF ThreadCallInv, MailboxTypes, MailboxBootInv, MailboxStages
<1>6. /\ \A u \in Clients : /\ answer'[u] = IF u = o THEN q ELSE answer[u]
                            /\ u # o => flags'[u] = flags[u]
      /\ \A j \in Slots : slot'[j] = IF j = i THEN EmptySlot ELSE slot[j]
  BY <1>1, <1>3 DEF ThreadCallInv, MailboxTypes
<1>7. Answered(o)' /\ \A u \in Clients : Answered(u) => Answered(u)'
  BY <1>1, <1>3, <1>6 DEF Answered
<1>8. SignalInv'
  <2>1. \A k \in DOMAIN isr_queue' : isr_queue'[k] = o \/ (k \in DOMAIN isr_queue /\ isr_queue'[k] = isr_queue[k])
    BY <1>1 DEF ThreadCallInv, MailboxTypes
  <2>2. \A k \in DOMAIN isr_queue' : isr_queue'[k] \in Clients
    BY <1>5 DEF MailboxTypes
  <2> QED BY <1>3, <1>7, <2>1, <2>2 DEF ThreadCallInv, SignalInv
<1>9. ClientInv'
  <2>1. ~(pc[o] = "check" /\ thread[o] = "ready")
    BY <1>3 DEF ThreadCallInv, ClientInv, Answered
  <2>2. pc[o] # "send"
    BY <1>3
  <2> QED BY <1>1, <1>3, <1>6, <1>7, <2>1, <2>2 DEF ThreadCallInv, ClientInv
<1>10. \A r \in Requests : InFlight(r) /\ r.owner # o => InFlight(r)'
  BY <1>1, <1>6 DEF InFlight
<1>11. /\ \A k \in DOMAIN queue.msgs : queue.msgs[k] \in Requests /\ queue.msgs[k].owner # o
       /\ \A j \in Slots : slot[j].req \in Requests /\ (slot[j].state # "empty" /\ j # i => slot[j].req.owner # o)
       /\ Carries => queue.given[1] \in Requests /\ queue.given[1].owner # o
  <2>1. queue.msgs \in Seq(Requests) /\ queue.given \in Seq(Requests) /\ \A j \in Slots : slot[j].req \in Requests
    BY DEF ThreadCallInv, MailboxTypes
  <2>2. Carries => queue.given # <<>>
    BY DEF ThreadCallInv, TransitInv
  <2> QED BY <1>0, <1>1, <2>1, <2>2 DEF ThreadCallInv, OnePlaceInv
<1>12. Carries' = Carries
  BY <1>1 DEF Carries
<1>13. TransitInv'
  BY <1>1, <1>4, <1>6, <1>10, <1>11, <1>12 DEF ThreadCallInv, TransitInv
<1>14. OnePlaceInv'
  <2>1. EmptySlot.req.owner = Nobody /\ Nobody \notin Clients
    BY DEF EmptySlot, NoRequest
  <2>2. \A k \in DOMAIN queue.msgs : queue.msgs[k].owner \in Clients
    BY DEF ThreadCallInv, TransitInv, InFlight
  <2>3. Carries => queue.given[1].owner \in Clients
    BY DEF ThreadCallInv, TransitInv, InFlight
  <2>4. \A j \in Slots : slot'[j].state # "empty" => slot[j].state # "empty" /\ slot'[j] = slot[j] /\ slot[j].req.owner \in Clients
    BY <1>4, <1>6 DEF ThreadCallInv, TransitInv, InFlight
  <2>5. \A j, k \in Slots : slot'[j].state # "empty" /\ slot'[j].req.owner = slot'[k].req.owner => j = k
    BY <1>6, <2>1, <2>4 DEF ThreadCallInv, OnePlaceInv
  <2>6. \A j \in Slots : \A k \in DOMAIN queue.msgs : queue.msgs[k].owner # slot'[j].req.owner
    BY <1>6, <2>1, <2>2 DEF ThreadCallInv, OnePlaceInv
  <2>7. Carries => \A j \in Slots : slot'[j].req.owner # queue.given[1].owner
    BY <1>6, <2>1, <2>3 DEF ThreadCallInv, OnePlaceInv
  <2> QED BY <1>1, <1>12, <2>5, <2>6, <2>7 DEF ThreadCallInv, OnePlaceInv
<1>15. MailboxThreadInv'
  BY <1>1, <1>4, <1>6 DEF ThreadCallInv, MailboxThreadInv, MailboxTypes
<1> QED BY <1>5, <1>8, <1>9, <1>13, <1>14, <1>15 DEF ThreadCallInv

-----------------------------------------------------------------------------
(* Steps of the mailbox thread.                                            *)

LEMMA MailboxMoves ==
    ASSUME ThreadCallInv, NEW to \in MailboxPlaces, Goto(MailboxThread, to),
           UNCHANGED <<flags, isr_queue, calls, answer>>,
           \A t \in Clients : thread'[t] = thread[t]
    PROVE  /\ ClientInv' /\ SignalInv' /\ \A r \in Requests : InFlight(r) => InFlight(r)'
           /\ pc' \in [Threads -> ClientPlaces \cup MailboxPlaces]
           /\ \A u \in Clients : pc'[u] \in ClientPlaces
           /\ pc'[MailboxThread] = to
<1> USE Constants
<1>1. \A u \in Threads : pc'[u] = IF u = MailboxThread THEN to ELSE pc[u]
  BY ThreadMoves DEF ThreadCallInv
<1>2. pc' \in [Threads -> ClientPlaces \cup MailboxPlaces] /\ \A u \in Clients : pc'[u] = pc[u] /\ pc'[u] \in ClientPlaces
  BY <1>1 DEF Goto, ThreadCallInv, MailboxTypes
<1> QED BY <1>1, <1>2, KeepsClients

\* The first message is taken from the queue; without one the thread waits.
LEMMA ReceiveKeeps ==
    ASSUME ThreadCallInv, Receive
    PROVE  ThreadCallInv'
<1> USE Constants
<1> DEFINE m == MailboxThread
<1>1. /\ UNCHANGED <<build, slot, idx, lock, isr_queue, flags, calls, answer>> /\ MailboxBootInv'
      /\ thread[m] = "ready" /\ pc[m] = "receive" /\ Goto(m, "claim") /\ m \in Threads
  BY ThreadRuns DEF Receive, mailboxVars
<1>2. /\ queue \in [size : Nat, msgs : Seq(Requests), given : Seq(Requests)]
      /\ queue.msgs \in Seq(Requests) /\ queue.given \in Seq(Requests) /\ Len(queue.msgs) <= queue.size
      /\ thread \in [Threads -> {"absent", "ready", "flags", "message"}]
  BY DEF ThreadCallInv, MailboxTypes
<1>3. \/ /\ queue.msgs = <<>> /\ thread' = [thread EXCEPT ![m] = "message"] /\ UNCHANGED queue
      \/ /\ queue.msgs # <<>> /\ UNCHANGED thread
         /\ queue' = [queue EXCEPT !.msgs = Tail(queue.msgs), !.given = <<Head(queue.msgs)>>]
  BY DEF Receive, MqReceive, QueueReceive
<1>4. \A u \in Clients : thread'[u] = thread[u]
  BY <1>2, <1>3
<1>5. "claim" \in MailboxPlaces
  BY DEF MailboxPlaces
<1>6. /\ ClientInv' /\ SignalInv' /\ \A r \in Requests : InFlight(r) => InFlight(r)'
      /\ pc' \in [Threads -> ClientPlaces \cup MailboxPlaces]
      /\ \A u \in Clients : pc'[u] \in ClientPlaces
      /\ pc'[m] = "claim"
  BY <1>1, <1>4, <1>5, MailboxMoves
<1>7. \A i \in Slots : slot[i].req \in Requests
  BY DEF ThreadCallInv, MailboxTypes
<1>8. CASE queue.msgs = <<>> /\ thread' = [thread EXCEPT ![m] = "message"] /\ UNCHANGED queue
  <2>1. thread' \in [Threads -> {"absent", "ready", "flags", "message"}] /\ thread'[m] = "message"
    BY <1>1, <1>2, <1>8
  <2>2. MailboxTypes'
    BY <1>1, <1>2, <1>5, <1>6, <1>8, <2>1 DEF ThreadCallInv, MailboxTypes
  <2>3. MailboxThreadInv' /\ ~Carries'
    BY <1>6, <2>1 DEF MailboxThreadInv, Carries
  <2>4. TransitInv'
    BY <1>1, <1>6, <1>7, <1>8, <2>3 DEF ThreadCallInv, TransitInv
  <2>5. OnePlaceInv'
    BY <1>1, <1>8, <2>3 DEF ThreadCallInv, OnePlaceInv
  <2> QED BY <1>1, <1>6, <2>2, <2>3, <2>4, <2>5 DEF ThreadCallInv
<1>9. CASE queue.msgs # <<>> /\ UNCHANGED thread /\ queue' = [queue EXCEPT !.msgs = Tail(queue.msgs), !.given = <<Head(queue.msgs)>>]
  <2>0. PICK r : r = queue.msgs[1]
    OBVIOUS
  <2>1. /\ Tail(queue.msgs) \in Seq(Requests) /\ Len(Tail(queue.msgs)) <= Len(queue.msgs)
        /\ Head(queue.msgs) = r /\ r \in Requests /\ <<r>> \in Seq(Requests) /\ 1 \in DOMAIN queue.msgs
        /\ \A k \in DOMAIN Tail(queue.msgs) : /\ k + 1 \in DOMAIN queue.msgs /\ k \in Nat \ {0}
                                              /\ Tail(queue.msgs)[k] = queue.msgs[k + 1]
        /\ \A k \in DOMAIN queue.msgs : queue.msgs[k] \in Requests
    BY <1>2, <1>9, <2>0
  <2>2. /\ queue' \in [size : Nat, msgs : Seq(Requests), given : Seq(Requests)]
        /\ queue'.msgs = Tail(queue.msgs) /\ queue'.size = queue.size /\ queue'.given = <<r>>
        /\ Len(queue'.msgs) <= queue'.size
    <3> DEFINE rest == Tail(queue.msgs)
    <3>1. rest \in Seq(Requests) /\ Len(rest) <= queue.size
      BY <1>2, <2>1
    <3>2. queue' = [queue EXCEPT !.msgs = rest, !.given = <<r>>]
      BY <1>9, <2>1
    <3> HIDE DEF rest
    <3>3. /\ queue' \in [size : Nat, msgs : Seq(Requests), given : Seq(Requests)]
          /\ queue'.msgs = rest /\ queue'.size = queue.size /\ queue'.given = <<r>>
      BY <1>2, <2>1, <3>1, <3>2
    <3> QED BY <3>1, <3>3 DEF rest
  <2>3. queue'.given # <<>> /\ queue'.given[1] = r
    BY <2>2
  <2>4. MailboxTypes'
    BY <1>1, <1>2, <1>5, <1>6, <1>9, <2>2 DEF ThreadCallInv, MailboxTypes
  <2>5. MailboxThreadInv'
    BY <1>1, <1>6, <1>9 DEF MailboxThreadInv
  <2>6. TransitInv'
    <3>1. InFlight(r)'
      BY <1>6, <2>0, <2>1 DEF ThreadCallInv, TransitInv
    <3>2. \A k \in DOMAIN queue.msgs : InFlight(queue.msgs[k])
      BY DEF ThreadCallInv, TransitInv
    <3>3. \A k \in DOMAIN queue'.msgs : InFlight(queue.msgs[k])'
      <4> SUFFICES ASSUME NEW k \in DOMAIN queue'.msgs PROVE InFlight(queue.msgs[k])'
        OBVIOUS
      <4>1. PICK q : q = queue.msgs[k + 1]
        OBVIOUS
      <4>2. InFlight(q)' /\ queue'.msgs[k] = q
        BY <1>6, <2>1, <2>2, <3>2, <4>1
      <4> QED BY <4>2
    <3> QED BY <1>1, <1>6, <1>7, <2>3, <3>1, <3>3 DEF ThreadCallInv, TransitInv
  <2>7. OnePlaceInv'
    <3>1. \A i, j \in DOMAIN queue'.msgs : queue'.msgs[i].owner = queue'.msgs[j].owner => i = j
      BY <2>1, <2>2 DEF ThreadCallInv, OnePlaceInv
    <3>2. \A i \in DOMAIN queue'.msgs, j \in Slots : queue'.msgs[i].owner # slot[j].req.owner
      BY <2>1, <2>2 DEF ThreadCallInv, OnePlaceInv
    <3>3. \A i \in DOMAIN queue'.msgs : queue'.msgs[i].owner # r.owner
      BY <2>0, <2>1, <2>2 DEF ThreadCallInv, OnePlaceInv
    <3>4. \A i \in Slots : slot[i].req.owner # r.owner
      BY <2>0, <2>1 DEF ThreadCallInv, OnePlaceInv
    <3> QED BY <1>1, <2>3, <3>1, <3>2, <3>3, <3>4 DEF ThreadCallInv, OnePlaceInv
  <2> QED BY <1>1, <1>6, <2>4, <2>5, <2>6, <2>7 DEF ThreadCallInv
<1> QED BY <1>3, <1>8, <1>9

\* Looking for a slot, and counting the empty ones.
LEMMA LookKeeps ==
    ASSUME ThreadCallInv, FindSlot(MailboxThread) \/ Sample(MailboxThread) \/ Account(MailboxThread)
    PROVE  ThreadCallInv'
<1> USE Constants
<1> DEFINE m == MailboxThread
<1>1. /\ UNCHANGED <<build, thread, slot, queue, lock, isr_queue, flags, calls, answer>> /\ MailboxBootInv'
      /\ thread[m] = "ready" /\ m \in Threads
  BY ThreadRuns DEF FindSlot, Sample, Account, mailboxVars
<1>2. PICK to \in {"claimed", "account", "notify"} :
         /\ Goto(m, to) /\ idx' \in [Threads -> Slots]
         /\ to = "claimed" => pc[m] = "claim" /\ slot[idx'[m]].state = "empty"
         /\ to # "claimed" => pc[m] \in {"sample", "account"} /\ UNCHANGED idx
  <2>1. CASE FindSlot(m)
    <3>1. pc[m] = "claim" /\ EmptySlots # {} /\ idx \in [Threads -> Slots]
      BY <1>1, <2>1, ThreadRuns DEF FindSlot, ThreadCallInv, MailboxTypes
    <3>2. PICK i \in Slots : /\ slot[i].state = "empty" /\ idx' = [idx EXCEPT ![m] = i] /\ Goto(m, "claimed")
      BY <2>1, <3>1, FirstEmptySlot DEF FindSlot
    <3>3. idx' \in [Threads -> Slots] /\ idx'[m] = i
      BY <3>1, <3>2
    <3> QED BY <3>1, <3>2, <3>3
  <2>2. CASE Sample(m) \/ Account(m)
    <3>1. pc[m] \in {"sample", "account"} /\ UNCHANGED idx /\ (Goto(m, "account") \/ Goto(m, "notify"))
      BY <1>1, <2>2, ThreadRuns DEF Sample, Account
    <3> QED BY <3>1 DEF ThreadCallInv, MailboxTypes
  <2> QED BY <2>1, <2>2
<1>3. to \in MailboxPlaces
  BY DEF MailboxPlaces
<1>4. /\ ClientInv' /\ SignalInv' /\ \A r \in Requests : InFlight(r) => InFlight(r)'
      /\ pc' \in [Threads -> ClientPlaces \cup MailboxPlaces]
      /\ \A u \in Clients : pc'[u] \in ClientPlaces
      /\ pc'[m] = to
  BY <1>1, <1>2, <1>3, MailboxMoves
<1>5. MailboxTypes'
  BY <1>1, <1>2, <1>3, <1>4 DEF ThreadCallInv, MailboxTypes
<1>6. MailboxThreadInv'
  BY <1>1, <1>2, <1>4 DEF ThreadCallInv, MailboxThreadInv
<1>7. Carries' => Carries
  BY <1>1, <1>2, <1>4 DEF Carries
<1>8. TransitInv'
  <2>1. queue.msgs \in Seq(Requests) /\ queue.given \in Seq(Requests) /\ \A i \in Slots : slot[i].req \in Requests
    BY DEF ThreadCallInv, MailboxTypes
  <2>2. /\ \A k \in DOMAIN queue.msgs : queue.msgs[k] \in Requests
        /\ queue.given # <<>> => queue.given[1] \in Requests
    BY <2>1
  <2> QED BY <1>1, <1>4, <1>7, <2>1, <2>2 DEF ThreadCallInv, TransitInv
<1>9. OnePlaceInv'
  BY <1>1, <1>7 DEF ThreadCallInv, OnePlaceInv
<1> QED BY <1>1, <1>4, <1>5, <1>6, <1>8, <1>9 DEF ThreadCallInv

\* The request that is carried goes into the slot that was found.
LEMMA TakeSlotKeeps ==
    ASSUME ThreadCallInv, TakeSlot(MailboxThread)
    PROVE  ThreadCallInv'
<1> USE Constants
<1> DEFINE m == MailboxThread
<1>0. PICK r, d : r = queue.given[1] /\ d = idx[m]
  OBVIOUS
<1>1. /\ UNCHANGED <<build, thread, queue, lock, isr_queue, flags, calls, answer, idx>> /\ MailboxBootInv'
      /\ thread[m] = "ready" /\ m \in Threads /\ pc[m] = "claimed" /\ Goto(m, "sample")
      /\ slot' = [slot EXCEPT ![d] = [state |-> "claimed", req |-> Request(m)]]
  BY <1>0, ThreadRuns DEF TakeSlot
<1>2. /\ queue.msgs \in Seq(Requests) /\ queue.given \in Seq(Requests) /\ d \in Slots
      /\ slot \in [Slots -> [state : {"empty", "claimed", "pending", "replied"}, req : Requests]]
  BY <1>0, <1>1 DEF ThreadCallInv, MailboxTypes
<1>3. Carries /\ queue.given # <<>> /\ InFlight(r) /\ slot[d].state = "empty"
  BY <1>0, <1>1 DEF ThreadCallInv, TransitInv, MailboxThreadInv, Carries
<1>4. Request(m) = r /\ r \in Requests
  BY <1>0, <1>2, <1>3 DEF Request
<1>5. "sample" \in MailboxPlaces /\ "sample" # "claimed"
  BY DEF MailboxPlaces
<1>6. /\ ClientInv' /\ SignalInv' /\ \A q \in Requests : InFlight(q) => InFlight(q)'
      /\ pc' \in [Threads -> ClientPlaces \cup MailboxPlaces]
      /\ \A u \in Clients : pc'[u] \in ClientPlaces
      /\ pc'[m] = "sample"
  BY <1>1, <1>5, MailboxMoves
<1>7. /\ slot' \in [Slots -> [state : {"empty", "claimed", "pending", "replied"}, req : Requests]]
      /\ slot'[d].state = "claimed" /\ slot'[d].req = r
      /\ \A i \in Slots : i # d => slot'[i] = slot[i]
  <2>1. [state |-> "claimed", req |-> r] \in [state : {"empty", "claimed", "pending", "replied"}, req : Requests]
    BY <1>4
  <2> QED BY <1>1, <1>2, <1>4, <2>1
<1>8. MailboxTypes'
  BY <1>1, <1>5, <1>6, <1>7 DEF ThreadCallInv, MailboxTypes
<1>9. MailboxThreadInv' /\ ~Carries'
  BY <1>0, <1>1, <1>6, <1>7 DEF MailboxThreadInv, Carries
<1>10. /\ \A k \in DOMAIN queue.msgs : queue.msgs[k] \in Requests /\ queue.msgs[k].owner # r.owner
       /\ \A i \in Slots : slot[i].req \in Requests /\ slot[i].req.owner # r.owner
  <2>1. \A k \in DOMAIN queue.msgs : queue.msgs[k] \in Requests
    BY <1>2
  <2> QED BY <1>0, <1>2, <1>3, <2>1 DEF ThreadCallInv, OnePlaceInv
<1>11. TransitInv'
  <2>1. \A k \in DOMAIN queue.msgs : InFlight(queue.msgs[k])'
    BY <1>1, <1>6, <1>10 DEF ThreadCallInv, TransitInv
  <2>2. ASSUME NEW i \in Slots
        PROVE  IF slot'[i].state = "empty" THEN slot'[i] = EmptySlot ELSE InFlight(slot[i].req)'
    <3>1. CASE i = d
      <4>1. InFlight(r)'
        BY <1>3, <1>4, <1>6
      <4> QED BY <1>7, <3>1, <4>1
    <3>2. CASE i # d
      BY <1>6, <1>7, <1>10, <3>2 DEF ThreadCallInv, TransitInv
    <3> QED BY <3>1, <3>2
  <2> QED BY <1>1, <1>9, <2>1, <2>2 DEF TransitInv
<1>12. OnePlaceInv'
  <2>1. \A i, j \in Slots : slot'[i].state # "empty" /\ slot'[i].req.owner = slot'[j].req.owner => i = j
    BY <1>7, <1>10 DEF ThreadCallInv, OnePlaceInv
  <2>2. \A k \in DOMAIN queue.msgs, i \in Slots : queue.msgs[k].owner # slot'[i].req.owner
    BY <1>7, <1>10 DEF ThreadCallInv, OnePlaceInv
  <2> QED BY <1>1, <1>9, <2>1, <2>2 DEF ThreadCallInv, OnePlaceInv
<1> QED BY <1>1, <1>6, <1>8, <1>9, <1>11, <1>12 DEF ThreadCallInv

\* The slot is handed to the secure core.
LEMMA NotifyKeeps ==
    ASSUME ThreadCallInv, Notify(MailboxThread)
    PROVE  ThreadCallInv'
<1> USE Constants
<1> DEFINE m == MailboxThread
<1>0. PICK d : d = idx[m]
  OBVIOUS
<1>1. /\ UNCHANGED <<build, thread, queue, lock, isr_queue, flags, calls, answer, idx>> /\ MailboxBootInv'
      /\ thread[m] = "ready" /\ m \in Threads /\ pc[m] = "notify" /\ Goto(m, "receive")
      /\ slot' = [slot EXCEPT ![d].state = "pending"]
  BY <1>0, ThreadRuns DEF Notify
<1>2. /\ queue.msgs \in Seq(Requests) /\ queue.given \in Seq(Requests) /\ d \in Slots
      /\ slot \in [Slots -> [state : {"empty", "claimed", "pending", "replied"}, req : Requests]]
      /\ slot[d].state = "claimed"
  BY <1>0, <1>1 DEF ThreadCallInv, MailboxTypes, MailboxThreadInv
<1>3. "receive" \in MailboxPlaces
  BY DEF MailboxPlaces
<1>4. /\ ClientInv' /\ SignalInv' /\ \A q \in Requests : InFlight(q) => InFlight(q)'
      /\ pc' \in [Threads -> ClientPlaces \cup MailboxPlaces]
      /\ \A u \in Clients : pc'[u] \in ClientPlaces
      /\ pc'[m] = "receive"
  BY <1>1, <1>3, MailboxMoves
<1>5. /\ slot' \in [Slots -> [state : {"empty", "claimed", "pending", "replied"}, req : Requests]]
      /\ \A i \in Slots : /\ slot'[i].req = slot[i].req
                          /\ slot'[i].state = "empty" <=> slot[i].state = "empty"
                          /\ i # d => slot'[i] = slot[i]
      /\ slot'[d].state = "pending"
  BY <1>1, <1>2
<1>6. MailboxTypes'
  BY <1>1, <1>3, <1>4, <1>5 DEF ThreadCallInv, MailboxTypes
<1>7. MailboxThreadInv' /\ ~Carries'
  BY <1>1, <1>4 DEF MailboxThreadInv, Carries
<1>8. TransitInv'
  <2>1. /\ \A k \in DOMAIN queue.msgs : queue.msgs[k] \in Requests
        /\ \A i \in Slots : slot[i].req \in Requests
    BY <1>2
  <2>2. \A k \in DOMAIN queue.msgs : InFlight(queue.msgs[k])'
    BY <1>1, <1>4, <2>1 DEF ThreadCallInv, TransitInv
  <2>3. ASSUME NEW i \in Slots
        PROVE  IF slot'[i].state = "empty" THEN slot'[i] = EmptySlot ELSE InFlight(slot[i].req)'
    <3>1. PICK q : q = slot[i].req
      OBVIOUS
    <3>2. slot'[i].state # "empty" => InFlight(q)'
      BY <1>4, <1>5, <2>1, <3>1 DEF ThreadCallInv, TransitInv
    <3>3. slot'[i].state = "empty" => slot'[i] = EmptySlot
      BY <1>2, <1>5 DEF ThreadCallInv, TransitInv
    <3>4. slot'[i].req = q
      BY <1>5, <3>1
    <3> QED BY <3>2, <3>3, <3>4
  <2> QED BY <1>1, <1>7, <2>2, <2>3 DEF TransitInv
<1>9. OnePlaceInv'
  BY <1>1, <1>5, <1>7 DEF ThreadCallInv, OnePlaceInv
<1> QED BY <1>1, <1>4, <1>6, <1>7, <1>8, <1>9 DEF ThreadCallInv

-----------------------------------------------------------------------------
(* The start, and all of it together.                                      *)

LEMMA ThreadBoot ==
    ASSUME ThreadCallInv, Boot
    PROVE  ThreadCallInv'
<1> USE Constants
<1> DEFINE m == MailboxThread
<1>1. build = "thread" /\ main \in MailboxStages /\ main # "interface" /\ m \in Threads /\ App \in Threads /\ App # m
  BY DEF ThreadCallInv, MailboxTypes, MailboxBootInv, MailboxStages
<1>2. main # "running" /\ build' = build /\ main' \in MailboxStages
  <2>1. build' = build
    BY DEF Boot, PlatformInit, CpInit, KernelInitialize, InterfaceInit, WaitSecureCpu, MailboxInit,
           AfterMailboxInit, MailboxThreadNew, AppThreadNew, CreateThread, KernelStart, MainGoes
  <2>2. main # "running"
    BY DEF Boot, PlatformInit, CpInit, KernelInitialize, InterfaceInit, WaitSecureCpu, MailboxInit,
           AfterMailboxInit, MailboxThreadNew, AppThreadNew, CreateThread, KernelStart, MainGoes
  <2>3. main' \in MailboxStages
    BY <1>1 DEF Boot, PlatformInit, CpInit, KernelInitialize, InterfaceInit, WaitSecureCpu, MailboxInit,
                AfterMailboxInit, MailboxThreadNew, AppThreadNew, CreateThread, KernelStart, MainGoes,
                MailboxStages
  <2> QED BY <2>1, <2>2, <2>3
<1>3. pc[m] = "receive" /\ queue.msgs = <<>> /\ \A t \in Clients : pc[t] = "idle"
  BY <1>2 DEF ThreadCallInv, MailboxBootInv
<1>4. UNCHANGED <<slot, flags, isr_queue, idx, calls, answer, pc, lock>>
  BY <1>1 DEF Boot, PlatformInit, CpInit, KernelInitialize, InterfaceInit, WaitSecureCpu, MailboxInit, MainGoes,
              MailboxThreadNew, AppThreadNew, CreateThread, KernelStart, NoMemory, NoThreads, osVars,
              mailboxVars, progVars
<1>5. queue' = queue \/ queue' = [size |-> NumSlots, msgs |-> <<>>, given |-> <<>>]
  BY DEF Boot, PlatformInit, CpInit, KernelInitialize, InterfaceInit, WaitSecureCpu, MailboxInit,
         MailboxThreadNew, AppThreadNew, CreateThread, KernelStart, NoMemory, osVars, MqCreate,
         os_wrapper_msg_queue_create, NoQueue
<1>6. \/ thread' = thread
      \/ \E t \in {App, m} : thread' = [thread EXCEPT ![t] = "ready"]
  <2>1. ASSUME NEW t \in {App, m}, NEW size, ThreadNew(t, size)
        PROVE  thread' = thread \/ thread' = [thread EXCEPT ![t] = "ready"]
    <3>1. CASE Fits(ThreadMemory(size))
      BY <2>1, <3>1 DEF ThreadNew
    <3>2. CASE ~Fits(ThreadMemory(size))
      BY <1>1, <2>1, <3>2 DEF ThreadNew, ThreadCallInv, MailboxTypes
    <3> QED BY <3>1, <3>2
  <2>2. MailboxThreadNew => ThreadNew(m, 1024)
    BY DEF MailboxThreadNew, CreateThread
  <2>3. AppThreadNew => ThreadNew(App, 4096)
    BY DEF AppThreadNew, CreateThread
  <2>4. ~MailboxThreadNew /\ ~AppThreadNew => thread' = thread
    BY DEF Boot, PlatformInit, CpInit, KernelInitialize, InterfaceInit, WaitSecureCpu, MailboxInit,
           KernelStart, NoMemory, osVars
  <2> QED BY <2>1, <2>2, <2>3, <2>4
<1>7. /\ thread' \in [Threads -> {"absent", "ready", "flags", "message"}]
      /\ \A t \in Threads : thread'[t] = thread[t] \/ thread'[t] = "ready"
  BY <1>1, <1>6 DEF ThreadCallInv, MailboxTypes
<1>8. /\ queue' \in [size : Nat, msgs : Seq(Requests), given : Seq(Requests)]
      /\ queue'.msgs = <<>> /\ Len(queue'.msgs) <= queue'.size
  <2>1. <<>> \in Seq(Requests) /\ Len(<<>>) = 0
    OBVIOUS
  <2>2. queue \in [size : Nat, msgs : Seq(Requests), given : Seq(Requests)] /\ Len(queue.msgs) <= queue.size
    BY DEF ThreadCallInv, MailboxTypes
  <2> QED BY <1>3, <1>5, <2>1, <2>2
<1>9. MailboxTypes' /\ MailboxBootInv'
  BY <1>2, <1>3, <1>4, <1>7, <1>8 DEF ThreadCallInv, MailboxTypes, MailboxBootInv
<1>10. ClientInv' /\ SignalInv' /\ \A r \in Requests : InFlight(r) => InFlight(r)'
  BY <1>1, <1>3, <1>4, <1>7 DEF ThreadCallInv, ClientInv, SignalInv, Answered, InFlight
<1>11. MailboxThreadInv' /\ ~Carries'
  BY <1>1, <1>3, <1>4, <1>7 DEF ThreadCallInv, MailboxThreadInv, Carries
<1>12. TransitInv'
  <2>1. \A i \in Slots : slot[i].req \in Requests
    BY DEF ThreadCallInv, MailboxTypes
  <2> QED BY <1>4, <1>8, <1>10, <1>11, <2>1 DEF ThreadCallInv, TransitInv
<1>13. OnePlaceInv'
  BY <1>4, <1>8, <1>11 DEF ThreadCallInv, OnePlaceInv
<1> QED BY <1>9, <1>10, <1>11, <1>12, <1>13 DEF ThreadCallInv

LEMMA ThreadUnchanged == ThreadCallInv /\ UNCHANGED vars => ThreadCallInv'
<1> SUFFICES ASSUME ThreadCallInv, UNCHANGED vars PROVE ThreadCallInv'
  OBVIOUS
<1>1. UNCHANGED <<build, main, slot, queue, flags, isr_queue, idx, calls, answer, pc, lock, thread>>
  BY DEF vars, osVars, mailboxVars, bootVars, progVars
<1>2. MailboxTypes' /\ MailboxBootInv'
  BY <1>1 DEF ThreadCallInv, MailboxTypes, MailboxBootInv, MailboxStages
<1>3. /\ ClientInv' /\ SignalInv' /\ \A r \in Requests : InFlight(r) => InFlight(r)'
  BY <1>1, KeepsClients
<1>4. MailboxThreadInv' /\ TransitInv' /\ OnePlaceInv'
  BY <1>1, <1>3, KeepsTransit
<1> QED BY <1>2, <1>3, <1>4 DEF ThreadCallInv

LEMMA NextKeepsThreadCalls == ThreadCallInv /\ [Next]_vars => ThreadCallInv'
<1> SUFFICES ASSUME ThreadCallInv, [Next]_vars PROVE ThreadCallInv'
  OBVIOUS
<1> USE Constants
<1>1. CASE Boot
  BY <1>1, ThreadBoot
<1>2. CASE Receive
  BY <1>2, ReceiveKeeps
<1>3. CASE Statistics
  BY <1>3, ThreadStatistics
<1>4. CASE Processing
  BY <1>4, ThreadProcessing
<1>5. CASE \E i \in Slots : Reply(i)
  BY <1>5, ThreadReply
<1>6. ASSUME NEW t \in Threads, Step(t) PROVE ThreadCallInv'
  <2>1. build = "thread" /\ pc[MailboxThread] \in MailboxPlaces /\ \A u \in Clients : pc[u] \in ClientPlaces
    BY DEF ThreadCallInv, MailboxTypes
  <2>2. ~TakeReply(t) /\ ~Refused(t) /\ ~Acquire(t) /\ ~SecureCall(t) /\ ~Release(t)
    <3>1. pc[t] \notin {"acquire", "secure", "release"}
      BY <2>1 DEF ClientPlaces, MailboxPlaces
    <3> QED BY <2>1, <3>1 DEF TakeReply, Refused, Acquire, SecureCall, Release, Runs
  <2>3. CASE t \in Clients
    <3>1. pc[t] \notin {"claim", "claimed", "sample", "account", "notify"}
      BY <2>1, <2>3 DEF ClientPlaces
    <3>2. Send(t) \/ Wait(t) \/ HasReply(t)
      BY <1>6, <2>2, <3>1 DEF Step, FindSlot, TakeSlot, Sample, Account, Notify, Runs
    <3> QED BY <2>3, <3>2, SendKeeps, ThreadCallStep
  <2>4. CASE t = MailboxThread
    <3>1. pc[t] \notin {"send", "wait", "check"}
      BY <2>1, <2>4 DEF MailboxPlaces
    <3>2. FindSlot(t) \/ TakeSlot(t) \/ Sample(t) \/ Account(t) \/ Notify(t)
      BY <1>6, <2>2, <3>1 DEF Step, Send, Wait, HasReply, Runs
    <3> QED BY <2>4, <3>2, LookKeeps, TakeSlotKeeps, NotifyKeeps
  <2> QED BY <2>3, <2>4
<1>7. CASE \E t \in Clients : Call(t) \/ Spawn(t)
  BY <1>7, ThreadCallStep, ThreadSpawn
<1>8. CASE UNCHANGED vars
  BY <1>8, ThreadUnchanged
<1> QED BY <1>1, <1>2, <1>3, <1>4, <1>5, <1>6, <1>7, <1>8 DEF Next

LEMMA InitThreadCalls == Init /\ build = "thread" => ThreadCallInv
<1> SUFFICES ASSUME Init, build = "thread" PROVE ThreadCallInv
  OBVIOUS
<1> USE Constants, NsConstants
<1>1. /\ NoRequest \in Requests /\ EmptySlot.req = NoRequest /\ NoRequest.owner = Nobody
      /\ EmptySlot \in [state : {"empty", "claimed", "pending", "replied"}, req : Requests]
      /\ EmptySlot.state = "empty"
  BY DEF EmptySlot, NoRequest, Requests
<1>2. /\ pc[MailboxThread] = "receive" /\ thread[MailboxThread] = "absent" /\ MailboxThread \in Threads
      /\ \A t \in Clients : /\ pc[t] = "idle" /\ thread[t] = "absent" /\ ~flags[t]
                            /\ answer[t] = NoRequest /\ calls[t] = 0
      /\ \A i \in Slots : slot[i] = EmptySlot
      /\ queue.msgs = <<>> /\ isr_queue = <<>>
  BY DEF Init, NoQueue
<1>3. MailboxTypes
  <2>1. pc \in [Threads -> ClientPlaces \cup MailboxPlaces]
    BY DEF Init, ClientPlaces, MailboxPlaces
  <2>2. queue \in [size : Nat, msgs : Seq(Requests), given : Seq(Requests)] /\ Len(queue.msgs) <= queue.size
    BY DEF Init, NoQueue
  <2>3. /\ thread \in [Threads -> {"absent", "ready", "flags", "message"}] /\ flags \in [Threads -> BOOLEAN]
        /\ idx \in [Threads -> Slots] /\ lock = NoLock /\ isr_queue \in Seq(Clients)
    BY DEF Init
  <2>4. /\ calls \in [Clients -> 0..MaxCalls] /\ answer \in [Clients -> Requests]
        /\ slot \in [Slots -> [state : {"empty", "claimed", "pending", "replied"}, req : Requests]]
    BY <1>1 DEF Init
  <2> QED BY <1>2, <2>1, <2>2, <2>3, <2>4 DEF MailboxTypes, ClientPlaces, MailboxPlaces
<1>4. MailboxBootInv /\ ClientInv /\ SignalInv
  BY <1>2 DEF Init, MailboxBootInv, MailboxStages, ClientInv, SignalInv
<1>5. MailboxThreadInv /\ ~Carries
  BY <1>2 DEF MailboxThreadInv, Carries
<1>6. TransitInv /\ OnePlaceInv
  BY <1>1, <1>2, <1>5 DEF TransitInv, OnePlaceInv
<1> QED BY <1>3, <1>4, <1>5, <1>6 DEF ThreadCallInv

CallsOfThreadBuild == build = "thread" => ThreadCallInv

LEMMA ThreadCallsInvariant == Spec => []CallsOfThreadBuild
<1>1. Init => CallsOfThreadBuild
  BY InitThreadCalls DEF CallsOfThreadBuild
<1>2. CallsOfThreadBuild /\ [Next]_vars => CallsOfThreadBuild'
  <2> SUFFICES ASSUME CallsOfThreadBuild, [Next]_vars, build' = "thread" PROVE ThreadCallInv'
    BY DEF CallsOfThreadBuild
  <2>1. build' = build
    BY BuildNeverChanges DEF vars, bootVars
  <2> QED BY <2>1, NextKeepsThreadCalls DEF CallsOfThreadBuild
<1> QED BY <1>1, <1>2, PTL DEF Spec

-----------------------------------------------------------------------------
(* What follows for calls, in every build.                                 *)

\* tfm_ns_mailbox_os_wait_reply, _wake_task_isr and the message queue: however
\* calls interleave, in every build, a client is answered with what it asked.
THEOREM AnswersMatch == Spec => []AnsweredOwnRequest
<1>1. CallsOfLockBuild /\ CallsOfThreadBuild => AnsweredOwnRequest
  BY DEF CallsOfLockBuild, CallsOfThreadBuild, CallInv, RequestsInv, ThreadCallInv, ClientInv, AnsweredOwnRequest
<1> QED BY <1>1, CallsInvariant, ThreadCallsInvariant, PTL

\* Once a call has returned, in every build, its thread holds no permit, owns
\* no slot and no message, and no flag or wake-up is left for its next call.
THEOREM CallLeavesNothing == Spec => []CleanBetweenCalls
<1> USE Constants
<1>1. ASSUME CallInv, NEW t \in Clients, pc[t] = "idle"
      PROVE  /\ ~flags[t] /\ t \notin lock.holders
             /\ \A i \in Slots : slot[i].req.owner # t
             /\ \A i \in DOMAIN isr_queue : isr_queue[i] # t
             /\ \A i \in DOMAIN queue.msgs : queue.msgs[i].owner # t
  <2>1. ~Replied(t) /\ pc[t] \notin Inside /\ pc[t] \notin Using
    BY <1>1 DEF Replied, Inside, Using
  <2>2. ~flags[t] /\ \A i \in DOMAIN isr_queue : isr_queue[i] # t
    BY <1>1, <2>1 DEF CallInv, FlagsInv
  <2>3. t \notin lock.holders
    BY <1>1, <2>1 DEF CallInv, IInv, LockInv, HoldersInv
  <2>4. \A i \in Slots : slot[i].req.owner # t
    <3>1. EmptySlot.req.owner # t
      BY DEF EmptySlot, NoRequest
    <3> QED BY <1>1, <2>1, <3>1 DEF CallInv, IInv, SlotInv, RequestsInv
  <2>5. queue.msgs = <<>>
    BY <1>1 DEF CallInv, RequestsInv, NoQueue
  <2> QED BY <2>2, <2>3, <2>4, <2>5
<1>2. ASSUME ThreadCallInv, NEW t \in Clients, pc[t] = "idle"
      PROVE  /\ ~flags[t] /\ t \notin lock.holders
             /\ \A i \in Slots : slot[i].req.owner # t
             /\ \A i \in DOMAIN isr_queue : isr_queue[i] # t
             /\ \A i \in DOMAIN queue.msgs : queue.msgs[i].owner # t
  <2>1. ~Answered(t) /\ pc[t] \notin {"wait", "check"}
    BY <1>2 DEF Answered
  <2>2. ~flags[t] /\ \A i \in DOMAIN isr_queue : isr_queue[i] # t
    BY <1>2, <2>1 DEF ThreadCallInv, ClientInv, SignalInv
  <2>3. t \notin lock.holders
    BY <1>2 DEF ThreadCallInv, MailboxTypes, NoLock
  <2> QED BY <1>2, <2>1, <2>2, <2>3, NothingOf
<1>3. CallsOfLockBuild /\ CallsOfThreadBuild => CleanBetweenCalls
  BY <1>1, <1>2 DEF CallsOfLockBuild, CallsOfThreadBuild, CleanBetweenCalls
<1> QED BY <1>3, CallsInvariant, ThreadCallsInvariant, PTL

-----------------------------------------------------------------------------
(* The interrupt queue, in every build: a wake-up that waits in it stands  *)
(* for a slot that was given to the secure core and is not any more.       *)

PendingSlots == {i \in Slots : slot[i].state = "pending"}

SignalsInv == Len(isr_queue) + Cardinality(PendingSlots) <= NumSlots

Calls == CallsOfLockBuild /\ CallsOfThreadBuild

LEMMA CallTypes ==
    ASSUME Calls
    PROVE  /\ isr_queue \in Seq(Clients) /\ slot \in [Slots -> [state : {"empty", "claimed", "pending", "replied"}, req : Requests]]
           /\ thread \in [Threads -> {"absent", "ready", "lock", "flags", "message"}]
           /\ flags \in [Threads -> BOOLEAN]
BY DEF Calls, CallsOfLockBuild, CallsOfThreadBuild, CallInv, IInv, TypesInv, FlagsInv, ThreadCallInv, MailboxTypes

LEMMA PendingFinite == Cardinality(PendingSlots) \in 0..NumSlots /\ IsFiniteSet(PendingSlots)
BY SlotsFinite DEF PendingSlots

\* A thread runs only when no wake-up waits.
LEMMA RunsKeepsSignals ==
    ASSUME isr_queue = <<>>, UNCHANGED isr_queue
    PROVE  SignalsInv'
<1>1. Len(<<>>) = 0 /\ isr_queue' = <<>>
  OBVIOUS
<1>2. Cardinality(PendingSlots') \in 0..NumSlots
  BY SlotsFinite DEF PendingSlots
<1> QED BY <1>1, <1>2, Constants DEF SignalsInv

LEMMA NextKeepsSignals == Calls /\ SignalsInv /\ [Next]_vars => SignalsInv'
<1> SUFFICES ASSUME Calls, SignalsInv, [Next]_vars PROVE SignalsInv'
  OBVIOUS
<1> USE Constants
<1>0. isr_queue \in Seq(Clients) /\ Len(isr_queue) \in Nat /\ Cardinality(PendingSlots) \in Nat
  BY CallTypes, PendingFinite
<1>1. CASE UNCHANGED <<slot, isr_queue>>
  BY <1>1 DEF SignalsInv, PendingSlots
<1>2. CASE Boot
  BY <1>1, <1>2 DEF Boot, PlatformInit, CpInit, KernelInitialize, InterfaceInit, WaitSecureCpu, MailboxInit,
         MailboxThreadNew, AppThreadNew, CreateThread, KernelStart, NoMemory, NoThreads, osVars, mailboxVars
<1>3. CASE Receive
  BY <1>3, RunsKeepsSignals DEF Receive, Runs
<1>4. CASE Statistics
  BY <1>4, RunsKeepsSignals DEF Statistics, ResetBegin, ResetEnd, AverageBegin, AverageEnd, Control, Runs
<1>5. CASE Processing
  <2>1. isr_queue # <<>> /\ isr_queue' = Tail(isr_queue) /\ UNCHANGED slot
    BY <1>5 DEF Processing, PostProcess, mailboxVars
  <2>2. Len(isr_queue') = Len(isr_queue) - 1
    BY <1>0, <2>1
  <2>3. PendingSlots' = PendingSlots
    BY <2>1 DEF PendingSlots
  <2> QED BY <1>0, <2>2, <2>3 DEF SignalsInv
<1>6. ASSUME NEW i \in Slots, Reply(i) PROVE SignalsInv'
  <2>1. /\ slot[i].state = "pending" /\ isr_queue' = Append(isr_queue, slot[i].req.owner)
        /\ \/ slot' = [slot EXCEPT ![i] = EmptySlot]
           \/ slot' = [slot EXCEPT ![i].state = "replied"]
    BY <1>6 DEF Reply, WakeTaskIsr, SetFlagIsr
  <2>2. EmptySlot.state = "empty"
    BY DEF EmptySlot
  <2>3. \A j \in Slots : slot'[j].state = "pending" <=> slot[j].state = "pending" /\ j # i
    BY <2>1, <2>2, CallTypes
  <2>4. PendingSlots' = PendingSlots \ {i} /\ i \in PendingSlots
    BY <2>1, <2>3 DEF PendingSlots
  <2>5. Cardinality(PendingSlots') = Cardinality(PendingSlots) - 1
    BY <2>4, PendingFinite, FS_RemoveElement
  <2>6. Len(isr_queue') = Len(isr_queue) + 1
    BY <1>0, <2>1
  <2> QED BY <1>0, <2>5, <2>6 DEF SignalsInv
<1>7. ASSUME NEW t \in Threads, Step(t) PROVE SignalsInv'
  BY <1>7, RunsKeepsSignals
     DEF Step, Refused, Acquire, SecureCall, Release, Send, FindSlot, TakeSlot, Sample, Account, Notify,
         Wait, TakeReply, HasReply, Runs
<1>8. ASSUME NEW t \in Clients, Call(t) \/ Spawn(t) PROVE SignalsInv'
  BY <1>8, RunsKeepsSignals DEF Call, Spawn, Runs
<1>9. CASE UNCHANGED vars
  BY <1>1, <1>9 DEF vars, osVars, mailboxVars
<1> QED BY <1>2, <1>3, <1>4, <1>5, <1>6, <1>7, <1>8, <1>9 DEF Next

LEMMA SignalsInvariant == Spec => [](Calls /\ SignalsInv)
<1>1. Init => SignalsInv
  <2>1. Init => isr_queue = <<>> /\ PendingSlots = {}
    BY DEF Init, PendingSlots, EmptySlot
  <2> QED BY <2>1, FS_EmptySet, Constants DEF SignalsInv
<1>2. Spec => []Calls
  BY CallsInvariant, ThreadCallsInvariant, PTL DEF Calls
<1> QED BY <1>1, <1>2, NextKeepsSignals, PTL DEF Spec

\* The request in a slot is one that a client made, or none.
LEMMA SlotTypes ==
    ASSUME Calls
    PROVE  slot \in [Slots -> [state : {"empty", "claimed", "pending", "replied"},
                               req : [owner : Clients \cup {Nobody}, n : 0..MaxCalls]]]
<1> USE Constants, NsConstants
<1>1. slot \in [Slots -> [state : {"empty", "claimed", "pending", "replied"}, req : Requests]]
  BY CallTypes
<1>2. EmptySlot.req.n = 0
  BY DEF EmptySlot, NoRequest
<1>3. \A i \in Slots : slot[i].req.n \in 0..MaxCalls
  <2>1. CASE build = "thread"
    <3>1. \A i \in Slots : slot[i].state # "empty" => slot[i].req.n \in 0..MaxCalls
      BY <2>1 DEF Calls, CallsOfThreadBuild, ThreadCallInv, MailboxTypes, TransitInv, InFlight
    <3> QED BY <1>2, <2>1, <3>1 DEF Calls, CallsOfThreadBuild, ThreadCallInv, TransitInv
  <2>2. CASE build # "thread"
    <3>1. CallInv
      BY <2>2 DEF Calls, CallsOfLockBuild
    <3>2. \A i \in Slots : slot[i].state # "empty" =>
             \E t \in Clients : slot[i].req.n = calls[t] /\ calls[t] \in 0..MaxCalls
      <4>1. \A i \in Slots : slot[i].state # "empty" =>
               \E t \in Clients : t = slot[i].req.owner /\ pc[t] \in Using /\ idx[t] = i
        BY <3>1 DEF CallInv, IInv, SlotInv
      <4>2. \A t \in Clients : pc[t] \in Using => slot[idx[t]].req.n = calls[t]
        BY <3>1 DEF CallInv, RequestsInv
      <4>3. \A t \in Clients : calls[t] \in 0..MaxCalls
        BY <3>1 DEF CallInv, IInv, TypesInv, RequestsInv
      <4> QED BY <4>1, <4>2, <4>3
    <3> QED BY <1>2, <3>1, <3>2 DEF CallInv, RequestsInv
  <2> QED BY <2>1, <2>2
<1>4. \A q \in Requests : q.n \in 0..MaxCalls => q \in [owner : Clients \cup {Nobody}, n : 0..MaxCalls]
  BY DEF Requests
<1>5. \A i \in Slots : slot[i] \in [state : {"empty", "claimed", "pending", "replied"},
                                    req : [owner : Clients \cup {Nobody}, n : 0..MaxCalls]]
  BY <1>1, <1>3, <1>4
<1> QED BY <1>1, <1>5

LEMMA LockTypes ==
    ASSUME Calls
    PROVE  lock.tokens \in 0..NumSlots /\ lock.holders \subseteq Clients /\ Len(queue.msgs) <= queue.size
<1> USE Constants
<1>1. CASE build = "thread"
  BY <1>1 DEF Calls, CallsOfThreadBuild, ThreadCallInv, MailboxTypes, NoLock
<1>2. CASE build # "thread"
  <2>1. CallInv
    BY <1>2 DEF Calls, CallsOfLockBuild
  <2>2. lock.tokens \in Nat /\ lock.holders \subseteq Clients /\ queue = NoQueue
    BY <2>1 DEF CallInv, IInv, TypesInv, RequestsInv
  <2>3. lock.tokens + Cardinality(lock.holders) = Permits /\ Cardinality(lock.holders) \in Nat
    BY <2>1, FS_CardinalityType DEF CallInv, IInv, LockInv, CountInv
  <2>4. Permits \in 0..NumSlots
    BY DEF Permits
  <2>5. Len(queue.msgs) <= queue.size
    BY <2>2 DEF NoQueue
  <2> QED BY <2>2, <2>3, <2>4, <2>5
<1> QED BY <1>1, <1>2

\* In every build and with any settings the configuration accepts, threads,
\* queues, slots and counters are of their types: the interrupt queue fits the
\* array osRtxConfig gives it, the message queue its size, and what is created
\* fits the kernel's memory.
THEOREM TypesKept == Spec => []TypeOK
<1> USE Constants
<1>1. ASSUME Calls, SignalsInv, MemoryInv, CountersInv PROVE TypeOK
  <2>1. /\ flags \in [Threads -> BOOLEAN] /\ isr_queue \in Seq(Clients)
        /\ thread \in [Threads -> {"absent", "ready", "lock", "flags", "message"}]
    BY <1>1, CallTypes
  <2>2. Len(isr_queue) <= cfg.isr_queue_max
    <3>1. Len(isr_queue) <= NumSlots /\ Len(isr_queue) \in Nat
      BY <1>1, <2>1, PendingFinite DEF SignalsInv
    <3> QED BY <1>1, <3>1, SettingsFacts DEF MemoryInv, cfg
  <2>3. /\ \A a \in DOMAIN memory.bytes : memory.bytes[a] >= 0
        /\ \A k \in DOMAIN memory.blocks : memory.blocks[k] >= 0
    BY <1>1 DEF MemoryInv, Fits
  <2> QED BY <1>1, <2>1, <2>2, <2>3, SlotTypes, LockTypes DEF TypeOK, CountersInv
<1> QED BY <1>1, SignalsInvariant, MemoryInvariant, CountersInvariant, PTL
-----------------------------------------------------------------------------
(* The shipped settings, in every build: what boot creates fits.           *)

\* What the theorem is about: the settings named "shipped" are those of the
\* repository, and the application creates at most seven threads.
ShippedFirmware == "shipped" \in DOMAIN Settings => Settings["shipped"] = Shipped
FewClients == IsFiniteSet(Clients) /\ Cardinality(Clients) <= 8

\* All of the memory is in the common pool.
CommonPool(n) == [bytes |-> [a \in {"stack", "mp_data", "mq_data", "common"} |-> IF a = "common" THEN n ELSE 0],
                  blocks |-> [k \in Kinds \cup {"def_stack"} |-> 0]]

Spawned == {t \in Clients \ {App} : thread[t] # "absent"}

\* The lock, or the queue and the mailbox thread, of the build exists.
InterfaceReady == IF build = "thread" THEN queue.size > 0 /\ thread[MailboxThread] # "absent" ELSE Exists(lock)

\* What is left of the pool at each step of main(), 344 bytes less for every
\* thread that the application has created.
PoolInv ==
    LET left == memory.bytes["common"]
    IN  conf = "shipped" =>
          /\ left \in Int /\ memory = CommonPool(left)
          /\ main \in {"platform", "cp", "kernel", "interface", "secure_cpu", "mailbox_init"} => left = 8176
          /\ main # "running" => Spawned = {}
          /\ main = "interface" => build = "trustzone"
          /\ main = "mailbox_thread" => build = "thread" /\ queue.size > 0 /\ left >= 7840
          /\ main = "app_thread" => InterfaceReady /\ left >= 6728
          /\ main \in {"start", "running"} =>
                InterfaceReady /\ thread[App] # "absent" /\ left + 344 * Cardinality(Spawned) >= 2544

\* The configuration of the shipped settings.
LEMMA ShippedConfig ==
    ASSUME ShippedFirmware, conf \in DOMAIN Settings, conf = "shipped"
    PROVE  /\ cfg.mem = [a \in {"stack", "mp_data", "mq_data", "common"} |-> IF a = "common" THEN 8192 ELSE 0]
           /\ cfg.mpi = [k \in Kinds \cup {"def_stack"} |-> 0]
           /\ cfg.thread_stack_size = 256 /\ NumSlots <= 16
<1>1. Settings[conf] = Shipped
  BY DEF ShippedFirmware
<1>2. cfg = osRtxConfig(Shipped) /\ NumSlots <= cfg.isr_queue_max
  BY <1>1, SettingsFacts DEF cfg
<1>3. cfg.mem = PoolBytes(ShippedKernel, ShippedObjects) /\ cfg.mpi = PoolBlocks(ShippedKernel, ShippedObjects)
  BY <1>2 DEF osRtxConfig, Shipped
<1>4. PoolBytes(ShippedKernel, ShippedObjects) = [stack |-> 0, mp_data |-> 0, mq_data |-> 0, common |-> 8192]
  BY DEF PoolBytes, ShippedKernel, ShippedObjects, DataArea, Kinds
<1>5. PoolBlocks(ShippedKernel, ShippedObjects) = [k \in Kinds \cup {"def_stack"} |-> 0]
  BY DEF PoolBlocks, ShippedKernel, ShippedObjects, Kinds
<1>6. cfg.thread_stack_size = 256 /\ cfg.isr_queue_max = 16
  BY <1>2 DEF osRtxConfig, Shipped, ShippedKernel
<1> QED BY <1>2, <1>3, <1>4, <1>5, <1>6

LEMMA ShippedMemory ==
    ASSUME ShippedFirmware, conf \in DOMAIN Settings, conf = "shipped"
    PROVE  KernelMemory = CommonPool(8176)
BY ShippedConfig DEF KernelMemory, CommonPool

LEMMA CommonPoolFits == \A n \in Int : CommonPool(n).bytes["common"] = n /\ (Fits(CommonPool(n)) <=> n >= 0)
<1> SUFFICES ASSUME NEW n \in Int
             PROVE  CommonPool(n).bytes["common"] = n /\ (Fits(CommonPool(n)) <=> n >= 0)
  OBVIOUS
<1> DEFINE areas == {"stack", "mp_data", "mq_data", "common"}
           bytes == [a \in areas |-> IF a = "common" THEN n ELSE 0]
           blocks == [k \in Kinds \cup {"def_stack"} |-> 0]
<1>1. CommonPool(n).bytes = bytes /\ CommonPool(n).blocks = blocks
  BY DEF CommonPool
<1>2. /\ DOMAIN bytes = areas /\ "common" \in areas /\ bytes["common"] = n /\ \A a \in areas : a # "common" => bytes[a] = 0
      /\ \A k \in DOMAIN blocks : blocks[k] = 0
  OBVIOUS
<1> HIDE DEF areas, bytes, blocks
<1>3. (\A a \in areas : bytes[a] >= 0) <=> n >= 0
  <2>1. ASSUME n >= 0, NEW a \in areas PROVE bytes[a] >= 0
    <3>1. bytes[a] \in {0, n}
      BY <1>2
    <3> QED BY <2>1, <3>1
  <2> QED BY <1>2, <2>1
<1> QED BY <1>1, <1>2, <1>3 DEF Fits

LEMMA PoolFits == \A m : \A n \in Int : m = CommonPool(n) /\ n >= 0 => Fits(m)
<1> SUFFICES ASSUME NEW m, NEW n \in Int, m = CommonPool(n), n >= 0 PROVE Fits(m)
  OBVIOUS
<1>1. Fits(CommonPool(n))
  BY CommonPoolFits
<1> QED BY <1>1

\* What the objects of boot cost, block headers and rounding included.
LEMMA Costs ==
    ASSUME ShippedFirmware, conf \in DOMAIN Settings, conf = "shipped",
           NEW left \in Int, memory = CommonPool(left)
    PROVE  /\ TakeControlBlock(memory, "mutex") = CommonPool(left - 40)
           /\ TakeControlBlock(memory, "semaphore") = CommonPool(left - 24)
           /\ ThreadMemory(0) = CommonPool(left - 344)
           /\ ThreadMemory(1024) = CommonPool(left - 1112)
           /\ ThreadMemory(4096) = CommonPool(left - 4184)
           /\ \E n \in 0..272 : QueueMemory(NumSlots, 4) = CommonPool(left - 64 - n)
<1>1. ASSUME NEW n \in Int, NEW area \in {"stack", "mq_data", "common"}, NEW size \in Nat
      PROVE  TakeBytes(CommonPool(n), area, size) = CommonPool(n - 8 * ((size + 15) \div 8))
  <2>1. (IF cfg.mem[area] = 0 THEN "common" ELSE area) = "common"
    BY <1>1, ShippedConfig
  <2> DEFINE taken == 8 * ((size + 15) \div 8)
             m == CommonPool(n)
  <2>2. TakeBytes(m, area, size) = [m EXCEPT !.bytes["common"] = @ - taken]
    BY <2>1 DEF TakeBytes
  <2>3. taken \in Int
    OBVIOUS
  <2> HIDE DEF taken
  <2>4. [m EXCEPT !.bytes["common"] = @ - taken] = CommonPool(n - taken)
    <3> DEFINE areas == {"stack", "mp_data", "mq_data", "common"}
               bytes(k) == [a \in areas |-> IF a = "common" THEN k ELSE 0]
    <3>1. bytes(n)["common"] = n
      OBVIOUS
    <3>2. [bytes(n) EXCEPT !["common"] = @ - taken] = bytes(n - taken)
      BY <3>1
    <3>3. m.bytes = bytes(n) /\ m = [bytes |-> bytes(n), blocks |-> m.blocks]
          /\ CommonPool(n - taken) = [bytes |-> bytes(n - taken), blocks |-> m.blocks]
      BY DEF CommonPool
    <3> HIDE DEF bytes
    <3> QED BY <3>2, <3>3
  <2> QED BY <2>2, <2>4 DEF taken
<1>2. ASSUME NEW n \in Int, NEW kind \in Kinds
      PROVE  TakeControlBlock(CommonPool(n), kind) = CommonPool(n - 8 * ((CbSize(kind) + 15) \div 8))
  <2>1. CbSize(kind) \in Nat /\ cfg.mpi[kind] = 0
    BY <1>2, ShippedConfig DEF CbSize, CbWords, Kinds
  <2> QED BY <1>1, <2>1 DEF TakeControlBlock
<1>3. /\ CbSize("thread") = 72 /\ CbSize("mutex") = 28 /\ CbSize("semaphore") = 16 /\ CbSize("msgqueue") = 52
      /\ {"thread", "mutex", "semaphore", "msgqueue"} \subseteq Kinds
  BY DEF CbSize, CbWords, Kinds
<1>4. /\ (72 + 15) \div 8 = 10 /\ (28 + 15) \div 8 = 5 /\ (16 + 15) \div 8 = 3 /\ (52 + 15) \div 8 = 8
      /\ (256 + 15) \div 8 = 33 /\ (1024 + 15) \div 8 = 129 /\ (4096 + 15) \div 8 = 513
  OBVIOUS
<1>5. /\ TakeControlBlock(memory, "mutex") = CommonPool(left - 40)
      /\ TakeControlBlock(memory, "semaphore") = CommonPool(left - 24)
      /\ TakeControlBlock(memory, "thread") = CommonPool(left - 80)
      /\ TakeControlBlock(memory, "msgqueue") = CommonPool(left - 64)
  BY <1>2, <1>3, <1>4
<1>6. ASSUME NEW size \in Nat
      PROVE  ThreadMemory(size) = CommonPool(left - 80 - 8 * (((IF size = 0 THEN 256 ELSE size) + 15) \div 8))
  <2>1. left - 80 \in Int /\ cfg.mpi["def_stack"] = 0 /\ cfg.thread_stack_size = 256
    BY ShippedConfig
  <2>2. CASE size = 0
    BY <1>1, <1>5, <2>1, <2>2 DEF ThreadMemory, TakeStack
  <2>3. CASE size # 0
    BY <1>1, <1>5, <1>6, <2>1, <2>3 DEF ThreadMemory, TakeStack
  <2> QED BY <2>2, <2>3
<1>7. /\ ThreadMemory(0) = CommonPool(left - 344)
      /\ ThreadMemory(1024) = CommonPool(left - 1112)
      /\ ThreadMemory(4096) = CommonPool(left - 4184)
  BY <1>4, <1>6
<1>8. \E n \in 0..272 : QueueMemory(NumSlots, 4) = CommonPool(left - 64 - n)
  <2>1. osRtxMessageQueueMemSize(NumSlots, 4) = 16 * NumSlots
    <3>1. (4 + 3) \div 4 = 1
      OBVIOUS
    <3> QED BY <3>1, Constants DEF osRtxMessageQueueMemSize
  <2>2. NumSlots \in Nat /\ NumSlots <= 16
    BY ShippedConfig, Constants
  <2> DEFINE n == 8 * ((16 * NumSlots + 15) \div 8)
  <2>3. n \in 0..272
    BY <2>2
  <2>4. left - 64 \in Int /\ 16 * NumSlots \in Nat
    BY <2>2
  <2>5. QueueMemory(NumSlots, 4) = CommonPool(left - 64 - n)
    BY <1>1, <1>5, <2>1, <2>4 DEF QueueMemory
  <2> HIDE DEF n
  <2> QED BY <2>3, <2>5
<1> QED BY <1>5, <1>7, <1>8

\* What main() finds again after a step that creates nothing.
SameObjects == /\ UNCHANGED <<conf, memory, main, build>>
               /\ \A t \in Threads : thread'[t] = "absent" <=> thread[t] = "absent"
               /\ Exists(lock)' <=> Exists(lock)
               /\ queue'.size = queue.size

LEMMA ObjectTypes ==
    ASSUME Calls
    PROVE  /\ thread \in [Threads -> {"absent", "ready", "lock", "flags", "message"}]
           /\ lock = [kind |-> lock.kind, tokens |-> lock.tokens, holders |-> lock.holders, waiting |-> lock.waiting]
           /\ queue = [size |-> queue.size, msgs |-> queue.msgs, given |-> queue.given]
<1>1. CASE build = "thread"
  BY <1>1, CallTypes DEF Calls, CallsOfThreadBuild, ThreadCallInv, MailboxTypes, NoLock
<1>2. CASE build # "thread"
  BY <1>2, CallTypes DEF Calls, CallsOfLockBuild, CallInv, IInv, TypesInv, RequestsInv, NoQueue
<1> QED BY <1>1, <1>2

LEMMA AcquireKeepsObjects ==
    ASSUME Calls, NEW t \in Threads, Acquire(t)
    PROVE  SameObjects
<1>1. Runs(t, "acquire") /\ LockAcquire(t) /\ UNCHANGED <<memory, queue>>
  BY DEF Acquire, os_wrapper_mutex_acquire, OsLockAcquire, os_wrapper_semaphore_acquire
<1>2. UNCHANGED <<conf, main, build>> /\ thread[t] = "ready"
  BY <1>1 DEF Runs, bootVars
<1>3. Exists(lock)' <=> Exists(lock)
  BY <1>1, ObjectTypes DEF LockAcquire, Exists
<1>4. \A u \in Threads : thread'[u] = "absent" <=> thread[u] = "absent"
  BY <1>1, <1>2, ObjectTypes DEF LockAcquire
<1> QED BY <1>1, <1>2, <1>3, <1>4 DEF SameObjects

\* The thread that is handed the permit is one that waits.
LEMMA ReleaseKeepsObjects ==
    ASSUME Calls, NEW t \in Threads, Release(t)
    PROVE  SameObjects
<1>1. Runs(t, "release") /\ LockRelease(t) /\ UNCHANGED <<memory, queue>>
  BY DEF Release, os_wrapper_mutex_release, OsLockRelease, os_wrapper_semaphore_release
<1>2. UNCHANGED <<conf, main, build>> /\ thread[t] = "ready" /\ pc[t] = "release"
  BY <1>1 DEF Runs, bootVars
<1>3. Exists(lock)' <=> Exists(lock)
  BY <1>1, ObjectTypes DEF LockRelease, Exists
<1>4. build # "thread"
  <2> SUFFICES ASSUME build = "thread" PROVE FALSE
    OBVIOUS
  <2>1. t \in Clients \/ t = MailboxThread
    BY Constants
  <2> QED BY <1>2, <2>1 DEF Calls, CallsOfThreadBuild, ThreadCallInv, MailboxTypes, ClientPlaces, MailboxPlaces
<1>5. lock.waiting \in Seq(Clients) /\ \A i \in DOMAIN lock.waiting : thread[lock.waiting[i]] = "lock"
  BY <1>4 DEF Calls, CallsOfLockBuild, CallInv, IInv, TypesInv, LockInv, QueueInv
<1>6. lock.waiting # <<>> => thread[Head(lock.waiting)] = "lock"
  BY <1>5
<1>7. \A u \in Threads : thread'[u] = "absent" <=> thread[u] = "absent"
  <2>1. CASE lock.waiting = <<>>
    BY <1>1, <2>1 DEF LockRelease
  <2>2. CASE lock.waiting # <<>>
    <3>1. thread' = [thread EXCEPT ![Head(lock.waiting)] = "ready"]
      BY <1>1, <2>2 DEF LockRelease
    <3> QED BY <1>6, <2>2, <3>1, ObjectTypes
  <2> QED BY <2>1, <2>2
<1> QED BY <1>1, <1>2, <1>3, <1>7 DEF SameObjects

LEMMA StepKeepsObjects ==
    ASSUME Calls, NEW t \in Threads, Step(t)
    PROVE  SameObjects
<1>1. CASE Acquire(t) \/ Release(t)
  BY <1>1, AcquireKeepsObjects, ReleaseKeepsObjects
<1>2. CASE Send(t)
  <2>1. QueueSend(MailboxThread, Request(t)) /\ UNCHANGED <<conf, memory, main, build, lock>>
    BY <1>2 DEF Send, MqSend, Runs, bootVars
  <2> QED BY <2>1, ObjectTypes DEF QueueSend, SameObjects, Exists
<1>3. CASE Wait(t)
  <2>1. WaitFlag(t) /\ thread[t] = "ready" /\ UNCHANGED <<conf, memory, main, build, lock, queue>>
    BY <1>3 DEF Wait, WaitReply, Runs, bootVars
  <2> QED BY <2>1, ObjectTypes DEF WaitFlag, SameObjects, Exists
<1>4. CASE UNCHANGED <<conf, memory, main, build, thread, lock, queue>>
  BY <1>4 DEF SameObjects, Exists
<1> QED BY <1>1, <1>2, <1>3, <1>4
        DEF Step, Refused, SecureCall, FindSlot, TakeSlot, Sample, Account, Notify, TakeReply, HasReply,
            Runs, bootVars

LEMMA OthersKeepObjects ==
    ASSUME Calls, \/ Receive \/ Statistics \/ Processing \/ UNCHANGED vars
                  \/ \E i \in Slots : Reply(i)
                  \/ \E t \in Clients : Call(t)
    PROVE  SameObjects
<1>1. CASE UNCHANGED <<conf, memory, main, build, thread, lock, queue>>
  BY <1>1 DEF SameObjects, Exists
<1>2. CASE Receive
  <2>1. QueueReceive(MailboxThread) /\ thread[MailboxThread] = "ready" /\ UNCHANGED <<conf, memory, main, build, lock>>
    BY <1>2 DEF Receive, MqReceive, Runs, bootVars
  <2> QED BY <2>1, ObjectTypes DEF QueueReceive, SameObjects, Exists
<1>3. CASE Processing
  <2>1. /\ UNCHANGED <<conf, memory, main, build, lock, queue>>
        /\ \E t : thread' = [thread EXCEPT ![t] = IF thread[t] = "flags" /\ flags[t] THEN "ready" ELSE @]
    BY <1>3 DEF Processing, PostProcess, bootVars
  <2> QED BY <2>1, ObjectTypes DEF SameObjects, Exists
<1>4. Statistics \/ UNCHANGED vars => UNCHANGED <<conf, memory, main, build, thread, lock, queue>>
  BY DEF Statistics, ResetBegin, ResetEnd, AverageBegin, AverageEnd, Control, Runs, bootVars, vars, osVars
<1>5. ASSUME NEW i \in Slots, Reply(i) PROVE UNCHANGED <<conf, memory, main, build, thread, lock, queue>>
  BY <1>5 DEF Reply, bootVars
<1>6. ASSUME NEW t \in Clients, Call(t) PROVE UNCHANGED <<conf, memory, main, build, thread, lock, queue>>
  BY <1>6 DEF Call, Runs, bootVars
<1> QED BY <1>1, <1>2, <1>3, <1>4, <1>5, <1>6

LEMMA ObjectsKeepPool == PoolInv /\ SameObjects => PoolInv'
<1> SUFFICES ASSUME PoolInv, SameObjects PROVE PoolInv'
  OBVIOUS
<1>1. Spawned' = Spawned /\ (InterfaceReady' <=> InterfaceReady) /\ (thread'[App] = "absent" <=> thread[App] = "absent")
  BY Constants DEF SameObjects, Spawned, InterfaceReady
<1> QED BY <1>1 DEF PoolInv, SameObjects

\* A thread of the application, and what it takes from the pool.
LEMMA SpawnKeepsPool ==
    ASSUME ShippedFirmware, FewClients, Calls, MemoryInv, PoolInv, NEW t \in Clients, Spawn(t)
    PROVE  PoolInv'
<1> USE Constants
<1>1. /\ UNCHANGED <<conf, main, build, lock, queue>> /\ main = "running"
      /\ thread[App] = "ready" /\ thread[t] = "absent" /\ ThreadNew(t, 0)
  BY DEF Spawn, os_wrapper_thread_new, Runs, bootVars
<1>2. CASE conf # "shipped"
  BY <1>1, <1>2 DEF PoolInv
<1>3. CASE memory' = memory /\ thread' = thread
  BY <1>1, <1>3, ObjectsKeepPool DEF SameObjects, Exists
<1>4. CASE conf = "shipped" /\ memory' = ThreadMemory(0) /\ thread' = [thread EXCEPT ![t] = "ready"]
  <2> DEFINE left == memory.bytes["common"]
  <2>1. left \in Int /\ memory = CommonPool(left) /\ conf \in DOMAIN Settings
    BY <1>4 DEF PoolInv, MemoryInv
  <2>2. memory' = CommonPool(left - 344) /\ left - 344 \in Int
    BY <1>4, <2>1, Costs
  <2>3. memory'.bytes["common"] = left - 344
    BY <2>2, CommonPoolFits
  <2>4. Spawned' = Spawned \cup {t} /\ t \notin Spawned
    BY <1>1, <1>4, ObjectTypes DEF Spawned
  <2>5. IsFiniteSet(Spawned) /\ Cardinality(Spawned) \in Nat
    BY FS_Subset, FS_CardinalityType DEF FewClients, Spawned
  <2>6. Cardinality(Spawned') = Cardinality(Spawned) + 1
    BY <2>4, <2>5, FS_AddElement
  <2>7. (InterfaceReady' <=> InterfaceReady) /\ thread'[App] # "absent"
    BY <1>1, <1>4, ObjectTypes DEF InterfaceReady, Exists
  <2>8. InterfaceReady /\ left + 344 * Cardinality(Spawned) >= 2544
    BY <1>1, <1>4 DEF PoolInv
  <2> HIDE DEF left
  <2>9. (left - 344) + 344 * Cardinality(Spawned') >= 2544
    BY <2>1, <2>5, <2>6, <2>8
  <2> QED BY <1>1, <2>2, <2>3, <2>7, <2>8, <2>9 DEF PoolInv
<1> QED BY <1>1, <1>2, <1>3, <1>4, ObjectTypes DEF ThreadNew

\* main() itself: nothing else has taken of the pool yet.
LEMMA BootKeepsPool ==
    ASSUME ShippedFirmware, Calls, MemoryInv, PoolInv, Boot
    PROVE  PoolInv'
<1> USE Constants
<1> DEFINE left == memory.bytes["common"]
<1>1. UNCHANGED <<conf, build>>
  BY DEF Boot, PlatformInit, CpInit, KernelInitialize, InterfaceInit, WaitSecureCpu, MailboxInit, AfterMailboxInit,
         MailboxThreadNew, AppThreadNew, CreateThread, KernelStart, NoMemory, osVars, MainGoes
<1> SUFFICES ASSUME conf = "shipped" PROVE PoolInv'
  BY <1>1 DEF PoolInv
<1>2. left \in Int /\ memory = CommonPool(left) /\ conf \in DOMAIN Settings
  BY DEF PoolInv, MemoryInv
<1>3. \A n \in Int : memory' = CommonPool(n) => memory'.bytes["common"] = n
  BY CommonPoolFits
<1>4. CASE PlatformInit \/ CpInit \/ WaitSecureCpu
  <2>1. UNCHANGED <<memory, thread, lock, queue>>
    BY <1>4 DEF PlatformInit, CpInit, WaitSecureCpu, NoMemory, osVars
  <2>2. /\ main \in {"platform", "cp", "secure_cpu"}
        /\ main' \in {"cp", "kernel", "mailbox_init", "parked"}
    BY <1>4 DEF PlatformInit, CpInit, WaitSecureCpu, MainGoes
  <2>3. Spawned' = Spawned
    BY <2>1 DEF Spawned
  <2> QED BY <1>1, <2>1, <2>2, <2>3 DEF PoolInv
<1>5. CASE KernelInitialize
  <2>1. /\ memory' = KernelMemory /\ UNCHANGED thread /\ main = "kernel"
        /\ main' = IF build = "trustzone" THEN "interface" ELSE "secure_cpu"
    BY <1>5 DEF KernelInitialize, MainGoes
  <2>2. memory' = CommonPool(8176)
    BY <1>2, <2>1, ShippedMemory
  <2>3. Spawned' = Spawned
    BY <2>1 DEF Spawned
  <2> QED BY <1>1, <1>3, <2>1, <2>2, <2>3 DEF PoolInv
<1>6. CASE InterfaceInit
  <2>1. /\ main = "interface" /\ main' = "app_thread" /\ LockCreate("mutex", 1) /\ UNCHANGED <<thread, queue>>
        /\ build = "trustzone" /\ left = 8176 /\ Spawned = {}
    BY <1>6 DEF InterfaceInit, MainGoes, os_wrapper_mutex_create, PoolInv
  <2>2. TakeControlBlock(memory, "mutex") = CommonPool(8136) /\ Fits(CommonPool(8136))
    BY <1>2, <2>1, Costs, CommonPoolFits
  <2>3. memory' = CommonPool(8136) /\ Exists(lock)'
    BY <2>1, <2>2 DEF LockCreate, Exists, NoLock
  <2>4. Spawned' = {} /\ InterfaceReady'
    BY <1>1, <2>1, <2>3 DEF Spawned, InterfaceReady
  <2> QED BY <1>1, <1>3, <2>1, <2>3, <2>4 DEF PoolInv
<1>7. CASE MailboxInit
  <2>1. main = "mailbox_init" /\ UNCHANGED thread /\ left = 8176 /\ Spawned = {}
    BY <1>7 DEF MailboxInit, AfterMailboxInit, MainGoes, PoolInv
  <2>2. Spawned' = {}
    BY <2>1 DEF Spawned
  <2>3. CASE build = "mailbox"
    <3>1. LockCreate("semaphore", MAX_SEMAPHORE_COUNT) /\ AfterMailboxInit(Exists(lock'))
      BY <1>7, <2>3 DEF MailboxInit, LockInit, os_wrapper_semaphore_create
    <3>2. TakeControlBlock(memory, "semaphore") = CommonPool(8152) /\ Fits(CommonPool(8152))
      BY <1>2, <2>1, Costs, CommonPoolFits
    <3>3. memory' = CommonPool(8152) /\ Exists(lock')
      BY <3>1, <3>2 DEF LockCreate, Exists, NoLock
    <3>4. main' = "app_thread"
      BY <2>3, <3>1, <3>3 DEF AfterMailboxInit, MainGoes
    <3>5. InterfaceReady'
      BY <1>1, <2>3, <3>3 DEF InterfaceReady, Exists
    <3> QED BY <1>1, <1>3, <2>2, <3>3, <3>4, <3>5 DEF PoolInv
  <2>4. CASE build = "thread"
    <3>1. os_wrapper_msg_queue_create(NumSlots, 4) /\ AfterMailboxInit(queue'.size # 0)
      BY <1>7, <2>4 DEF MailboxInit, MqCreate
    <3>2. PICK n \in 0..272 : QueueMemory(NumSlots, 4) = CommonPool(8176 - 64 - n)
      BY <1>2, <2>1, Costs
    <3>3. 8176 - 64 - n \in Int /\ 8176 - 64 - n >= 7840 /\ Fits(CommonPool(8176 - 64 - n))
      BY CommonPoolFits
    <3>4. memory' = CommonPool(8176 - 64 - n) /\ queue'.size = NumSlots
      BY <3>1, <3>2, <3>3 DEF os_wrapper_msg_queue_create, NoQueue
    <3>5. main' = "mailbox_thread"
      BY <2>4, <3>1, <3>4 DEF AfterMailboxInit, MainGoes
    <3> QED BY <1>1, <1>3, <2>2, <2>4, <3>3, <3>4, <3>5 DEF PoolInv
  <2> QED BY <1>7, <2>3, <2>4 DEF MailboxInit
<1>8. CASE MailboxThreadNew
  <2>1. /\ main = "mailbox_thread" /\ main' = "app_thread" /\ ThreadNew(MailboxThread, 1024) /\ UNCHANGED <<lock, queue>>
        /\ build = "thread" /\ queue.size > 0 /\ left >= 7840 /\ Spawned = {}
    BY <1>8 DEF MailboxThreadNew, CreateThread, MainGoes, PoolInv
  <2>2. left - 1112 \in Int /\ left - 1112 >= 0 /\ ThreadMemory(1024) = CommonPool(left - 1112)
    BY <1>2, <2>1, Costs
  <2>3. memory' = CommonPool(left - 1112) /\ thread' = [thread EXCEPT ![MailboxThread] = "ready"]
    <3>1. Fits(ThreadMemory(1024))
      BY <2>2, PoolFits
    <3>2. memory' = ThreadMemory(1024) /\ thread' = [thread EXCEPT ![MailboxThread] = "ready"]
      BY <2>1, <3>1 DEF ThreadNew
    <3> QED BY <2>2, <3>2
  <2>4. Spawned' = {} /\ InterfaceReady'
    BY <1>1, <2>1, <2>3, ObjectTypes DEF Spawned, InterfaceReady
  <2> QED BY <1>1, <1>2, <1>3, <2>1, <2>2, <2>3, <2>4 DEF PoolInv
<1>9. CASE AppThreadNew
  <2>1. /\ main = "app_thread" /\ main' = "start" /\ ThreadNew(App, 4096) /\ UNCHANGED <<lock, queue>>
        /\ InterfaceReady /\ left >= 6728 /\ Spawned = {}
    BY <1>9 DEF AppThreadNew, CreateThread, MainGoes, PoolInv
  <2>2. left - 4184 \in Int /\ left - 4184 >= 0 /\ ThreadMemory(4096) = CommonPool(left - 4184)
    BY <1>2, <2>1, Costs
  <2>3. memory' = CommonPool(left - 4184) /\ thread' = [thread EXCEPT ![App] = "ready"]
    <3>1. Fits(ThreadMemory(4096))
      BY <2>2, PoolFits
    <3>2. memory' = ThreadMemory(4096) /\ thread' = [thread EXCEPT ![App] = "ready"]
      BY <2>1, <3>1 DEF ThreadNew
    <3> QED BY <2>2, <3>2
  <2>4. Spawned' = {} /\ InterfaceReady' /\ thread'[App] # "absent"
    BY <1>1, <2>1, <2>3, ObjectTypes DEF Spawned, InterfaceReady, Exists
  <2>5. (left - 4184) + 344 * Cardinality(Spawned') >= 2544
    BY <1>2, <2>1, <2>4, FS_EmptySet
  <2> QED BY <1>1, <1>3, <2>1, <2>2, <2>3, <2>4, <2>5 DEF PoolInv
<1>10. CASE KernelStart
  <2>1. main = "start" /\ main' = "running" /\ UNCHANGED <<memory, thread, lock, queue>>
    BY <1>10 DEF KernelStart, MainGoes, NoMemory, osVars
  <2>2. Spawned' = Spawned /\ (InterfaceReady' <=> InterfaceReady)
    BY <1>1, <2>1 DEF Spawned, InterfaceReady, Exists
  <2> QED BY <1>1, <2>1, <2>2 DEF PoolInv
<1> QED BY <1>4, <1>5, <1>6, <1>7, <1>8, <1>9, <1>10 DEF Boot

\* With the shipped settings, in any build and whatever the number of mailbox
\* slots, boot gets all the memory it asks for, and every thread an application
\* of at most eight creates gets its stack: main() need not look at what
\* tfm_ns_interface_init and osThreadNew return.
THEOREM BootSucceeds ==
    ASSUME ShippedFirmware, FewClients
    PROVE  Spec => []BootObjectsCreated
<1> USE Constants
<1>1. Init => PoolInv
  <2> SUFFICES ASSUME Init, conf = "shipped" PROVE PoolInv
    BY DEF PoolInv
  <2>1. conf \in DOMAIN Settings /\ memory = KernelMemory /\ main = "platform" /\ thread = [t \in Threads |-> "absent"]
    BY DEF Init
  <2>2. memory = CommonPool(8176)
    BY <2>1, ShippedMemory
  <2>3. memory.bytes["common"] = 8176 /\ Spawned = {}
    BY <2>1, <2>2, CommonPoolFits DEF Spawned
  <2> QED BY <2>1, <2>2, <2>3 DEF PoolInv
<1>2. Calls /\ MemoryInv /\ PoolInv /\ [Next]_vars => PoolInv'
  <2> SUFFICES ASSUME Calls, MemoryInv, PoolInv, [Next]_vars PROVE PoolInv'
    OBVIOUS
  <2>1. CASE Boot
    BY <2>1, BootKeepsPool
  <2>2. ASSUME NEW t \in Clients, Spawn(t) PROVE PoolInv'
    BY <2>2, SpawnKeepsPool
  <2>3. ASSUME NEW t \in Threads, Step(t) PROVE PoolInv'
    BY <2>3, StepKeepsObjects, ObjectsKeepPool
  <2>4. CASE \/ Receive \/ Statistics \/ Processing \/ UNCHANGED vars
             \/ \E i \in Slots : Reply(i)
             \/ \E t \in Clients : Call(t)
    BY <2>4, OthersKeepObjects, ObjectsKeepPool
  <2> QED BY <2>1, <2>2, <2>3, <2>4 DEF Next
<1>3. PoolInv /\ MemoryInv => BootObjectsCreated
  <2> SUFFICES ASSUME PoolInv, MemoryInv, main = "running", conf = "shipped" PROVE BootObjectsCreated
    BY DEF BootObjectsCreated
  <2> DEFINE left == memory.bytes["common"]
  <2>1. /\ left \in Int /\ memory = CommonPool(left) /\ conf \in DOMAIN Settings
        /\ InterfaceReady /\ thread[App] # "absent" /\ left + 344 * Cardinality(Spawned) >= 2544
    BY DEF PoolInv, MemoryInv
  <2>2. ASSUME NEW t \in Clients, thread[t] = "absent" PROVE Fits(ThreadMemory(0))
    <3>1. Spawned \subseteq (Clients \ {App}) \ {t} /\ t \in Clients \ {App}
      BY <2>1, <2>2 DEF Spawned
    <3>2. /\ IsFiniteSet((Clients \ {App}) \ {t}) /\ Cardinality(Clients) \in Nat
          /\ Cardinality((Clients \ {App}) \ {t}) = Cardinality(Clients) - 2
      <4>1. IsFiniteSet(Clients) /\ Cardinality(Clients) \in Nat
        BY FS_CardinalityType DEF FewClients
      <4>2. IsFiniteSet(Clients \ {App}) /\ Cardinality(Clients \ {App}) = Cardinality(Clients) - 1
        BY <4>1, FS_RemoveElement
      <4>3. /\ IsFiniteSet((Clients \ {App}) \ {t})
            /\ Cardinality((Clients \ {App}) \ {t}) = Cardinality(Clients \ {App}) - 1
        BY <3>1, <4>2, FS_RemoveElement
      <4> QED BY <4>1, <4>2, <4>3
    <3>3. Cardinality(Spawned) \in Nat /\ Cardinality(Spawned) <= 6
      <4>1. IsFiniteSet(Spawned) /\ Cardinality(Spawned) <= Cardinality((Clients \ {App}) \ {t})
        BY <3>1, <3>2, FS_Subset
      <4> QED BY <3>2, <4>1, FS_CardinalityType DEF FewClients
    <3>4. left - 344 >= 0 /\ left - 344 \in Int
      BY <2>1, <3>3
    <3>5. ThreadMemory(0) = CommonPool(left - 344)
      BY <2>1, Costs
    <3> QED BY <3>4, <3>5, CommonPoolFits
  <2> QED BY <2>1, <2>2 DEF BootObjectsCreated, InterfaceReady
<1>4. Spec => []Calls
  BY CallsInvariant, ThreadCallsInvariant, PTL DEF Calls
<1> QED BY <1>1, <1>2, <1>3, <1>4, MemoryInvariant, PTL DEF Spec
=============================================================================
