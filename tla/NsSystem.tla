------------------------------ MODULE NsSystem ------------------------------
(***************************************************************************)
(* The non-secure side: main() of app_broker/main_ns.c brings the system   *)
(* up, the application thread and others it creates make secure calls.     *)
(* Three builds are covered:                                               *)
(*   "trustzone"  the secure call is a function call under the mutex of    *)
(*                tfm_ns_interface_init;                                   *)
(*   "mailbox"    TFM_NS_MAILBOX_API: a client sends through the mailbox   *)
(*                itself, under a semaphore with a permit per slot;        *)
(*   "thread"     TFM_MULTI_CORE_NS_OS_MAILBOX_THREAD: a mailbox thread    *)
(*                sends what clients put on its message queue.             *)
(* External: the platform, tfm_ns_interface_init and its dispatch, the     *)
(* client side of the mailbox, the secure core.                            *)
(***************************************************************************)
EXTENDS NsMailbox

CONSTANTS App,             \* tinyml_thread
          MailboxThread,   \* mailbox_thread
          Builds,          \* the builds looked at
          Clients,         \* App and the threads it creates
          MaxCalls         \* calls a client makes while statistics are kept

ASSUME NsConstants ==
    /\ App \in Clients /\ MailboxThread \notin Clients
    /\ Threads = Clients \cup {MailboxThread} /\ Nobody \notin Threads
    /\ NumSlots \in Nat \ {0} /\ MaxCalls \in Nat \ {0}
    /\ Builds \subseteq {"trustzone", "mailbox", "thread"}
    /\ \A c \in DOMAIN Settings :
          /\ Settings[c] \in Options /\ Compiles(Settings[c])
          /\ NumSlots <= OsRtxConfigs[c].isr_queue_max

VARIABLES build,
          main,     \* how far main() is
          pc,       \* where each thread is
          calls,    \* calls[t]: the number of client t's last call
          answer,   \* answer[t]: the request t got an answer to
          idx,      \* idx[t]: slot t claims
          seen      \* seen[t]: the number t has read of the statistics

progVars == <<pc, calls, answer, idx, seen>>
bootVars == <<build, main>>
vars == <<osVars, mailboxVars, bootVars, progVars>>

Error == [owner |-> Nobody, n |-> 1]

Init ==
    /\ build \in Builds /\ conf \in DOMAIN Settings
    /\ main = "platform"
    /\ memory = KernelMemory
    /\ thread = [t \in Threads |-> "absent"]
    /\ flags = [t \in Threads |-> FALSE]
    /\ isr_queue = <<>> /\ irq_off = Nobody /\ lock = NoLock /\ queue = NoQueue
    /\ slot = [i \in Slots |-> EmptySlot]
    /\ stats_queue_ptr = FALSE /\ nr_tx = 0 /\ nr_used_slots = 0
    /\ pc = [t \in Threads |-> IF t = MailboxThread THEN "receive" ELSE "idle"]
    /\ calls = [t \in Clients |-> 0] /\ answer = [t \in Clients |-> NoRequest]
    /\ idx = [t \in Threads |-> 1] /\ seen = [t \in Threads |-> 0]

-----------------------------------------------------------------------------
(* main()                                                                  *)

MainGoes(from, to) == main = from /\ main' = to /\ UNCHANGED build
NoMemory == UNCHANGED osVars
NoThreads == UNCHANGED <<mailboxVars, progVars>>

PlatformInit == /\ \/ MainGoes("platform", "cp")
                   \/ MainGoes("platform", "parked")
                /\ NoMemory /\ NoThreads

CpInit == /\ \/ MainGoes("cp", "kernel")
             \/ MainGoes("cp", "parked")
          /\ NoMemory /\ NoThreads

KernelInitialize == /\ MainGoes("kernel", IF build = "trustzone" THEN "interface" ELSE "secure_cpu")
                    /\ memory' = KernelMemory
                    /\ UNCHANGED <<conf, thread, flags, isr_queue, irq_off, lock, queue>> /\ NoThreads

\* The result of tfm_ns_interface_init is not looked at.
InterfaceInit == /\ MainGoes("interface", "app_thread")
                 /\ os_wrapper_mutex_create
                 /\ UNCHANGED <<conf, thread, flags, isr_queue, irq_off, queue>> /\ NoThreads

\* tfm_ns_multi_core_boot
WaitSecureCpu == /\ \/ MainGoes("secure_cpu", "mailbox_init")
                    \/ MainGoes("secure_cpu", "parked")
                 /\ NoMemory /\ NoThreads

AfterMailboxInit(ok) ==
    IF ~ok THEN MainGoes("mailbox_init", "parked")
    ELSE MainGoes("mailbox_init", IF build = "thread" THEN "mailbox_thread" ELSE "app_thread")

MailboxInit ==
    /\ \/ /\ build = "mailbox" /\ LockInit /\ UNCHANGED queue
          /\ AfterMailboxInit(Exists(lock'))
       \/ /\ build = "thread" /\ MqCreate /\ UNCHANGED lock
          /\ AfterMailboxInit(queue'.size # 0)
    /\ StatsInit \/ NoStats
    /\ UNCHANGED <<slot, conf, thread, flags, isr_queue, irq_off, progVars>>

\* Whether the thread was created is not looked at.
CreateThread(from, to, t, size) ==
    /\ MainGoes(from, to)
    /\ ThreadNew(t, size)
    /\ UNCHANGED <<conf, flags, isr_queue, irq_off, lock, queue>> /\ NoThreads

MailboxThreadNew == CreateThread("mailbox_thread", "app_thread", MailboxThread, 1024)
AppThreadNew     == CreateThread("app_thread", "start", App, 4096)

KernelStart == MainGoes("start", "running") /\ NoMemory /\ NoThreads

Boot == \/ PlatformInit \/ CpInit \/ KernelInitialize \/ InterfaceInit \/ WaitSecureCpu
        \/ MailboxInit \/ MailboxThreadNew \/ AppThreadNew \/ KernelStart

-----------------------------------------------------------------------------
(* Threads.  One runs when it is ready, no interrupt waits to be processed *)
(* and no other thread has interrupts disabled.                            *)

Runs(t, at) == /\ main = "running" /\ thread[t] = "ready" /\ isr_queue = <<>>
               /\ irq_off \in {Nobody, t} /\ pc[t] = at
               /\ UNCHANGED <<bootVars, conf>>
Goto(t, to) == pc' = [pc EXCEPT ![t] = to]

Request(t) == IF t = MailboxThread THEN Head(queue.given) ELSE [owner |-> t, n |-> calls[t]]

\* The application thread creates another client, with the default stack.
Spawn(t) ==
    /\ Runs(App, "idle") /\ t \in Clients /\ thread[t] = "absent"
    /\ os_wrapper_thread_new(t, TRUE, 0)
    /\ UNCHANGED <<flags, isr_queue, irq_off, lock, queue, mailboxVars, progVars>>

\* A client begins a secure call.  It may do so for ever; only where statistics
\* count the calls are they bounded.
Call(t) ==
    /\ Runs(t, "idle") /\ t \in Clients
    /\ stats_queue_ptr => calls[t] < MaxCalls
    /\ calls' = [calls EXCEPT ![t] = IF @ = MaxCalls THEN 1 ELSE @ + 1]
    /\ answer' = [answer EXCEPT ![t] = NoRequest]
    /\ Goto(t, IF build = "thread" THEN "send" ELSE "acquire")
    /\ UNCHANGED <<memory, thread, flags, isr_queue, irq_off, lock, queue, mailboxVars, idx, seen>>

\* Without a lock the call returns an error at once.
Refused(t) ==
    /\ Runs(t, "acquire") /\ ~Exists(lock)
    /\ answer' = [answer EXCEPT ![t] = Error]
    /\ Goto(t, "idle")
    /\ UNCHANGED <<memory, thread, flags, isr_queue, irq_off, lock, queue, mailboxVars, calls, idx, seen>>

\* A thread that blocks goes on from here when it has been given the lock.
Acquire(t) ==
    /\ Runs(t, "acquire")
    /\ IF build = "trustzone" THEN os_wrapper_mutex_acquire(t) ELSE OsLockAcquire(t)
    /\ Goto(t, IF build = "trustzone" THEN "secure" ELSE "claim")
    /\ UNCHANGED <<memory, flags, isr_queue, irq_off, queue, mailboxVars, calls, answer, idx, seen>>

\* The secure call itself, on the same core.
SecureCall(t) ==
    /\ Runs(t, "secure")
    /\ answer' = [answer EXCEPT ![t] = Request(t)]
    /\ Goto(t, "release")
    /\ UNCHANGED <<memory, thread, flags, isr_queue, irq_off, lock, queue, mailboxVars, calls, idx, seen>>

Release(t) ==
    /\ Runs(t, "release")
    /\ IF build = "trustzone" THEN os_wrapper_mutex_release(t) ELSE OsLockRelease(t)
    /\ Goto(t, "idle")
    /\ UNCHANGED <<memory, flags, isr_queue, irq_off, queue, mailboxVars, calls, answer, idx, seen>>

\* A client of the mailbox thread.
Send(t) ==
    /\ Runs(t, "send")
    /\ MqSend(MailboxThread, Request(t))
    /\ Goto(t, "wait")
    /\ UNCHANGED <<memory, flags, isr_queue, irq_off, lock, mailboxVars, calls, answer, idx, seen>>

Receive ==
    /\ Runs(MailboxThread, "receive")
    /\ MqReceive(MailboxThread)
    /\ Goto(MailboxThread, "claim")
    /\ UNCHANGED <<memory, flags, isr_queue, irq_off, lock, mailboxVars, calls, answer, idx, seen>>

-----------------------------------------------------------------------------
(* Sending through the mailbox: by the client, or by the mailbox thread.   *)

\* An empty slot is looked for under the spin lock.  Without one a client
\* returns an error, and the mailbox thread tries again.
FindSlot(t) ==
    /\ Runs(t, "claim")
    /\ IF EmptySlots # {}
       THEN /\ SpinLock(t)
            /\ idx' = [idx EXCEPT ![t] = CHOOSE i \in EmptySlots : \A j \in EmptySlots : i <= j]
            /\ Goto(t, "claimed")
            /\ UNCHANGED answer
       ELSE /\ t \in Clients
            /\ answer' = [answer EXCEPT ![t] = Error]
            /\ Goto(t, "release")
            /\ UNCHANGED <<irq_off, idx>>
    /\ UNCHANGED <<memory, thread, flags, isr_queue, lock, queue, mailboxVars, calls, seen>>

\* The slot that was found is taken.
TakeSlot(t) ==
    /\ Runs(t, "claimed")
    /\ slot' = [slot EXCEPT ![idx[t]] = [state |-> "claimed", req |-> Request(t)]]
    /\ SpinUnlock
    /\ Goto(t, "sample")
    /\ UNCHANGED <<memory, thread, flags, isr_queue, lock, queue, stats_queue_ptr, nr_tx, nr_used_slots,
                   calls, answer, idx, seen>>

Sample(t) ==
    /\ Runs(t, "sample")
    /\ seen' = [seen EXCEPT ![t] = CountEmpty]
    /\ Goto(t, IF stats_queue_ptr THEN "account" ELSE "notify")
    /\ UNCHANGED <<memory, thread, flags, isr_queue, irq_off, lock, queue, mailboxVars, calls, answer, idx>>

Account(t) ==
    /\ Runs(t, "account")
    /\ StatsAdd(seen[t])
    /\ seen' = [seen EXCEPT ![t] = 0]
    /\ Goto(t, "notify")
    /\ UNCHANGED <<memory, thread, flags, isr_queue, irq_off, lock, queue, slot, stats_queue_ptr,
                   calls, answer, idx>>

Notify(t) ==
    /\ Runs(t, "notify")
    /\ slot' = [slot EXCEPT ![idx[t]].state = "pending"]
    /\ Goto(t, IF t = MailboxThread THEN "receive" ELSE "wait")
    /\ UNCHANGED <<memory, thread, flags, isr_queue, irq_off, lock, queue, stats_queue_ptr, nr_tx, nr_used_slots,
                   calls, answer, idx, seen>>

\* The secure core replies and interrupts.  With a mailbox thread the handler
\* hands over the reply and frees the slot.
Reply(i) ==
    /\ slot[i].state = "pending" /\ irq_off = Nobody
    /\ WakeTaskIsr(slot[i].req.owner)
    /\ IF build = "thread"
       THEN /\ answer' = [answer EXCEPT ![slot[i].req.owner] = slot[i].req]
            /\ slot' = [slot EXCEPT ![i] = EmptySlot]
       ELSE /\ slot' = [slot EXCEPT ![i].state = "replied"]
            /\ UNCHANGED answer
    /\ UNCHANGED <<conf, memory, thread, irq_off, lock, queue, bootVars, stats_queue_ptr, nr_tx,
                   nr_used_slots, pc, calls, idx, seen>>

Wait(t) ==
    /\ Runs(t, "wait")
    /\ WaitReply(t)
    /\ Goto(t, "check")
    /\ UNCHANGED <<memory, isr_queue, irq_off, lock, queue, mailboxVars, calls, answer, idx, seen>>

\* Woken: the client takes its reply and frees the slot.
TakeReply(t) ==
    /\ Runs(t, "check") /\ build = "mailbox" /\ slot[idx[t]].state = "replied"
    /\ answer' = [answer EXCEPT ![t] = slot[idx[t]].req]
    /\ slot' = [slot EXCEPT ![idx[t]] = EmptySlot]
    /\ Goto(t, "release")
    /\ UNCHANGED <<memory, thread, flags, isr_queue, irq_off, lock, queue, stats_queue_ptr, nr_tx, nr_used_slots,
                   calls, idx, seen>>

HasReply(t) == /\ Runs(t, "check") /\ build = "thread" /\ answer[t] # NoRequest
               /\ Goto(t, "idle")
               /\ UNCHANGED <<memory, thread, flags, isr_queue, irq_off, lock, queue, mailboxVars,
                              calls, answer, idx, seen>>

-----------------------------------------------------------------------------
(* The application thread resets and reads the statistics between calls.   *)

Control(from, to) ==
    /\ Runs(App, from) /\ stats_queue_ptr
    /\ Goto(App, to)
    /\ UNCHANGED <<memory, thread, flags, isr_queue, irq_off, lock, queue, slot, stats_queue_ptr, calls, answer, idx>>

ResetBegin == Control("idle", "reset") /\ Reinit(TRUE) /\ UNCHANGED seen
ResetEnd   == Control("reset", "idle") /\ Reinit(FALSE) /\ UNCHANGED seen

AverageBegin == /\ Control("idle", "average")
                /\ seen' = [seen EXCEPT ![App] = nr_used_slots]
                /\ UNCHANGED <<nr_tx, nr_used_slots>>
\* The average is computed from what was read and from nr_tx now.
AverageEnd   == /\ Control("average", "idle")
                /\ seen' = [seen EXCEPT ![App] = 0]
                /\ UNCHANGED <<nr_tx, nr_used_slots>>

Step(t) == \/ Refused(t) \/ Acquire(t) \/ SecureCall(t) \/ Release(t) \/ Send(t)
           \/ FindSlot(t) \/ TakeSlot(t) \/ Sample(t) \/ Account(t) \/ Notify(t)
           \/ Wait(t) \/ TakeReply(t) \/ HasReply(t)

Statistics == ResetBegin \/ ResetEnd \/ AverageBegin \/ AverageEnd
Processing == PostProcess /\ UNCHANGED <<mailboxVars, bootVars, progVars>>

Next == \/ Boot \/ Receive \/ Statistics \/ Processing
        \/ \E i \in Slots : Reply(i)
        \/ \E t \in Threads : Step(t)
        \/ \E t \in Clients : Call(t) \/ Spawn(t)

\* Round robin comes back to every thread that is ready however often others
\* have interrupts disabled, hence the strong fairness.  A client that looks
\* for room in the message queue is promised no more than weak fairness: room
\* may come and go between its turns.  A reset or an average that was begun is
\* finished.  The secure core answers, and its interrupt stays pending while
\* interrupts are off, hence strong fairness here too.
Goes(t) == \/ pc[t] # "send" /\ Step(t)
           \/ t = MailboxThread /\ Receive

Fairness == /\ \A t \in Threads : SF_vars(Goes(t)) /\ WF_vars(Send(t))
            /\ WF_vars(Processing) /\ \A i \in Slots : SF_vars(Reply(i))
            /\ WF_vars(ResetEnd) /\ WF_vars(AverageEnd)

Spec == Init /\ [][Next]_vars /\ Fairness
-----------------------------------------------------------------------------
\* Threads, queues and counters are of their types; the interrupt queue never
\* outgrows the array osRtxConfig gives it, and memory never goes below 0.
TypeOK ==
    /\ thread \in [Threads -> {"absent", "ready", "lock", "flags", "message"}]
    /\ flags \in [Threads -> BOOLEAN]
    /\ Len(isr_queue) <= cfg.isr_queue_max
    /\ \A a \in DOMAIN memory.bytes : memory.bytes[a] >= 0
    /\ \A k \in DOMAIN memory.blocks : memory.blocks[k] >= 0
    /\ Len(queue.msgs) <= queue.size
    /\ lock.tokens \in 0..NumSlots /\ lock.holders \subseteq Clients
    /\ slot \in [Slots -> [state : {"empty", "claimed", "pending", "replied"},
                           req : [owner : Clients \cup {Nobody}, n : 0..MaxCalls]]]
    /\ nr_tx \in Nat /\ nr_used_slots \in Nat

\* main() does not look at what tfm_ns_interface_init and osThreadNew return;
\* with the shipped settings it need not, in any build: when the kernel starts,
\* the lock or the queue, the mailbox thread and the application thread exist,
\* and every other client can still have a default stack.
BootObjectsCreated ==
    (main = "running" /\ conf = "shipped") =>
        /\ thread[App] # "absent"
        /\ IF build = "thread" THEN queue.size > 0 /\ thread[MailboxThread] # "absent" ELSE Exists(lock)
        /\ \A t \in Clients : thread[t] = "absent" => Fits(ThreadMemory(0))

\* The mutex of the trustzone build: at most one thread is past it, also when
\* it could not be created.
OneInside == build = "trustzone" =>
    \A t, u \in Clients : /\ pc[t] \in {"secure", "release"} /\ thread[t] = "ready"
                           /\ pc[u] \in {"secure", "release"} /\ thread[u] = "ready" => t = u

\* The permits of the semaphore match the slots: a client that got one finds
\* an empty slot, whatever the others are doing, so no call is turned down.
PermitMeansSlot ==
    build = "mailbox" =>
        /\ \A t \in Clients : pc[t] = "claim" /\ thread[t] = "ready" => EmptySlots # {}
        /\ \A t \in Clients : Exists(lock) => answer[t] # Error

\* No slot is shared and no wake-up goes astray: the request a call is
\* answered with is the one it made.
AnsweredOwnRequest ==
    \A t \in Clients : answer[t] \notin {NoRequest, Error} => answer[t] = [owner |-> t, n |-> calls[t]]

\* A call leaves nothing behind for the next one of its thread, nor for the
\* others: no permit, no slot, no message, no flag set and no wake-up pending.
CleanBetweenCalls ==
    \A t \in Clients : pc[t] = "idle" /\ thread[t] # "absent" =>
       /\ ~flags[t] /\ t \notin lock.holders
       /\ \A i \in Slots : slot[i].req.owner # t
       /\ \A i \in DOMAIN isr_queue : isr_queue[i] # t
       /\ \A i \in DOMAIN queue.msgs : queue.msgs[i].owner # t

\* Also with resets and averages between the two locked sections of an update:
\* outside a reset the counters never say more than NumSlots slots per
\* transmission, and neither does any average, the one after a reset included.
StatisticsBounded ==
    /\ pc[App] # "reset" => nr_used_slots <= NumSlots * nr_tx
    /\ pc[App] = "average" =>
          LET avg == Average(seen[App], nr_tx)
          IN  10 * avg.avg_nr_slots + avg.avg_nr_slots_tenths <= 10 * NumSlots

\* Every call returns, whatever the others keep calling, in the builds without
\* a mailbox thread, and from its message on in the other: no wake-up is lost
\* between looking for the flag and blocking, the lock is not held for ever,
\* and the mailbox thread gets to every message.
EveryCallReturns == \A t \in Clients : pc[t] \notin {"idle", "send"} ~> pc[t] = "idle"

\* Before its message is in the queue a client can be passed over for ever, as
\* it only looks for room from time to time, but by nothing else than another
\* client whose calls go on returning.
StarvedOnlyByOthers ==
    \A t \in Clients :
        <>[](pc[t] = "send") => \E u \in Clients : []<>(pc[u] = "idle") /\ []<>(pc[u] = "wait")
=============================================================================
