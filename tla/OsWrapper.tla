----------------------------- MODULE OsWrapper ------------------------------
(***************************************************************************)
(* app_broker/os_wrapper_cmsis_rtos_v2.c over the RTX kernel: the          *)
(* operations the firmware uses, all called with OS_WRAPPER_WAIT_FOREVER   *)
(* where they take a timeout.                                              *)
(*                                                                         *)
(* External: the kernel.  An object is created when its control block,     *)
(* stack and data fit the memory osRtxConfig gives; a thread blocks on an  *)
(* object and is woken in the order of waiting; what an interrupt handler  *)
(* signals is queued and processed before a thread runs again.  Threads    *)
(* have the same priority, so a ready thread may run at any time.          *)
(***************************************************************************)
EXTENDS RtxConfig, Sequences

CONSTANTS Threads,    \* thread control blocks the application may ask for
          Nobody,     \* no thread
          Settings    \* Settings[c]: the settings of a build named c

VARIABLES conf,       \* the name of the settings of this firmware
          memory,     \* what is left of the kernel's memory
          thread,     \* "absent", "ready", or what the thread waits on
          flags,      \* flags[t]: MAILBOX_THREAD_FLAG is set
          isr_queue,  \* threads signalled by an interrupt, to be processed
          irq_off,    \* the thread that disabled interrupts, if any
          lock,       \* the mutex or semaphore of the non-secure interface
          queue       \* the message queue of the mailbox thread

osVars == <<conf, memory, thread, flags, isr_queue, irq_off, lock, queue>>

OsRtxConfigs == [c \in DOMAIN Settings |-> osRtxConfig(Settings[c])]
cfg == OsRtxConfigs[conf]

NoLock  == [kind |-> "none", tokens |-> 0, holders |-> {}, waiting |-> <<>>]
NoQueue == [size |-> 0, msgs |-> <<>>, given |-> <<>>]

-----------------------------------------------------------------------------
(* Kernel memory.  A block of a variable size pool has 8 bytes of its own  *)
(* and a pool 16, without which it holds nothing; a pool that is not       *)
(* configured falls back on the common one, and memory below 0 stands for  *)
(* an allocation that fails.                                               *)

KernelMemory == [bytes |-> [a \in DOMAIN cfg.mem |-> IF cfg.mem[a] < 16 THEN 0 ELSE cfg.mem[a] - 16],
                 blocks |-> cfg.mpi]

TakeBytes(m, area, n) ==
    LET a == IF cfg.mem[area] = 0 THEN "common" ELSE area
    IN  [m EXCEPT !.bytes[a] = @ - 8 * ((n + 15) \div 8)]

TakeControlBlock(m, kind) ==
    IF cfg.mpi[kind] # 0 THEN [m EXCEPT !.blocks[kind] = @ - 1]
    ELSE TakeBytes(m, "common", CbSize(kind))

TakeStack(m, size) ==
    IF size # 0 THEN TakeBytes(m, "stack", size)
    ELSE IF cfg.mpi["def_stack"] # 0 THEN [m EXCEPT !.blocks["def_stack"] = @ - 1]
    ELSE TakeBytes(m, "stack", cfg.thread_stack_size)

\* Mutant: an exhausted pool is not noticed.
FitsAlways(m) == TRUE

Fits(m) == /\ \A a \in DOMAIN m.bytes : m.bytes[a] >= 0
           /\ \A k \in DOMAIN m.blocks : m.blocks[k] >= 0

ThreadMemory(size) == TakeStack(TakeControlBlock(memory, "thread"), size)
QueueMemory(count, size) ==
    TakeBytes(TakeControlBlock(memory, "msgqueue"), "mq_data", osRtxMessageQueueMemSize(count, size))

-----------------------------------------------------------------------------
(* Creation.  Each returns NULL, and changes nothing, without memory.      *)

\* osThreadNew; os_wrapper_thread_new passes 0 for the default stack size.
ThreadNew(t, size) ==
    LET ok == Fits(ThreadMemory(size))
    IN  /\ memory' = IF ok THEN ThreadMemory(size) ELSE memory
        /\ thread' = [thread EXCEPT ![t] = IF ok THEN "ready" ELSE @]

os_wrapper_thread_new(t, default, size) == ThreadNew(t, IF default THEN 0 ELSE size)

LockCreate(kind, tokens) ==
    LET after == TakeControlBlock(memory, kind)
    IN  /\ memory' = IF Fits(after) THEN after ELSE memory
        /\ lock' = IF Fits(after) THEN [NoLock EXCEPT !.kind = kind, !.tokens = tokens] ELSE lock

os_wrapper_mutex_create == LockCreate("mutex", 1)
os_wrapper_semaphore_create(tokens) == LockCreate("semaphore", tokens)

os_wrapper_msg_queue_create(count, size) ==
    LET after == QueueMemory(count, size)
    IN  /\ memory' = IF Fits(after) THEN after ELSE memory
        /\ queue' = IF Fits(after) THEN [NoQueue EXCEPT !.size = count] ELSE queue

-----------------------------------------------------------------------------
(* Blocking operations of a running thread t.                              *)

\* A handle that is not NULL.
Exists(l) == l.kind # "none"

\* Mutant: a thread that finds no token goes on.
AcquireBlocksNever(t) == FALSE

AcquireBlocks(t) == lock.tokens = 0

LockAcquire(t) ==
    IF AcquireBlocks(t)
    THEN /\ thread' = [thread EXCEPT ![t] = "lock"]
         /\ lock' = [lock EXCEPT !.waiting = Append(@, t)]
    ELSE /\ lock' = [lock EXCEPT !.tokens = IF @ = 0 THEN 0 ELSE @ - 1, !.holders = @ \cup {t}]
         /\ UNCHANGED thread

\* The token goes to the thread that has waited longest.
LockRelease(t) ==
    IF lock.waiting = <<>>
    THEN /\ lock' = [lock EXCEPT !.tokens = @ + 1, !.holders = @ \ {t}]
         /\ UNCHANGED thread
    ELSE LET next == Head(lock.waiting)
         IN  /\ lock' = [lock EXCEPT !.holders = (@ \ {t}) \cup {next}, !.waiting = Tail(@)]
             /\ thread' = [thread EXCEPT ![next] = "ready"]

\* With a handle that is NULL these return an error and do nothing.
os_wrapper_mutex_acquire(t)     == Exists(lock) /\ LockAcquire(t)
os_wrapper_mutex_release(t)     == Exists(lock) /\ LockRelease(t)
os_wrapper_semaphore_acquire(t) == Exists(lock) /\ LockAcquire(t)
os_wrapper_semaphore_release(t) == Exists(lock) /\ LockRelease(t)

\* Mutant: the options of the wait keep the flag set.
FlagAfterWaitKept == TRUE

FlagAfterWait == FALSE

\* os_wrapper_thread_wait_flag: the flag is cleared when the wait ends.
WaitFlag(t) == IF flags[t]
               THEN flags' = [flags EXCEPT ![t] = FlagAfterWait] /\ UNCHANGED thread
               ELSE thread' = [thread EXCEPT ![t] = "flags"] /\ UNCHANGED flags

\* Mutant: the flag of a thread that does not wait yet is lost.
FlagAfterSetLossy(t) == thread[t] = "flags"

FlagAfterSet(t) == TRUE

\* os_wrapper_thread_set_flag_isr
SetFlagIsr(t) == /\ flags' = [flags EXCEPT ![t] = FlagAfterSet(t)]
                 /\ isr_queue' = Append(isr_queue, t)

\* What the kernel does for the interrupt before threads run again.
PostProcess ==
    /\ isr_queue # <<>>
    /\ isr_queue' = Tail(isr_queue)
    /\ LET t == Head(isr_queue)
           wakes == thread[t] = "flags" /\ flags[t]
       IN  /\ thread' = [thread EXCEPT ![t] = IF wakes THEN "ready" ELSE @]
           /\ flags' = [flags EXCEPT ![t] = IF wakes THEN FlagAfterWait ELSE @]
    /\ UNCHANGED <<conf, memory, irq_off, lock, queue>>

\* os_wrapper_msg_queue_send does not wait for room; a message goes straight
\* to a receiver that waits.
HasRoom == Len(queue.msgs) < queue.size

\* Mutant: the receiver that waits is not woken.
QueueSendUnseen(receiver, msg) == queue' = [queue EXCEPT !.msgs = Append(@, msg)] /\ UNCHANGED thread

QueueSend(receiver, msg) ==
    IF thread[receiver] = "message"
    THEN /\ queue' = [queue EXCEPT !.given = <<msg>>]
         /\ thread' = [thread EXCEPT ![receiver] = "ready"]
    ELSE /\ queue' = [queue EXCEPT !.msgs = Append(@, msg)]
         /\ UNCHANGED thread

\* os_wrapper_msg_queue_receive: t has the message in queue.given.
QueueReceive(t) ==
    IF queue.msgs = <<>>
    THEN thread' = [thread EXCEPT ![t] = "message"] /\ UNCHANGED queue
    ELSE queue' = [queue EXCEPT !.msgs = Tail(@), !.given = <<Head(queue.msgs)>>] /\ UNCHANGED thread
=============================================================================
