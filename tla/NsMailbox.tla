----------------------------- MODULE NsMailbox ------------------------------
(***************************************************************************)
(* The RTOS layer of the non-secure mailbox, tfm_ns_mailbox_rtos_api.c,    *)
(* and its statistics, tfm_ns_mailbox_test.c.                              *)
(*                                                                         *)
(* External: the mailbox queue of tfm_ns_mailbox.c, whose slots a request  *)
(* occupies from the claim to the reply, and the secure core.              *)
(***************************************************************************)
EXTENDS OsWrapper

CONSTANT NumSlots     \* NUM_MAILBOX_QUEUE_SLOT

VARIABLES slot,            \* the slots of the mailbox queue
          stats_queue_ptr, \* statistics are kept
          nr_tx, nr_used_slots

mailboxVars == <<slot, stats_queue_ptr, nr_tx, nr_used_slots>>

Slots == 1..NumSlots
NoRequest == [owner |-> Nobody, n |-> 0]
EmptySlot == [state |-> "empty", req |-> NoRequest]
EmptySlots == {i \in Slots : slot[i].state = "empty"}

-----------------------------------------------------------------------------
(* tfm_ns_mailbox_rtos_api.c                                               *)

\* Mutant: the spin lock leaves interrupts on.
IrqOffNever(t) == Nobody

\* Interrupts, and with them every thread switch, are off until the unlock.
IrqOff(t) == t

SpinLock(t) == irq_off' = IrqOff(t)
SpinUnlock  == irq_off' = Nobody

\* Mutant: one permit too many.
MAX_SEMAPHORE_COUNT_plus1 == NumSlots + 1

MAX_SEMAPHORE_COUNT == NumSlots

\* tfm_ns_mailbox_os_lock_init and tfm_ns_mailbox_os_mq_create, for pointers.
LockInit == os_wrapper_semaphore_create(MAX_SEMAPHORE_COUNT)
MqCreate == os_wrapper_msg_queue_create(NumSlots, 4)

\* tfm_ns_mailbox_os_lock_acquire and tfm_ns_mailbox_os_lock_release.
OsLockAcquire(t) == os_wrapper_semaphore_acquire(t)
OsLockRelease(t) == os_wrapper_semaphore_release(t)

\* tfm_ns_mailbox_os_wait_reply and tfm_ns_mailbox_os_wake_task_isr.
WaitReply(t)   == WaitFlag(t)
WakeTaskIsr(t) == SetFlagIsr(t)

\* tfm_ns_mailbox_os_mq_send tries until there is room, mq_receive waits.
MqSend(receiver, req) == HasRoom /\ QueueSend(receiver, req)
MqReceive(t) == QueueReceive(t)

-----------------------------------------------------------------------------
(* tfm_ns_mailbox_test.c                                                   *)

\* Only a build with TEST_NS_MULTI_CORE keeps statistics.
StatsInit == nr_tx' = 0 /\ nr_used_slots' = 0 /\ stats_queue_ptr' = TRUE
NoStats == UNCHANGED <<stats_queue_ptr, nr_tx, nr_used_slots>>

\* tfm_ns_mailbox_tx_stats_update: the first locked section counts the empty
\* slots, the second adds the others.
CountEmpty == Cardinality(EmptySlots)
StatsAdd(nr_empty) == /\ nr_used_slots' = nr_used_slots + (NumSlots - nr_empty)
                      /\ nr_tx' = nr_tx + 1

(* tfm_ns_mailbox_tx_stats_reinit: two stores, without the lock.           *)

\* Mutant: the stores in the other order.
ReinitSwapped(first) == IF first THEN nr_used_slots' = 0 /\ UNCHANGED nr_tx
                        ELSE nr_tx' = 0 /\ UNCHANGED nr_used_slots

Reinit(first) == IF first THEN nr_tx' = 0 /\ UNCHANGED nr_used_slots
                 ELSE nr_used_slots' = 0 /\ UNCHANGED nr_tx

\* Quotients of the processor: a division by zero gives 0.
Udiv(a, b) == IF b = 0 THEN 0 ELSE a \div b
Urem(a, b) == a - b * Udiv(a, b)

\* tfm_ns_mailbox_stats_avg_slot, from the two values it read.
Average(used, tx) == [avg_nr_slots |-> Udiv(used, tx),
                      avg_nr_slots_tenths |-> Udiv(Urem(used, tx) * 10, tx)]
=============================================================================
