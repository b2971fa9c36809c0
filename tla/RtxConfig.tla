----------------------------- MODULE RtxConfig ------------------------------
(***************************************************************************)
(* The kernel configuration: the settings of RTX_Config.h, the conditions  *)
(* under which rtx_lib.c compiles, and the osRtxConfig it builds from them *)
(* with the sizes of the control blocks in rtx_os.h.  Everything here is   *)
(* fixed when the firmware is built.  Addresses are left out: an array is  *)
(* its size, 0 when it is not declared.                                    *)
(***************************************************************************)
EXTENDS Integers, FiniteSets

Kinds == {"thread", "timer", "evflags", "mutex", "semaphore", "mempool", "msgqueue"}

\* The options are numbers, OS_<kind>_OBJ_MEM and OS_<kind>_NUM one for each kind.
KernelOptions ==
    [dynamic_mem : Nat, tick_freq : Nat, robin_enable : Nat, robin_timeout : Nat,
     isr_fifo_queue : Nat, stack_check : Nat, stack_watermark : Nat, privilege_mode : Nat,
     stack : Nat, idle_stack : Nat, def_stack_num : Nat, user_stack : Nat,
     timer_stack : Nat, timer_prio : Nat, timer_cb_queue : Nat]
ObjectOptions == [obj_mem : [Kinds -> Nat], num : [Kinds -> Nat],
                  mempool_data : Nat, msgqueue_data : Nat]
Options == [kernel : KernelOptions, objects : ObjectOptions]

\* Shipped, no kind has memory of its own.
ShippedObjects ==
    [obj_mem |-> [k \in Kinds |-> 0], num |-> [k \in Kinds |-> 1],
     mempool_data |-> 0, msgqueue_data |-> 0]

ShippedKernel ==
    [dynamic_mem |-> 8192, tick_freq |-> 1000, robin_enable |-> 1, robin_timeout |-> 5,
     isr_fifo_queue |-> 16, stack_check |-> 1, stack_watermark |-> 0, privilege_mode |-> 1,
     stack |-> 256, idle_stack |-> 256, def_stack_num |-> 0, user_stack |-> 0,
     timer_stack |-> 256, timer_prio |-> 40, timer_cb_queue |-> 4]

\* Mutant: the default size the comment in the file names.
ShippedDefaultMemory == [kernel |-> [ShippedKernel EXCEPT !.dynamic_mem = 4096],
                         objects |-> ShippedObjects]

Shipped == [kernel |-> ShippedKernel, objects |-> ShippedObjects]

-----------------------------------------------------------------------------
(* The #error conditions.                                                  *)

ValidStack(size, least) == size % 8 = 0 /\ size >= least

SystemValid(k) == k.dynamic_mem % 8 = 0 /\ k.tick_freq >= 1 /\ k.isr_fifo_queue >= 4

ThreadsValid(k, o) ==
    /\ ValidStack(k.stack, 72) /\ ValidStack(k.idle_stack, 72)
    /\ o.obj_mem["thread"] # 0 => o.num["thread"] # 0 /\ k.user_stack % 8 = 0

\* The timer thread exists when it has a stack and a queue.
HasTimerThread(k) == k.timer_stack # 0 /\ k.timer_cb_queue # 0
TimersValid(k, o) == /\ o.obj_mem["timer"] # 0 => o.num["timer"] # 0
                     /\ HasTimerThread(k) => ValidStack(k.timer_stack, 96)

ObjectsValid(o) ==
    /\ \A k \in Kinds \ {"thread", "timer"} : o.obj_mem[k] # 0 => o.num[k] # 0
    /\ o.obj_mem["mempool"] # 0 => o.mempool_data % 8 = 0
    /\ o.obj_mem["msgqueue"] # 0 => o.msgqueue_data % 8 = 0

Compiles(c) == /\ SystemValid(c.kernel) /\ ThreadsValid(c.kernel, c.objects)
               /\ TimersValid(c.kernel, c.objects) /\ ObjectsValid(c.objects)

-----------------------------------------------------------------------------
\* Words of each control block; osRtxMpInfo_t has 6 and osRtxMessage_t 3.
CbWords == [thread |-> 18, timer |-> 8, evflags |-> 4, mutex |-> 7, semaphore |-> 4,
            mempool |-> 9, msgqueue |-> 13]
CbSize(kind) == 4 * CbWords[kind]

osRtxMessageQueueMemSize(msg_count, msg_size) == 4 * msg_count * (3 + ((msg_size + 3) \div 4))

\* Bytes of a data array for blocks of different sizes, with its bookkeeping.
DataArea(enabled, num, size) == IF enabled # 0 /\ size # 0 THEN 8 * (2 + num + (size \div 8)) ELSE 0

\* os_idle_thread_attr and os_timer_thread_attr with their queue: memory of
\* their own, not taken from the pools, and no TrustZone module.
IdleThreadAttr(k) == [cb_size |-> CbSize("thread"), stack_size |-> k.idle_stack,
                      priority |-> 1, tz_module |-> 0]
TimerThreadAttr(k) == [cb_size |-> CbSize("thread"), stack_size |-> k.timer_stack,
                       priority |-> k.timer_prio, tz_module |-> 0]
TimerMqAttr(k) == [cb_size |-> CbSize("msgqueue"),
                   mq_size |-> osRtxMessageQueueMemSize(k.timer_cb_queue, 8)]

\* osRtxConfig.mem: bytes of the variable size pools.
PoolBytes(k, o) ==
    [stack   |-> DataArea(o.obj_mem["thread"], o.num["thread"], k.user_stack),
     mp_data |-> DataArea(o.obj_mem["mempool"], o.num["mempool"], o.mempool_data),
     mq_data |-> DataArea(o.obj_mem["msgqueue"], o.num["msgqueue"], o.msgqueue_data),
     common  |-> k.dynamic_mem]

\* osRtxConfig.mpi: blocks of the pools for control blocks and default stacks.
PoolBlocks(k, o) ==
    [kind \in Kinds \cup {"def_stack"} |->
        IF kind = "def_stack" THEN IF o.obj_mem["thread"] # 0 THEN k.def_stack_num ELSE 0
        ELSE IF o.obj_mem[kind] # 0 THEN o.num[kind] ELSE 0]

Flags(k) == {f \in {"privileged", "stack_check", "stack_watermark"} :
               CASE f = "privileged" -> k.privilege_mode # 0
                 [] f = "stack_check" -> k.stack_check # 0
                 [] OTHER -> k.stack_watermark # 0}

osRtxConfig(c) ==
    [flags |-> Flags(c.kernel),
     tick_freq |-> c.kernel.tick_freq,
     robin_timeout |-> IF c.kernel.robin_enable # 0 THEN c.kernel.robin_timeout ELSE 0,
     isr_queue_max |-> c.kernel.isr_fifo_queue,
     mem |-> PoolBytes(c.kernel, c.objects),
     mpi |-> PoolBlocks(c.kernel, c.objects),
     thread_stack_size |-> c.kernel.stack,
     idle |-> IdleThreadAttr(c.kernel),
     timer |-> IF HasTimerThread(c.kernel)
               THEN {<<TimerThreadAttr(c.kernel), TimerMqAttr(c.kernel), c.kernel.timer_cb_queue>>}
               ELSE {}]
=============================================================================
