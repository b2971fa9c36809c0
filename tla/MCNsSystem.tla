----------------------------- MODULE MCNsSystem -----------------------------
(* Three clients over two slots, in each build, with the shipped settings, *)
(* with the kernel's default amount of memory, and with pools for threads  *)
(* only, where no lock can be created.  Where statistics are kept there    *)
(* are two clients.                                                        *)
EXTENDS NsSystem

CONSTANTS app, c2, c3, mailbox

MCDefaultMemory == [Shipped EXCEPT !.kernel.dynamic_mem = 4096]

MCThreadPools ==
    [kernel |-> [ShippedKernel EXCEPT !.dynamic_mem = 0, !.user_stack = 4096, !.def_stack_num = 1],
     objects |-> [ShippedObjects EXCEPT !.obj_mem["thread"] = 1, !.num["thread"] = 3]]

MCSettings == [shipped |-> Shipped, default_memory |-> MCDefaultMemory, pools |-> MCThreadPools]

\* TLC splits strong fairness into cases, two for each formula.  The same is
\* required here with weak fairness: what is due counts as due also while the
\* core is busy, so it comes although busy times come again and again.  A busy
\* time ends by itself, whence Fairness implies MCFairness.  MCBusy is not a
\* step of Next and is never taken.
MCBusy == main' = "busy" /\ UNCHANGED <<osVars, mailboxVars, build, progVars>>
MCGoes(t) == \/ Goes(t)
             \/ thread[t] = "ready" /\ (isr_queue # <<>> \/ irq_off \notin {Nobody, t}) /\ MCBusy
MCReply(i) == \/ Reply(i)
              \/ slot[i].state = "pending" /\ irq_off # Nobody /\ MCBusy

MCFairness == /\ \A t \in Threads : WF_vars(MCGoes(t)) /\ WF_vars(Send(t))
              /\ WF_vars(Processing) /\ \A i \in Slots : WF_vars(MCReply(i))
              /\ WF_vars(ResetEnd) /\ WF_vars(AverageEnd)

MCNext == Next /\ (stats_queue_ptr => thread'[c3] = "absent")
MCSpec == Init /\ [][MCNext]_vars /\ MCFairness
=============================================================================
