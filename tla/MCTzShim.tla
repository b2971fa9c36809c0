------------------------------ MODULE MCTzShim ------------------------------
(* Three threads over two table slots: two with a name of the map table,   *)
(* one without.  Thread ids run out after a few creations.                 *)
EXTENDS TzShim

CONSTANTS t1, t2, t3

MCNames == {"Thread_A", "Thread_B", "other"}
MCNsidTable == [n \in {"Thread_A", "Thread_B"} |-> IF n = "Thread_A" THEN -2 ELSE -3]
MCName == [t \in Threads |-> IF t = t1 THEN "Thread_A" ELSE IF t = t2 THEN "Thread_B" ELSE "other"]
=============================================================================
