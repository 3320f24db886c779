--------------------------- MODULE MCActiveWorker ---------------------------
(* The worker, the thread that destroys it, two threads that queue tasks,   *)
(* and three tasks, one of them without a function.                          *)
EXTENDS ActiveWorker

CONSTANTS c1, c2, a, b, h

MCThreads == {Worker, Owner, c1, c2}
MCTasks   == {a, b, h}
MCHollow  == {h}
=============================================================================
