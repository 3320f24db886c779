----------------------------- MODULE MCTaskQueue -----------------------------
(* Three threads, each of which may call every member function, and three   *)
(* tasks, one of them without a function.                                    *)
EXTENDS TaskQueue

CONSTANTS t1, t2, t3, a, b, h

MCThreads == {t1, t2, t3}
MCTasks   == {a, b, h}
MCHollow  == {h}
=============================================================================
