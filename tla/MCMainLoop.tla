----------------------------- MODULE MCMainLoop -----------------------------
(* The main thread, two other threads, two tasks and two calls of exit().    *)
EXTENDS MainLoop

CONSTANTS c1, c2, a, b, x, y

MCThreads == {Main, c1, c2}
MCTasks   == {a, b, x, y}
MCDummies == {x, y}
=============================================================================
