---------------------------- MODULE MCThreadPool ----------------------------
(* A thread outside the pool; two tasks of one strand, the first of which    *)
(* may throw, and two tasks without a strand.                                *)
EXTENDS ThreadPool, TLC

CONSTANTS c1, a, b, p, q, s

MCCallers  == {c1}
MCTasks    == {a, b, p, q}
MCStrands  == {s}
MCStrandOf == (a :> s) @@ (b :> s) @@ (p :> Plain) @@ (q :> Plain)
MCMayThrow == {a}
=============================================================================
