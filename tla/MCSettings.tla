------------------------------ MODULE MCSettings ------------------------------
(* Settings with two threads, a setting that is one value and one that is a   *)
(* list, which is at its longest, shorter or empty.                           *)
EXTENDS Settings, TLC

CONSTANTS t1, t2, height, translations, e1, e2

MCValues == (height :> {<<e1>>, <<e2>>}) @@ (translations :> {<< >>, <<e2>>, <<e1, e2>>})
MCDefault == (height :> <<e1>>) @@ (translations :> <<e1, e2>>)
MCThreads == Permutations(Threads)
=============================================================================
