--------------------------- MODULE SerialExecutor ---------------------------
(***************************************************************************)
(* What an active_worker promises to the code that queues tasks in it      *)
(* (src/bibstd/app_framework/active_worker.hpp): the tasks run one at a    *)
(* time, each at most once, in the order in which they were queued, until  *)
(* the worker shuts down.  A shutdown drops the tasks that wait, waits for *)
(* the running one, and runs nothing once it has returned.                 *)
(***************************************************************************)
EXTENDS Sequences

CONSTANTS Tasks, Idle

VARIABLES
  waiting,   \* the tasks queued and not begun, oldest first
  current,   \* the task that runs, or Idle
  phase      \* "open", "closing" (shutdown called), "closed" (it returned)

seVars == <<waiting, current, phase>>

SEInit == waiting = <<>> /\ current = Idle /\ phase = "open"

Submit ==
  /\ \E k \in Tasks : waiting' = Append(waiting, k)
  /\ phase # "closed"
  /\ UNCHANGED <<current, phase>>

Begin ==
  /\ current = Idle /\ waiting # <<>> /\ phase # "closed"
  /\ current' = Head(waiting)
  /\ waiting' = Tail(waiting)
  /\ UNCHANGED phase

\* A task that holds no function is passed over.
Skip ==
  /\ current = Idle /\ waiting # <<>> /\ phase # "closed"
  /\ waiting' = Tail(waiting)
  /\ UNCHANGED <<current, phase>>

End ==
  /\ current # Idle
  /\ current' = Idle
  /\ UNCHANGED <<waiting, phase>>

Shutdown ==
  /\ phase = "open"
  /\ phase' = "closing"
  /\ UNCHANGED <<waiting, current>>

\* The one task the worker has already taken from the queue may survive.
Drop ==
  /\ phase = "closing"
  /\ waiting' \in {<<>>, IF waiting = <<>> THEN <<>> ELSE <<Head(waiting)>>}
  /\ UNCHANGED <<current, phase>>

Closed ==
  /\ phase = "closing" /\ current = Idle
  /\ phase' = "closed"
  /\ waiting' = <<>>
  /\ UNCHANGED current

SENext == Submit \/ Begin \/ Skip \/ End \/ Shutdown \/ Drop \/ Closed

SESpec == SEInit /\ [][SENext]_seVars
=============================================================================
