------------------------------ MODULE MainLoop ------------------------------
(***************************************************************************)
(* bibstd::app_framework::main_loop (src/bibstd/app_framework/             *)
(* main_loop.{hpp,cpp}): the loop of the main thread over main_queue_,     *)
(* with the atomic flag running_ that exit() clears.                       *)
(*                                                                         *)
(* The steps on the queue are those of TaskQueue.  exit() and queue_task() *)
(* read or write running_ first and call queue() in a second step; any     *)
(* thread may call them, a task on the main thread included.  The queue is *)
(* static and lives as long as the program.                                *)
(***************************************************************************)
EXTENDS TaskQueue

CONSTANTS
  Main,      \* the main thread
  Dummies    \* the empty lambdas exit() queues, one value per call

ASSUME MainLoopAssumption ==
  Main \in Threads /\ Dummies \subseteq Tasks \ Hollow

VARIABLES
  running,   \* running_
  place,     \* the main thread: "before" run(), in its "loop", "returned"
  todo,      \* per thread: the task of the queue() call it has still to make
  exits,     \* history: exit() was called: "no", "early" (before run()), "yes"
  late       \* history: the tasks begun since exits is "yes"

loopVars == <<running, place, todo, exits, late>>
mlVars   == <<tqVars, loopVars>>

MLTypeOK ==
  /\ TypeOK
  /\ running \in BOOLEAN
  /\ place \in {"before", "loop", "returned"}
  /\ todo \in [Threads -> Tasks \cup {NoTask}]
  /\ exits \in {"no", "early", "yes"}
  /\ late \subseteq Tasks

MLInit ==
  /\ TQInit
  /\ running = FALSE
  /\ place = "before"
  /\ todo = [t \in Threads |-> NoTask]
  /\ exits = "no"
  /\ late = {}

-----------------------------------------------------------------------------
(* A definition whose comment begins with "Variant of" is a faulty form of   *)
(* the one it names, which no behaviour uses.                                *)

(* run(): set the flag, and execute tasks while it is set.                   *)
Run ==
  /\ place = "before" /\ at[Main] = "out" /\ todo[Main] = NoTask
  /\ place' = "loop"
  /\ running' = TRUE
  /\ UNCHANGED <<tqVars, todo, exits, late>>

\* Variant of Test: the flag is tested when the queue is empty.
TestWhenEmpty ==
  /\ place = "loop" /\ at[Main] = "out"
  /\ IF running \/ task_queue # <<>>
     THEN CallTake(Main, "d_lock") /\ UNCHANGED place
     ELSE place' = "returned" /\ UNCHANGED tqVars
  /\ UNCHANGED <<running, todo, exits, late>>

\* A task that throws is logged, and the flag is tested again.
Test ==
  /\ place = "loop" /\ at[Main] = "out"
  /\ IF running
     THEN CallTake(Main, "d_lock") /\ UNCHANGED place
     ELSE place' = "returned" /\ UNCHANGED tqVars
  /\ UNCHANGED <<running, todo, exits, late>>

\* A thread that may call exit() or queue_task(): in a task, or, the main
\* thread, before its loop.
MayCall(t) ==
  /\ todo[t] = NoTask
  /\ at[t] = "run" \/ (at[t] = "out" /\ (t = Main => place = "before"))

\* A task that no call was given yet.
New(k) == k \notin submitted /\ \A t \in Threads : todo[t] # k

(* exit(): clear the flag, then queue a dummy task to wake the loop.         *)
Exit(t) ==
  /\ MayCall(t)
  /\ \E k \in Dummies : New(k) /\ todo' = [todo EXCEPT ![t] = k]
  /\ running' = FALSE
  /\ exits' = IF place = "before" THEN "early" ELSE "yes"
  /\ UNCHANGED <<tqVars, place, late>>

(* queue_task(): nothing happens while the flag is not set.                  *)
MLQueueTask(t) ==
  /\ MayCall(t)
  /\ running
  /\ \E k \in Tasks \ Dummies : New(k) /\ todo' = [todo EXCEPT ![t] = k]
  /\ UNCHANGED <<tqVars, running, place, exits, late>>

\* Variant of TodoQueue: exit() only clears the flag.
NoDummy(t) ==
  /\ todo[t] # NoTask
  /\ IF todo[t] \in Dummies THEN UNCHANGED tqVars ELSE CallQueue(t, todo[t])
  /\ todo' = [todo EXCEPT ![t] = NoTask]
  /\ UNCHANGED <<running, place, exits, late>>

\* The second step of exit() and queue_task(): main_queue_->queue().
TodoQueue(t) ==
  /\ todo[t] # NoTask
  /\ CallQueue(t, todo[t])
  /\ todo' = [todo EXCEPT ![t] = NoTask]
  /\ UNCHANGED <<running, place, exits, late>>

\* A step inside a member function of the queue.  A body ends when the calls
\* it made have returned.
MLQueueStep(t) ==
  /\ todo[t] = NoTask
  /\ Member(t)
  /\ late' = IF exits = "yes" /\ at[t] = "i_task" /\ at'[t] = "run"
             THEN late \cup {hand[t]} ELSE late
  /\ UNCHANGED <<running, place, todo, exits>>

MainSpuriousWake == SpuriousWake(Main) /\ UNCHANGED loopVars

MLDone ==
  /\ place = "returned"
  /\ UNCHANGED mlVars

MLNext ==
  \/ Run \/ Test \/ MainSpuriousWake
  \/ \E t \in Threads : MLQueueStep(t) \/ Exit(t) \/ MLQueueTask(t) \/ TodoQueue(t)
  \/ MLDone

\* The main thread and calls that were begun go on; nobody has to call.
MLFairness ==
  /\ WF_mlVars(Run) /\ WF_mlVars(Test)
  /\ \A t \in Threads : SF_mlVars(MLQueueStep(t)) /\ WF_mlVars(TodoQueue(t))

MLSpec == MLInit /\ [][MLNext]_mlVars /\ MLFairness

-----------------------------------------------------------------------------
\* The main loop runs no task while it is given up: from the moment exit()
\* clears the flag it begins one more task at most, the one it was about to
\* take, however many are queued.
OneTaskAfterExit == Cardinality(late) <= 1

\* A call of exit() during run() ends it, whether the loop sleeps, is about to
\* sleep, or executes the task that makes the call.
ExitEndsLoop == exits = "yes" ~> place = "returned"

\* "Exit main loop." (main_loop.hpp:23): a call of exit() ends the main loop,
\* also one that an already running thread makes before run() is entered.
EveryExitEndsLoop == exits # "no" ~> place = "returned"
=============================================================================
