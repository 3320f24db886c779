---------------------------- MODULE ActiveWorker ----------------------------
(***************************************************************************)
(* bibstd::app_framework::active_worker (src/bibstd/app_framework/         *)
(* active_worker.{hpp,cpp}): a thread of its own that executes the tasks   *)
(* of one task_queue, and the shutdown its destructor runs.                *)
(*                                                                         *)
(* The queue's steps are those of TaskQueue.  The worker loop repeats      *)
(* "test the stop token; dereference worker_queue_; do_task_or_wait()".    *)
(* A task that throws ends like one that returns: the catch clauses log    *)
(* and the loop tests the token again.  Other threads call queue_task()    *)
(* while the object lives, which is C++'s rule for them, not a guard of    *)
(* the code; a task that runs on the worker may call it at any time.       *)
(* run_task() is queue_task() on another thread, and part of the running   *)
(* task's body on the worker's.                                            *)
(***************************************************************************)
EXTENDS TaskQueue

CONSTANTS
  Worker,   \* the thread worker_
  Owner     \* the thread that destroys the active_worker

Clients == Threads \ {Worker, Owner}

ASSUME ActiveWorkerAssumption ==
  Worker \in Threads /\ Owner \in Threads /\ Worker # Owner

VARIABLES
  stop,        \* the stop state of worker_
  loop,        \* the worker loop: "test" the token, "deref" the pointer, "exited"
  owner,       \* shutdown(): "idle", "stopped", "reset", "joined"
  null_deref   \* worker_queue_ was used after reset() had made it null

awVars == <<stop, loop, owner, null_deref>>
vars   == <<tqVars, awVars>>

AWTypeOK ==
  /\ TypeOK
  /\ stop \in BOOLEAN
  /\ loop \in {"test", "deref", "exited"}
  /\ owner \in {"idle", "stopped", "reset", "joined"}
  /\ null_deref \in BOOLEAN

AWInit ==
  /\ TQInit
  /\ stop = FALSE
  /\ loop = "test"
  /\ owner = "idle"
  /\ null_deref = FALSE

-----------------------------------------------------------------------------
\* unique_ptr::reset() makes the pointer null and then destroys the queue.
IsNull == life # "alive"

\* The program has run into undefined behaviour and nothing is known of it.
Undefined == fault \/ null_deref

\* Both while conditions, with nothing between them.
WorkerTest ==
  /\ ~Undefined
  /\ loop = "test" /\ at[Worker] = "out"
  /\ loop' = IF stop THEN "exited" ELSE "deref"
  /\ UNCHANGED <<tqVars, stop, owner, null_deref>>

WorkerDeref ==
  /\ ~Undefined
  /\ loop = "deref"
  /\ loop' = "test"
  /\ IF IsNull
     THEN null_deref' = TRUE /\ UNCHANGED tqVars
     ELSE CallTake(Worker, "d_lock") /\ UNCHANGED null_deref
  /\ UNCHANGED <<stop, owner>>

QueueTask(t, k) ==
  /\ ~Undefined
  /\ \/ t \in Clients /\ owner = "idle" /\ at[t] = "out"
     \/ t = Worker /\ at[t] = "run"
  /\ k \notin submitted
  /\ IF IsNull
     THEN null_deref' = TRUE /\ UNCHANGED tqVars
     ELSE CallQueue(t, k) /\ UNCHANGED null_deref
  /\ UNCHANGED <<stop, loop, owner>>

\* A step inside a member function of the queue, or a spurious wakeup.
QueueStep(t) ==
  /\ ~Undefined
  /\ Member(t)
  /\ UNCHANGED awVars

WorkerSpuriousWake ==
  /\ ~Undefined
  /\ SpuriousWake(Worker)
  /\ UNCHANGED awVars

(* shutdown(): request_stop, reset the queue, join.                          *)
ShutdownStop ==
  /\ ~Undefined
  /\ owner = "idle" /\ \A c \in Clients : at[c] = "out"
  /\ stop' = TRUE
  /\ owner' = "stopped"
  /\ UNCHANGED <<tqVars, loop, null_deref>>

ShutdownReset ==
  /\ ~Undefined
  /\ owner = "stopped"
  /\ CallDtor(Owner)
  /\ owner' = "reset"
  /\ UNCHANGED <<stop, loop, null_deref>>

\* ShutdownJoin without the join.
JoinAtOnce ==
  /\ ~Undefined
  /\ owner = "reset" /\ at[Owner] = "out"
  /\ owner' = "joined"
  /\ UNCHANGED <<tqVars, stop, loop, null_deref>>

ShutdownJoin ==
  /\ ~Undefined
  /\ owner = "reset" /\ at[Owner] = "out"
  /\ loop = "exited"
  /\ owner' = "joined"
  /\ UNCHANGED <<tqVars, stop, loop, null_deref>>

AWDone == (Undefined \/ owner = "joined") /\ UNCHANGED vars

AWNext ==
  \/ WorkerTest \/ WorkerDeref \/ WorkerSpuriousWake
  \/ \E t \in Threads : QueueStep(t) \/ \E k \in Tasks : QueueTask(t, k)
  \/ ShutdownStop \/ ShutdownReset \/ ShutdownJoin
  \/ AWDone

\* The worker thread and a shutdown that was begun go on; nobody is obliged to
\* queue a task or to begin the shutdown.
AWFairness ==
  /\ WF_vars(WorkerTest) /\ WF_vars(WorkerDeref)
  /\ WF_vars(ShutdownReset) /\ WF_vars(ShutdownJoin)
  /\ \A t \in Threads : SF_vars(QueueStep(t))

AWSpec == AWInit /\ [][AWNext]_vars /\ AWFairness

-----------------------------------------------------------------------------
\* The worker keeps its promise to the code that queues tasks: one task at a
\* time, each once, in the order of queueing, and after a shutdown at most the
\* task already taken from the queue, none once shutdown() has returned.
Taken == IF at[Worker] = "i_task" THEN <<hand[Worker]>> ELSE <<>>

Waiting == IF owner = "joined" THEN <<>> ELSE Taken \o task_queue
Current == IF Running(Worker) THEN hand[Worker] ELSE NoTask
Phase   == CASE owner = "joined" -> "closed"
             [] owner = "idle"   -> "open"
             [] OTHER            -> "closing"

Abstract == INSTANCE SerialExecutor WITH
  Idle <- NoTask, waiting <- Waiting, current <- Current, phase <- Phase

ImplementsSerialExecutor == Abstract!SESpec

\* A task in the queue is begun unless the worker shuts down first: no
\* notification is missed and an exception or an endless wait of the loop
\* strands no task.
EveryTaskServed ==
  \A k \in Tasks \ Hollow :
    (\E i \in DOMAIN task_queue : task_queue[i] = k)
      ~> (Running(Worker) /\ hand[Worker] = k) \/ owner # "idle" \/ Undefined

\* A shutdown gets to the end of its join: the worker sleeping on the condition
\* variable, about to sleep, or in a task is always got out of its loop (or the
\* race that DestructionWellDefined is about has struck).
ShutdownReturns == owner = "stopped" ~> owner = "joined" \/ Undefined

\* "wait until lock is freed" (task_queue.cpp:18) and "the destruction is well
\* defined" (thread_pool.cpp:111): when the owner destroys the worker, the
\* worker thread uses neither the null pointer nor the destroyed queue.
DestructionWellDefined == ~Undefined
=============================================================================
