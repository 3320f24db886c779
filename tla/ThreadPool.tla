----------------------------- MODULE ThreadPool -----------------------------
(***************************************************************************)
(* bibstd::app_framework::thread_pool (src/bibstd/app_framework/           *)
(* thread_pool.{hpp,cpp}): a static pool of active_workers that grows on   *)
(* demand, keeps the tasks of a strand in order on one worker, reaps       *)
(* workers that were idle for a minute, and is cleared by the guard that   *)
(* init() returns.                                                         *)
(*                                                                         *)
(* A pool element is its number in the order of creation, which is also    *)
(* its order in the vector pool_.  Its active_worker is a SerialExecutor:  *)
(* queue[e] holds the tasks not begun; run[e] is where the worker stands   *)
(* in the wrapper of task cur[e]: "pre" (before pre_lock), "body", "post"  *)
(* (before post_lock).  A call of queue_task by thread t stands at         *)
(* at[t]: "lock" (initialized_ was read, mtx_ is not yet held), "reap" and *)
(* "join" (in remove_abandoned_workers, holding mtx_), else "out".         *)
(*                                                                         *)
(* The clock is not modelled: any element without ids may have been idle   *)
(* for a minute.  Only the tasks are bounded; Elems has room for all the   *)
(* elements they can cause.                                                *)
(***************************************************************************)
EXTENDS Naturals, Sequences, FiniteSets, FiniteSetsExt, Functions

CONSTANTS
  Callers,   \* threads outside the pool that call queue_task
  Tasks,     \* the callables queued, one value (task_id) per call
  Strands,   \* the strand ids handed out by strand_id()
  Plain,     \* internal_strand_id, of the tasks queued without a strand
  StrandOf,  \* the strand of each task
  MayThrow,  \* the tasks that may throw
  NoTask, NoThread

Elems   == 1 .. Cardinality(Tasks) + 1
Threads == Callers \cup Elems

ASSUME ThreadPoolAssumption ==
  /\ IsFiniteSet(Tasks) /\ NoTask \notin Tasks
  /\ Plain \notin Strands
  /\ StrandOf \in [Tasks -> Strands \cup {Plain}]
  /\ MayThrow \subseteq Tasks
  /\ Callers \cap Elems = {} /\ NoThread \notin Threads

VARIABLES
  initialized,  \* initialized_
  mtx,          \* the thread that holds mtx_
  pool,         \* the elements in pool_
  created,      \* the number of elements created so far
  ids,          \* per element: the tasks whose ids it holds
  queue,        \* per element: the tasks its worker has not begun
  run, cur,     \* per element: the place of the worker, and its task
  at, call,     \* per thread: the place in queue_task, and the task queued
  joining,      \* the elements remove_abandoned_workers is destroying
  guard,        \* init() and its guard: see InitPool to GuardDone
  accepted,     \* history: the tasks in the order they got into the pool
  ended,        \* history: the tasks whose body has returned
  thrown,       \* history: the tasks whose body has thrown
  race          \* queue_task has used pool_ while or after it was cleared

vars == <<initialized, mtx, pool, created, ids, queue, run, cur, at, call,
          joining, guard, accepted, ended, thrown, race>>

TPTypeOK ==
  /\ initialized \in BOOLEAN
  /\ mtx \in Threads \cup {NoThread}
  /\ pool \subseteq 1 .. created
  /\ created \in 0 .. Cardinality(Tasks) + 1
  /\ ids \in [Elems -> SUBSET Tasks]
  /\ queue \in [Elems -> Seq(Tasks)]
  /\ run \in [Elems -> {"idle", "pre", "body", "post"}]
  /\ cur \in [Elems -> Tasks \cup {NoTask}]
  /\ at \in [Threads -> {"out", "lock", "reap", "join"}]
  /\ call \in [Threads -> Tasks \cup {NoTask}]
  /\ joining \subseteq pool
  /\ guard \in {"none", "up", "flag", "clear", "join", "cleared"}
  /\ accepted \in Seq(Tasks)
  /\ ended \subseteq Tasks /\ thrown \subseteq Tasks
  /\ race \in BOOLEAN

Init ==
  /\ initialized = FALSE /\ mtx = NoThread
  /\ pool = {} /\ created = 0
  /\ ids = [e \in Elems |-> {}]
  /\ queue = [e \in Elems |-> <<>>]
  /\ run = [e \in Elems |-> "idle"]
  /\ cur = [e \in Elems |-> NoTask]
  /\ at = [t \in Threads |-> "out"]
  /\ call = [t \in Threads |-> NoTask]
  /\ joining = {}
  /\ guard = "none"
  /\ accepted = <<>> /\ ended = {} /\ thrown = {}
  /\ race = FALSE

-----------------------------------------------------------------------------
(* A definition whose comment begins with "Variant of" is a faulty form of   *)
(* the one it names.  No behaviour uses it: put in the place of the real one *)
(* it shows that a property can fail.                                        *)
\* A task that was handed to queue_task already.
Used(k) == k \in Range(accepted) \/ \E t \in Threads : call[t] = k

\* Where a thread may call queue_task: outside the pool, or in a task's body.
Active(t) == t \in Elems => run[t] = "body"

(* queue_task: when initialized_ is false the call returns and changes       *)
(* nothing.  The test is made before mtx_ is taken.                          *)
CallQueueTask(t, k) ==
  /\ ~race
  /\ initialized
  /\ Active(t) /\ at[t] = "out" /\ ~Used(k)
  /\ at' = [at EXCEPT ![t] = "lock"]
  /\ call' = [call EXCEPT ![t] = k]
  /\ UNCHANGED <<initialized, mtx, pool, created, ids, queue, run, cur, joining,
                 guard, accepted, ended, thrown, race>>

\* The elements whose ids hold the strand of task k.
OfStrand(k) ==
  {e \in pool : StrandOf[k] # Plain /\ \E j \in ids[e] : StrandOf[j] = StrandOf[k]}

\* Variant of FreeElems: elements whose worker has nothing left to begin.
QuietElems == {e \in pool : queue[e] = <<>>}

FreeElems == {e \in pool : ids[e] = {}}

\* queue_task(task, id): the first element that holds the strand; otherwise,
\* and for a plain task, queue_task_auto: the first element without ids, or a
\* new one.
Destination(k) ==
  IF OfStrand(k) # {} THEN Min(OfStrand(k))
  ELSE IF FreeElems # {} THEN Min(FreeElems)
  ELSE created + 1

\* Variant of Enqueue: the wrapper is made of a task that was moved from.
EnqueueMovedFrom(t) ==
  /\ at[t] = "lock" /\ mtx = NoThread
  /\ mtx' = t
  /\ at' = [at EXCEPT ![t] = "reap"]
  /\ LET e == Destination(call[t])
     IN  /\ pool' = pool \cup {e}
         /\ created' = IF e \in pool THEN created ELSE e
         /\ queue' = [queue EXCEPT ![e] = Append(@, NoTask)]
  /\ UNCHANGED <<initialized, ids, call, run, cur, joining, guard, accepted,
                 ended, thrown, race>>

\* Under mtx_: choose the element, note the ids, queue the wrapper.
Enqueue(t) ==
  /\ ~race
  /\ at[t] = "lock" /\ mtx = NoThread
  /\ mtx' = t
  /\ at' = [at EXCEPT ![t] = "reap"]
  /\ call' = [call EXCEPT ![t] = NoTask]
  /\ LET k == call[t]
         e == Destination(k)
     IN  /\ pool' = pool \cup {e}
         /\ created' = IF e \in pool THEN created ELSE e
         /\ ids' = [ids EXCEPT ![e] = @ \cup {k}]
         /\ queue' = [queue EXCEPT ![e] = Append(@, k)]
         /\ accepted' = Append(accepted, k)
  /\ race' = (guard \in {"clear", "join", "cleared"})
  /\ UNCHANGED <<initialized, run, cur, joining, guard, ended, thrown>>

\* Variant of Reap: the time of the last use decides alone.
ReapByTime(t) ==
  /\ at[t] = "reap"
  /\ \E R \in SUBSET pool :
       /\ joining' = R
       /\ queue' = [e \in Elems |-> IF e \in R THEN <<>> ELSE queue[e]]
  /\ at' = [at EXCEPT ![t] = "join"]
  /\ UNCHANGED <<initialized, mtx, pool, created, ids, run, cur, call, guard,
                 accepted, ended, thrown, race>>

(* remove_abandoned_workers: destroy the elements without ids that were last *)
(* used more than a minute ago, which joins their workers.                   *)
Reap(t) ==
  /\ ~race
  /\ at[t] = "reap"
  /\ \E R \in SUBSET FreeElems :
       /\ joining' = R
       /\ queue' = [e \in Elems |-> IF e \in R THEN <<>> ELSE queue[e]]
       /\ at' = [at EXCEPT ![t] = IF R = {} THEN "out" ELSE "join"]
       /\ mtx' = IF R = {} THEN NoThread ELSE t
  /\ UNCHANGED <<initialized, pool, created, ids, run, cur, call, guard,
                 accepted, ended, thrown, race>>

JoinReaped(t) ==
  /\ ~race
  /\ at[t] = "join"
  /\ \A e \in joining : run[e] = "idle"
  /\ pool' = pool \ joining
  /\ joining' = {}
  /\ mtx' = NoThread
  /\ at' = [at EXCEPT ![t] = "out"]
  /\ UNCHANGED <<initialized, created, ids, queue, run, cur, call, guard,
                 accepted, ended, thrown, race>>

-----------------------------------------------------------------------------
(* The worker of element e takes the next wrapper and executes it.           *)
Take(e) ==
  /\ ~race
  /\ e \in pool /\ run[e] = "idle" /\ queue[e] # <<>>
  /\ cur' = [cur EXCEPT ![e] = Head(queue[e])]
  /\ queue' = [queue EXCEPT ![e] = Tail(@)]
  /\ run' = [run EXCEPT ![e] = "pre"]
  /\ UNCHANGED <<initialized, mtx, pool, created, ids, at, call, joining, guard,
                 accepted, ended, thrown, race>>

\* Variant of PreCheck: the id is erased before the body runs.
EraseBeforeBody(e) ==
  /\ run[e] = "pre" /\ mtx = NoThread
  /\ run' = [run EXCEPT ![e] = IF cur[e] \in ids[e] THEN "body" ELSE "post"]
  /\ ids' = [ids EXCEPT ![e] = @ \ {cur[e]}]
  /\ UNCHANGED <<initialized, mtx, pool, created, queue, cur, at, call,
                 joining, guard, accepted, ended, thrown, race>>

\* pre_lock: skip the body when the id is gone.
PreCheck(e) ==
  /\ ~race
  /\ run[e] = "pre" /\ mtx = NoThread
  /\ run' = [run EXCEPT ![e] = IF cur[e] \in ids[e] THEN "body" ELSE "post"]
  /\ UNCHANGED <<initialized, mtx, pool, created, ids, queue, cur, at, call,
                 joining, guard, accepted, ended, thrown, race>>

BodyReturns(e) ==
  /\ ~race
  /\ run[e] = "body" /\ at[e] = "out"
  /\ run' = [run EXCEPT ![e] = "post"]
  /\ ended' = ended \cup {cur[e]}
  /\ UNCHANGED <<initialized, mtx, pool, created, ids, queue, cur, at, call,
                 joining, guard, accepted, thrown, race>>

\* An exception leaves the wrapper, and the id stays in the element.
BodyThrows(e) ==
  /\ ~race
  /\ run[e] = "body" /\ at[e] = "out" /\ cur[e] \in MayThrow
  /\ run' = [run EXCEPT ![e] = "idle"]
  /\ cur' = [cur EXCEPT ![e] = NoTask]
  /\ thrown' = thrown \cup {cur[e]}
  /\ UNCHANGED <<initialized, mtx, pool, created, ids, queue, at, call, joining,
                 guard, accepted, ended, race>>

\* Variant of PostErase: the ids are compared by strand.
EraseStrand(e) ==
  /\ run[e] = "post" /\ mtx = NoThread
  /\ ids' = [ids EXCEPT ![e] = {k \in @ : StrandOf[k] # StrandOf[cur[e]]}]
  /\ run' = [run EXCEPT ![e] = "idle"]
  /\ cur' = [cur EXCEPT ![e] = NoTask]
  /\ UNCHANGED <<initialized, mtx, pool, created, queue, at, call, joining,
                 guard, accepted, ended, thrown, race>>

\* post_lock: erase the id.
PostErase(e) ==
  /\ ~race
  /\ run[e] = "post" /\ mtx = NoThread
  /\ ids' = [ids EXCEPT ![e] = @ \ {cur[e]}]
  /\ run' = [run EXCEPT ![e] = "idle"]
  /\ cur' = [cur EXCEPT ![e] = NoTask]
  /\ UNCHANGED <<initialized, mtx, pool, created, queue, at, call, joining,
                 guard, accepted, ended, thrown, race>>

-----------------------------------------------------------------------------
(* init() and the guard it returns.                                          *)
InitPool ==
  /\ guard = "none" /\ mtx = NoThread
  /\ guard' = "up"
  /\ initialized' = TRUE
  /\ pool' = {1} /\ created' = 1
  /\ UNCHANGED <<mtx, ids, queue, run, cur, at, call, joining, accepted, ended,
                 thrown, race>>

GuardFlag ==
  /\ ~race
  /\ guard = "up"
  /\ guard' = "flag"
  /\ initialized' = FALSE
  /\ UNCHANGED <<mtx, pool, created, ids, queue, run, cur, at, call, joining,
                 accepted, ended, thrown, race>>

\* Variant of GuardLock: the lock is held while the pool is cleared.
LockWhileClearing ==
  /\ guard = "flag" /\ mtx = NoThread
  /\ mtx' = CHOOSE t \in Callers : TRUE
  /\ guard' = "clear"
  /\ UNCHANGED <<initialized, pool, created, ids, queue, run, cur, at, call,
                 joining, accepted, ended, thrown, race>>

\* The lock is released at once: pool_.clear() runs without it.
GuardLock ==
  /\ ~race
  /\ guard = "flag" /\ mtx = NoThread
  /\ guard' = "clear"
  /\ UNCHANGED <<initialized, mtx, pool, created, ids, queue, run, cur, at, call,
                 joining, accepted, ended, thrown, race>>

\* clear() destroys the elements in their order; each drops the tasks its
\* worker has not begun and joins the worker.
GuardClose ==
  /\ ~race
  /\ guard = "clear" /\ pool # {}
  /\ guard' = "join"
  /\ queue' = [queue EXCEPT ![Min(pool)] = <<>>]
  /\ UNCHANGED <<initialized, mtx, pool, created, ids, run, cur, at, call, joining,
                 accepted, ended, thrown, race>>

GuardJoin ==
  /\ ~race
  /\ guard = "join" /\ run[Min(pool)] = "idle"
  /\ guard' = "clear"
  /\ pool' = pool \ {Min(pool)}
  /\ ids' = [ids EXCEPT ![Min(pool)] = {}]
  /\ UNCHANGED <<initialized, mtx, created, queue, run, cur, at, call, joining,
                 accepted, ended, thrown, race>>

GuardDone ==
  /\ ~race
  /\ guard = "clear" /\ pool = {}
  /\ guard' = "cleared"
  /\ UNCHANGED <<initialized, mtx, pool, created, ids, queue, run, cur, at, call,
                 joining, accepted, ended, thrown, race>>

-----------------------------------------------------------------------------
Guard == GuardFlag \/ GuardLock \/ GuardClose \/ GuardJoin \/ GuardDone

CallStep(t) == Enqueue(t) \/ Reap(t) \/ JoinReaped(t)

WorkerStep(e) ==
  Take(e) \/ PreCheck(e) \/ BodyReturns(e) \/ BodyThrows(e) \/ PostErase(e)

Done ==
  /\ race \/ (guard = "cleared" /\ \A t \in Threads : at[t] = "out")
  /\ UNCHANGED vars

Next ==
  \/ InitPool \/ Guard
  \/ \E t \in Threads : CallStep(t) \/ \E k \in Tasks : CallQueueTask(t, k)
  \/ \E e \in Elems : WorkerStep(e)
  \/ Done

\* Threads inside a call, workers with a task and a guard at work go on, and
\* bodies of tasks end.  Nobody has to call queue_task or to end the program.
\* The calls are finitely many, so that weak fairness covers waiting on mtx_.
Fairness ==
  /\ \A t \in Threads : WF_vars(CallStep(t))
  /\ \A e \in Elems : WF_vars(WorkerStep(e))
  /\ WF_vars(GuardLock \/ GuardClose \/ GuardJoin \/ GuardDone)

Spec == Init /\ [][Next]_vars /\ Fairness

-----------------------------------------------------------------------------
Begun(k) ==
  \/ k \in ended \cup thrown
  \/ \E e \in Elems : cur[e] = k /\ run[e] \in {"body", "post"}

\* What the abstract pool sees of a task.
Calling == {call[t] : t \in Threads}
Waiting == (UNION {Range(queue[e]) : e \in pool}) \cup {cur[e] : e \in {d \in pool : run[d] = "pre"}}
Working == {cur[e] : e \in {d \in pool : run[d] = "body"}}

JobState(k) ==
  IF k \in Calling THEN "called"
  ELSE IF k \in Waiting THEN "queued"
  ELSE IF k \in Working THEN "running"
  ELSE IF k \in Range(accepted) THEN "over" ELSE "none"

Contract == INSTANCE AbstractPool WITH
  Jobs <- Tasks,
  phase <- IF guard = "join" THEN "clear" ELSE guard,
  job <- [k \in Tasks |-> JobState(k)],
  undefined <- race

\* The pool is the abstract one, whatever workers it creates, reuses and reaps:
\* a task is accepted at most once, begins at most once, and only after it was
\* accepted; nothing but the guard drops one; and no body begins or still runs
\* when the guard has returned.
ImplementsPool == Contract!PoolSpec

\* "the task will run after the previous task with the same strand ID has
\* finished" (thread_pool.hpp:55): whatever workers the pool creates and reaps,
\* a task of a strand begins only when every task of the strand accepted before
\* it has returned or thrown.
StrandInOrder ==
  \A i, j \in DOMAIN accepted :
    /\ i < j
    /\ StrandOf[accepted[i]] = StrandOf[accepted[j]]
    /\ StrandOf[accepted[i]] # Plain
    /\ Begun(accepted[j])
    => accepted[i] \in ended \cup thrown

\* The ids of an element say what its worker has still to do, and beyond that
\* hold only tasks that threw.  So an element without ids is idle: reaping it
\* drops no task and joins no worker that needs mtx_.
IdsTellWork ==
  guard \in {"none", "up", "flag"} => \A e \in pool :
    ids[e] \ thrown =
      (Range(queue[e]) \cup {cur[e]}) \ {NoTask}

\* Tasks that are not of one strand never wait for one another: the ids of an
\* element are of one strand, or of one task queued without a strand.
Independent ==
  \A e \in pool : \A j, k \in ids[e] :
    j # k => StrandOf[j] = StrandOf[k] /\ StrandOf[j] # Plain

\* An accepted task is begun, unless the pool is being shut down.
AcceptedTaskRuns ==
  \A k \in Tasks : k \in Range(accepted) ~> Begun(k) \/ guard \notin {"none", "up"}

\* Shutting the pool down ends: clear() joins workers that need mtx_, and
\* that call queue_task themselves, and still no thread waits for ever (or the
\* race that PoolNotUsedWhenCleared is about has struck).
ShutdownEnds == guard = "flag" ~> guard = "cleared" \/ race

\* "The shutdown flag ensures, that the pool_ member is not modified or read
\* from external threads anymore" (thread_pool.cpp:31-32) when it is cleared.
PoolNotUsedWhenCleared == ~race
=============================================================================
