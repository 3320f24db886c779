------------------------------ MODULE TaskQueue ------------------------------
(***************************************************************************)
(* bibstd::app_framework::task_queue (src/bibstd/app_framework/            *)
(* task_queue.{hpp,cpp}): a FIFO of callables guarded by two mutexes and   *)
(* a condition variable.  Every lock, unlock, wait and notify of the       *)
(* member functions is a step of its own, taken by any thread of Threads.  *)
(*                                                                         *)
(* at[t] is the place of thread t: "out" (in no member function), "run"    *)
(* (inside the body of a task), or a place inside a member function:       *)
(*   q_lock, q_emplace, q_notify            queue()                        *)
(*   t_try                                  try_do_task()                  *)
(*   d_lock, d_check, d_wait, d_woken       do_task_or_wait()              *)
(*   i_pop, i_task                          do_task_impl()                 *)
(*   x_lock, x_clear, x_notify, x_last      ~task_queue()                  *)
(*                                                                         *)
(* The object has a lifetime of its own (life): a thread that is still in  *)
(* a member function of a destroyed object touches freed mutexes, which    *)
(* is undefined behaviour; the model records it in fault and stops.        *)
(***************************************************************************)
EXTENDS Naturals, Sequences, FiniteSets

CONSTANTS
  Threads,    \* the threads that use the queue
  Tasks,      \* the callables that may be queued, one value per object
  Hollow,     \* those of them that hold no function: if(task) is false
  NoThread,   \* a mutex nobody holds
  NoTask      \* no callable in the hand of a thread

ASSUME TaskQueueAssumption ==
  /\ Hollow \subseteq Tasks
  /\ NoThread \notin Threads
  /\ NoTask \notin Tasks

ASSUME ThreadsFinite == IsFiniteSet(Threads)

VARIABLES
  shutdown,     \* shutdown_
  queue_mtx,    \* the thread that holds queue_mtx_
  task_mtx,     \* the thread that holds task_mtx_
  task_queue,   \* task_queue_
  at,           \* the place of each thread
  hand,         \* the task a thread has popped and not finished
  arg,          \* the task a thread is passing to queue()
  submitted,    \* history: the tasks ever passed to queue()
  life,         \* "alive", "closing" (in its destructor), "destroyed"
  fault         \* a thread used the object after its destruction

tqVars == <<shutdown, queue_mtx, task_mtx, task_queue, at, hand, arg,
            submitted, life, fault>>

QueuePlaces == {"q_lock", "q_emplace", "q_notify"}
DtorPlaces  == {"x_lock", "x_clear", "x_notify", "x_last"}
TakePlaces  == {"t_try", "d_lock", "d_check", "d_wait", "d_woken",
                "i_pop", "i_task"}
Places      == {"out", "run"} \cup QueuePlaces \cup TakePlaces \cup DtorPlaces

TypeOK ==
  /\ shutdown \in BOOLEAN
  /\ queue_mtx \in Threads \cup {NoThread}
  /\ task_mtx \in Threads \cup {NoThread}
  /\ task_queue \in Seq(Tasks)
  /\ at \in [Threads -> Places]
  /\ hand \in [Threads -> Tasks \cup {NoTask}]
  /\ arg \in [Threads -> Tasks \cup {NoTask}]
  /\ submitted \subseteq Tasks
  /\ life \in {"alive", "closing", "destroyed"}
  /\ fault \in BOOLEAN

TQInit ==
  /\ shutdown = FALSE
  /\ queue_mtx = NoThread
  /\ task_mtx = NoThread
  /\ task_queue = <<>>
  /\ at = [t \in Threads |-> "out"]
  /\ hand = [t \in Threads |-> NoTask]
  /\ arg = [t \in Threads |-> NoTask]
  /\ submitted = {}
  /\ life = "alive"
  /\ fault = FALSE

-----------------------------------------------------------------------------
Goto(t, place) == at' = [at EXCEPT ![t] = place]

\* A member function touches the object only while the object exists.
Usable == life # "destroyed" /\ ~fault

\* A thread is executing the body of the task in its hand, or a call the body
\* made: it is between the lock and the unlock of task_mtx_ in do_task_impl.
Running(t) == hand[t] # NoTask /\ at[t] \in {"run"} \cup QueuePlaces

Waiters == {t \in Threads : at[t] = "d_wait"}

(***************************************************************************)
(* Faulty variants of steps defined below.  No behaviour takes them: each  *)
(* shows, put in the place of its step, that a property can fail.          *)
(***************************************************************************)
\* QueueEmplace with a task that was moved from.
EmplaceMovedFrom(t) ==
  /\ Usable /\ at[t] = "q_emplace"
  /\ task_queue' = Append(task_queue, NoTask)
  /\ queue_mtx' = NoThread
  /\ Goto(t, "q_notify")
  /\ UNCHANGED <<shutdown, task_mtx, hand, arg, submitted, life, fault>>

\* QueueEmplace that notifies only when the queue was empty.
EmplaceNotifyIfEmpty(t) ==
  /\ Usable /\ at[t] = "q_emplace"
  /\ task_queue' = Append(task_queue, arg[t])
  /\ arg' = [arg EXCEPT ![t] = NoTask]
  /\ queue_mtx' = NoThread
  /\ Goto(t, IF task_queue = <<>> THEN "q_notify"
             ELSE IF hand[t] # NoTask THEN "run" ELSE "out")
  /\ UNCHANGED <<shutdown, task_mtx, hand, submitted, life, fault>>

\* QueueEmplace after which queue() does not notify.
EmplaceSilently(t) ==
  /\ Usable /\ at[t] = "q_emplace"
  /\ task_queue' = Append(task_queue, arg[t])
  /\ arg' = [arg EXCEPT ![t] = NoTask]
  /\ queue_mtx' = NoThread
  /\ Goto(t, IF hand[t] # NoTask THEN "run" ELSE "out")
  /\ UNCHANGED <<shutdown, task_mtx, hand, submitted, life, fault>>

\* ImplPop that leaves the task at the front of the queue.
PopLater(t) ==
  /\ Usable /\ at[t] = "i_pop"
  /\ queue_mtx' = NoThread
  /\ IF task_queue = <<>> THEN Goto(t, "out") /\ UNCHANGED hand
     ELSE Goto(t, "i_task") /\ hand' = [hand EXCEPT ![t] = Head(task_queue)]
  /\ UNCHANGED <<shutdown, task_mtx, task_queue, arg, submitted, life, fault>>

\* ImplTask without task_mtx_.
RunUnlocked(t) ==
  /\ Usable /\ at[t] = "i_task"
  /\ Goto(t, "run")
  /\ UNCHANGED <<shutdown, queue_mtx, task_mtx, task_queue, hand, arg,
                 submitted, life, fault>>

\* DtorClear that keeps the scoped_lock until the end of the destructor.
ClearKeepsLock(t) ==
  /\ Usable /\ at[t] = "x_clear"
  /\ shutdown' = TRUE
  /\ task_queue' = <<>>
  /\ Goto(t, "x_notify")
  /\ UNCHANGED <<queue_mtx, task_mtx, hand, arg, submitted, life, fault>>

\* DtorNotify with notify_one.
DtorNotifyOne(t) ==
  /\ Usable /\ at[t] = "x_notify"
  /\ LET on == [at EXCEPT ![t] = "x_last"]
     IN  \/ Waiters = {} /\ at' = on
         \/ \E w \in Waiters : at' = [on EXCEPT ![w] = "d_woken"]
  /\ UNCHANGED <<shutdown, queue_mtx, task_mtx, task_queue, hand, arg,
                 submitted, life, fault>>

-----------------------------------------------------------------------------
(* queue(): lock, emplace, unlock, then notify_one outside the lock.         *)
CallQueue(t, k) ==
  /\ life = "alive" /\ ~fault
  /\ at[t] \in {"out", "run"}
  /\ k \notin submitted
  /\ submitted' = submitted \cup {k}
  /\ arg' = [arg EXCEPT ![t] = k]
  /\ Goto(t, "q_lock")
  /\ UNCHANGED <<shutdown, queue_mtx, task_mtx, task_queue, hand, life, fault>>

QueueLock(t) ==
  /\ Usable /\ at[t] = "q_lock"
  /\ queue_mtx = NoThread
  /\ queue_mtx' = t
  /\ Goto(t, "q_emplace")
  /\ UNCHANGED <<shutdown, task_mtx, task_queue, hand, arg, submitted, life, fault>>

QueueEmplace(t) ==
  /\ Usable /\ at[t] = "q_emplace"
  /\ task_queue' = Append(task_queue, arg[t])
  /\ arg' = [arg EXCEPT ![t] = NoTask]
  /\ queue_mtx' = NoThread
  /\ Goto(t, "q_notify")
  /\ UNCHANGED <<shutdown, task_mtx, hand, submitted, life, fault>>

\* The call returns to the body of the task that made it, if one did.
QueueNotify(t) ==
  /\ Usable /\ at[t] = "q_notify"
  /\ LET back == [at EXCEPT ![t] = IF hand[t] # NoTask THEN "run" ELSE "out"]
     IN  \/ Waiters = {} /\ at' = back
         \/ \E w \in Waiters : at' = [back EXCEPT ![w] = "d_woken"]
  /\ UNCHANGED <<shutdown, queue_mtx, task_mtx, task_queue, hand, arg,
                 submitted, life, fault>>

-----------------------------------------------------------------------------
(* try_do_task() and do_task_or_wait().                                      *)
CallTake(t, place) ==
  /\ life = "alive" /\ ~fault
  /\ at[t] = "out"
  /\ Goto(t, place)
  /\ UNCHANGED <<shutdown, queue_mtx, task_mtx, task_queue, hand, arg,
                 submitted, life, fault>>

\* try_lock may fail without a holder: the standard allows it to.
TryLock(t) ==
  /\ Usable /\ at[t] = "t_try"
  /\ \/ queue_mtx = NoThread /\ queue_mtx' = t /\ Goto(t, "i_pop")
     \/ Goto(t, "out") /\ UNCHANGED queue_mtx
  /\ UNCHANGED <<shutdown, task_mtx, task_queue, hand, arg, submitted, life, fault>>

\* The first lock of the call, and the lock a woken wait takes again.
WaitLock(t) ==
  /\ Usable /\ at[t] \in {"d_lock", "d_woken"}
  /\ queue_mtx = NoThread
  /\ queue_mtx' = t
  /\ Goto(t, "d_check")
  /\ UNCHANGED <<shutdown, task_mtx, task_queue, hand, arg, submitted, life, fault>>

\* The early test and the predicate of the wait are the same condition.
WaitCheck(t) ==
  /\ Usable /\ at[t] = "d_check"
  /\ IF task_queue = <<>> /\ ~shutdown
     THEN queue_mtx' = NoThread /\ Goto(t, "d_wait")
     ELSE Goto(t, "i_pop") /\ UNCHANGED queue_mtx
  /\ UNCHANGED <<shutdown, task_mtx, task_queue, hand, arg, submitted, life, fault>>

\* A condition variable may wake a thread for no reason.
SpuriousWake(t) ==
  /\ Usable /\ at[t] = "d_wait"
  /\ Goto(t, "d_woken")
  /\ UNCHANGED <<shutdown, queue_mtx, task_mtx, task_queue, hand, arg,
                 submitted, life, fault>>

(* do_task_impl(), entered with queue_mtx_ held.                             *)
ImplPop(t) ==
  /\ Usable /\ at[t] = "i_pop"
  /\ queue_mtx' = NoThread
  /\ \/ /\ task_queue = <<>>
        /\ Goto(t, "out")
        /\ UNCHANGED <<task_queue, hand>>
     \/ /\ task_queue # <<>>
        /\ hand' = [hand EXCEPT ![t] = Head(task_queue)]
        /\ task_queue' = Tail(task_queue)
        /\ Goto(t, "i_task")
  /\ UNCHANGED <<shutdown, task_mtx, arg, submitted, life, fault>>

ImplTask(t) ==
  /\ Usable /\ at[t] = "i_task"
  /\ \/ /\ hand[t] \in Hollow
        /\ hand' = [hand EXCEPT ![t] = NoTask]
        /\ Goto(t, "out")
        /\ UNCHANGED task_mtx
     \/ /\ hand[t] \notin Hollow
        /\ task_mtx = NoThread
        /\ task_mtx' = t
        /\ Goto(t, "run")
        /\ UNCHANGED hand
  /\ UNCHANGED <<shutdown, queue_mtx, task_queue, arg, submitted, life, fault>>

\* The task returns or throws: the lock_guard releases task_mtx_ either way.
TaskEnd(t) ==
  /\ Usable /\ at[t] = "run"
  /\ task_mtx' = NoThread
  /\ hand' = [hand EXCEPT ![t] = NoTask]
  /\ Goto(t, "out")
  /\ UNCHANGED <<shutdown, queue_mtx, task_queue, arg, submitted, life, fault>>

-----------------------------------------------------------------------------
(* ~task_queue().                                                            *)
CallDtor(t) ==
  /\ life = "alive" /\ ~fault
  /\ at[t] = "out"
  /\ life' = "closing"
  /\ Goto(t, "x_lock")
  /\ UNCHANGED <<shutdown, queue_mtx, task_mtx, task_queue, hand, arg,
                 submitted, fault>>

\* scoped_lock holds both mutexes or none.
DtorLock(t) ==
  /\ Usable /\ at[t] = "x_lock"
  /\ queue_mtx = NoThread /\ task_mtx = NoThread
  /\ queue_mtx' = t /\ task_mtx' = t
  /\ Goto(t, "x_clear")
  /\ UNCHANGED <<shutdown, task_queue, hand, arg, submitted, life, fault>>

DtorClear(t) ==
  /\ Usable /\ at[t] = "x_clear"
  /\ shutdown' = TRUE
  /\ task_queue' = <<>>
  /\ queue_mtx' = NoThread /\ task_mtx' = NoThread
  /\ Goto(t, "x_notify")
  /\ UNCHANGED <<hand, arg, submitted, life, fault>>

DtorNotify(t) ==
  /\ Usable /\ at[t] = "x_notify"
  /\ at' = [s \in Threads |-> IF s = t THEN "x_last"
                              ELSE IF at[s] = "d_wait" THEN "d_woken" ELSE at[s]]
  /\ UNCHANGED <<shutdown, queue_mtx, task_mtx, task_queue, hand, arg,
                 submitted, life, fault>>

\* The second lock is released at once and the members are destroyed.
DtorLast(t) ==
  /\ Usable /\ at[t] = "x_last"
  /\ queue_mtx = NoThread
  /\ life' = "destroyed"
  /\ Goto(t, "out")
  /\ UNCHANGED <<shutdown, queue_mtx, task_mtx, task_queue, hand, arg,
                 submitted, fault>>

\* A thread takes its next step on a queue that is gone.
UseAfterFree(t) ==
  /\ life = "destroyed" /\ ~fault
  /\ at[t] \notin {"out", "d_wait"}
  /\ fault' = TRUE
  /\ UNCHANGED <<shutdown, queue_mtx, task_mtx, task_queue, at, hand, arg,
                 submitted, life>>

-----------------------------------------------------------------------------
\* The steps a thread takes inside a call, which it goes on taking.
Member(t) ==
  \/ QueueLock(t) \/ QueueEmplace(t) \/ QueueNotify(t)
  \/ TryLock(t) \/ WaitLock(t) \/ WaitCheck(t)
  \/ ImplPop(t) \/ ImplTask(t) \/ TaskEnd(t)
  \/ DtorLock(t) \/ DtorClear(t) \/ DtorNotify(t) \/ DtorLast(t)
  \/ UseAfterFree(t)

\* The calls a thread may make, which nothing obliges it to make.
Call(t) ==
  \/ \E k \in Tasks : CallQueue(t, k)
  \/ CallTake(t, "t_try")
  \/ CallTake(t, "d_lock")
  \/ CallDtor(t)

TQDone ==
  /\ fault \/ (life = "destroyed" /\ \A t \in Threads : at[t] = "out")
  /\ UNCHANGED tqVars

TQNext ==
  \/ \E t \in Threads : Member(t) \/ Call(t) \/ SpuriousWake(t)
  \/ TQDone

\* The scheduler runs every thread, and no thread starves on a mutex that is
\* released again and again.  Nothing forces a spurious wakeup.
TQFairness == \A t \in Threads : SF_tqVars(Member(t))

TQSpec == TQInit /\ [][TQNext]_tqVars /\ TQFairness

-----------------------------------------------------------------------------
(* Who holds a mutex is where it stands in the code.                         *)
HoldsQueue(t) == at[t] \in {"q_emplace", "d_check", "i_pop", "x_clear"}
HoldsTask(t)  == Running(t) \/ at[t] = "x_clear"

\* task_mtx_ keeps two tasks of one queue from running at the same time,
\* whichever threads execute it, and keeps the destructor from clearing the
\* queue while one runs.
TaskExclusion ==
  \A s, t \in Threads : HoldsTask(s) /\ HoldsTask(t) => s = t

\* A thread on the way to take a task, or to wake one that will.
OnTheWay == {t \in Threads : at[t] \in {"q_notify", "d_woken", "d_check", "i_pop"}}

\* No lost wakeup, although queue() notifies after it has unlocked and wakes
\* one thread only: while a thread sleeps in do_task_or_wait there are at
\* least as many threads on the way to the queue as it holds tasks.
NoLostWakeup ==
  Waiters # {} => Len(task_queue) <= Cardinality(OnTheWay)

\* A task is in one place at a time - an argument of queue(), one position of
\* the queue, or one thread's hand - so that no task runs twice or in two
\* threads, although it is taken under one mutex and run under another.
OneCopy ==
  /\ \A i, j \in DOMAIN task_queue : task_queue[i] = task_queue[j] => i = j
  /\ \A s, t \in Threads : hand[s] # NoTask /\ hand[s] = hand[t] => s = t
  /\ \A s, t \in Threads : arg[s] # NoTask =>
        arg[s] # hand[t] /\ (arg[s] = arg[t] => s = t)
  /\ \A t \in Threads, i \in DOMAIN task_queue :
        task_queue[i] \notin {hand[t], arg[t]}

\* When the destructor ends no thread sleeps on its condition variable: each
\* was notified, and none goes to sleep once shutdown_ is set.
NobodySleepsOnDestroyed == life = "destroyed" => Waiters = {}

\* The destructor takes both mutexes at once and never hangs: once it is
\* called, the queue is destroyed.
DtorEnds == life = "closing" ~> life = "destroyed"
=============================================================================
