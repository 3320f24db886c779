----------------------------- MODULE LoopProofs -----------------------------
(***************************************************************************)
(* The queue and the two loops that do its tasks, for every set of threads *)
(* and tasks: no task of a task_queue is copied or forgotten, an           *)
(* active_worker implements SerialExecutor, and the main loop begins one   *)
(* task at most after exit().                                              *)
(***************************************************************************)
EXTENDS ActiveWorker, MainLoop, SequenceTheorems, FiniteSetTheorems, TLAPS

-----------------------------------------------------------------------------
(* The queue                                                                 *)
\* The places of a thread with a task in its hand, and with an argument.
HandPlaces == {"run", "i_task"} \cup QueuePlaces
ArgPlaces  == {"q_lock", "q_emplace"}

\* Each mutex is held by exactly the thread whose place says so.
LockInv ==
  \A t \in Threads :
    /\ queue_mtx = t <=> HoldsQueue(t)
    /\ task_mtx = t <=> HoldsTask(t)

\* A hand or an argument is full exactly where the code has one to use.
HandInv ==
  \A t \in Threads :
    /\ hand[t] # NoTask => at[t] \in HandPlaces
    /\ at[t] \in {"run", "i_task"} => hand[t] # NoTask
    /\ arg[t] # NoTask <=> at[t] \in ArgPlaces

\* One destructor at most runs, while the object is closing.
DtorInv ==
  /\ \A t \in Threads : at[t] \in DtorPlaces => life = "closing"
  /\ \A s, t \in Threads :
       at[s] \in DtorPlaces /\ at[t] \in DtorPlaces => s = t

\* shutdown_ is set before the threads are woken, and no thread goes to sleep
\* from then on.
SleepInv ==
  /\ \A t \in Threads : at[t] \in {"x_notify", "x_last"} => shutdown
  /\ \A t \in Threads : at[t] = "x_last" => Waiters = {}
  /\ life = "destroyed" => shutdown /\ Waiters = {}

LifeInv == DtorInv /\ SleepInv

\* Every task in the queue, a hand or an argument was passed to queue().
SubmittedInv ==
  /\ \A i \in DOMAIN task_queue : task_queue[i] \in submitted
  /\ \A t \in Threads : hand[t] # NoTask => hand[t] \in submitted
  /\ \A t \in Threads : arg[t] # NoTask => arg[t] \in submitted

IInv == TypeOK /\ LockInv /\ HandInv /\ LifeInv

CopyInv == OneCopy /\ SubmittedInv

-----------------------------------------------------------------------------
(* One step keeps every variable in its type.  An argument is a task where
   queue() stores it: that is what HandInv is needed for. *)
LEMMA TypeStep ==
  IInv /\ [TQNext]_tqVars => TypeOK'
<1> SUFFICES ASSUME IInv, [TQNext]_tqVars PROVE TypeOK'
  OBVIOUS
<1> USE TaskQueueAssumption DEF IInv, TypeOK, HandInv, HandPlaces, ArgPlaces, Places, QueuePlaces, TakePlaces, DtorPlaces
<1>1. CASE UNCHANGED tqVars
  BY <1>1 DEF tqVars, Waiters
<1>2. ASSUME NEW t \in Threads, NEW k \in Tasks, CallQueue(t, k) PROVE TypeOK'
  BY <1>2 DEF CallQueue, Goto
<1>3. ASSUME NEW t \in Threads, NEW p \in {"t_try", "d_lock"}, CallTake(t, p) PROVE TypeOK'
  BY <1>3 DEF CallTake, Goto
<1>4. ASSUME NEW t \in Threads, CallDtor(t) PROVE TypeOK'
  BY <1>4 DEF CallDtor, Goto
<1>5. ASSUME NEW t \in Threads, SpuriousWake(t) PROVE TypeOK'
  BY <1>5 DEF SpuriousWake, Goto
<1>6. ASSUME NEW t \in Threads, QueueLock(t) PROVE TypeOK'
  BY <1>6 DEF QueueLock, Goto
<1>7. ASSUME NEW t \in Threads, QueueEmplace(t) PROVE TypeOK'
  BY <1>7 DEF QueueEmplace, Goto
<1>8. ASSUME NEW t \in Threads, QueueNotify(t) PROVE TypeOK'
  BY <1>8 DEF QueueNotify, Waiters
<1>9. ASSUME NEW t \in Threads, TryLock(t) PROVE TypeOK'
  BY <1>9 DEF TryLock, Goto
<1>10. ASSUME NEW t \in Threads, WaitLock(t) PROVE TypeOK'
  BY <1>10 DEF WaitLock, Goto
<1>11. ASSUME NEW t \in Threads, WaitCheck(t) PROVE TypeOK'
  BY <1>11 DEF WaitCheck, Goto
<1>12. ASSUME NEW t \in Threads, ImplPop(t) PROVE TypeOK'
  BY <1>12 DEF ImplPop, Goto
<1>13. ASSUME NEW t \in Threads, ImplTask(t) PROVE TypeOK'
  BY <1>13 DEF ImplTask, Goto
<1>14. ASSUME NEW t \in Threads, TaskEnd(t) PROVE TypeOK'
  BY <1>14 DEF TaskEnd, Goto
<1>15. ASSUME NEW t \in Threads, DtorLock(t) PROVE TypeOK'
  BY <1>15 DEF DtorLock, Goto
<1>16. ASSUME NEW t \in Threads, DtorClear(t) PROVE TypeOK'
  BY <1>16 DEF DtorClear, Goto
<1>17. ASSUME NEW t \in Threads, DtorNotify(t) PROVE TypeOK'
  BY <1>17 DEF DtorNotify, Goto
<1>18. ASSUME NEW t \in Threads, DtorLast(t) PROVE TypeOK'
  BY <1>18 DEF DtorLast, Goto
<1>19. ASSUME NEW t \in Threads, UseAfterFree(t) PROVE TypeOK'
  BY <1>19 DEF UseAfterFree, Goto
<1>20. QED
  BY <1>1, <1>2, <1>3, <1>4, <1>5, <1>6, <1>7, <1>8, <1>9, <1>10, <1>11, <1>12, <1>13, <1>14, <1>15, <1>16, <1>17, <1>18, <1>19
  DEF TQNext, Member, Call, TQDone

(* One step keeps each mutex with the thread whose place says it holds it. *)
LEMMA LockStep ==
  IInv /\ [TQNext]_tqVars => LockInv'
<1> SUFFICES ASSUME IInv, [TQNext]_tqVars PROVE LockInv'
  OBVIOUS
<1> USE TaskQueueAssumption DEF IInv, TypeOK, LockInv, HandInv, HandPlaces, HoldsQueue, HoldsTask, Running, Places, QueuePlaces, TakePlaces, DtorPlaces
<1>1. CASE UNCHANGED tqVars
  BY <1>1 DEF tqVars
<1>2. ASSUME NEW t \in Threads, NEW k \in Tasks, CallQueue(t, k) PROVE LockInv'
  BY <1>2 DEF CallQueue, Goto
<1>3. ASSUME NEW t \in Threads, NEW p \in {"t_try", "d_lock"}, CallTake(t, p) PROVE LockInv'
  BY <1>3 DEF CallTake, Goto
<1>4. ASSUME NEW t \in Threads, CallDtor(t) PROVE LockInv'
  BY <1>4 DEF CallDtor, Goto
<1>5. ASSUME NEW t \in Threads, SpuriousWake(t) PROVE LockInv'
  BY <1>5 DEF SpuriousWake, Goto
<1>6. ASSUME NEW t \in Threads, QueueLock(t) PROVE LockInv'
  BY <1>6 DEF QueueLock, Goto
<1>7. ASSUME NEW t \in Threads, QueueEmplace(t) PROVE LockInv'
  BY <1>7 DEF QueueEmplace, Goto
<1>8. ASSUME NEW t \in Threads, QueueNotify(t) PROVE LockInv'
  BY <1>8 DEF QueueNotify, Waiters
<1>9. ASSUME NEW t \in Threads, TryLock(t) PROVE LockInv'
  BY <1>9 DEF TryLock, Goto
<1>10. ASSUME NEW t \in Threads, WaitLock(t) PROVE LockInv'
  BY <1>10 DEF WaitLock, Goto
<1>11. ASSUME NEW t \in Threads, WaitCheck(t) PROVE LockInv'
  BY <1>11 DEF WaitCheck, Goto
<1>12. ASSUME NEW t \in Threads, ImplPop(t) PROVE LockInv'
  BY <1>12 DEF ImplPop, Goto
<1>13. ASSUME NEW t \in Threads, ImplTask(t) PROVE LockInv'
  BY <1>13 DEF ImplTask, Goto
<1>14. ASSUME NEW t \in Threads, TaskEnd(t) PROVE LockInv'
  BY <1>14 DEF TaskEnd, Goto
<1>15. ASSUME NEW t \in Threads, DtorLock(t) PROVE LockInv'
  BY <1>15 DEF DtorLock, Goto
<1>16. ASSUME NEW t \in Threads, DtorClear(t) PROVE LockInv'
  BY <1>16 DEF DtorClear, Goto
<1>17. ASSUME NEW t \in Threads, DtorNotify(t) PROVE LockInv'
  BY <1>17 DEF DtorNotify, Goto
<1>18. ASSUME NEW t \in Threads, DtorLast(t) PROVE LockInv'
  BY <1>18 DEF DtorLast, Goto
<1>19. ASSUME NEW t \in Threads, UseAfterFree(t) PROVE LockInv'
  BY <1>19 DEF UseAfterFree, Goto
<1>20. QED
  BY <1>1, <1>2, <1>3, <1>4, <1>5, <1>6, <1>7, <1>8, <1>9, <1>10, <1>11, <1>12, <1>13, <1>14, <1>15, <1>16, <1>17, <1>18, <1>19
  DEF TQNext, Member, Call, TQDone

(* One step keeps hands and arguments full exactly where the code uses them. *)
LEMMA HandStep ==
  IInv /\ [TQNext]_tqVars => HandInv'
<1> SUFFICES ASSUME IInv, [TQNext]_tqVars PROVE HandInv'
  OBVIOUS
<1> USE TaskQueueAssumption DEF IInv, TypeOK, HandInv, HandPlaces, ArgPlaces, Places, QueuePlaces, TakePlaces, DtorPlaces
<1>1. CASE UNCHANGED tqVars
  BY <1>1 DEF tqVars, Waiters
<1>2. ASSUME NEW t \in Threads, NEW k \in Tasks, CallQueue(t, k) PROVE HandInv'
  BY <1>2 DEF CallQueue, Goto
<1>3. ASSUME NEW t \in Threads, NEW p \in {"t_try", "d_lock"}, CallTake(t, p) PROVE HandInv'
  BY <1>3 DEF CallTake, Goto
<1>4. ASSUME NEW t \in Threads, CallDtor(t) PROVE HandInv'
  BY <1>4 DEF CallDtor, Goto
<1>5. ASSUME NEW t \in Threads, SpuriousWake(t) PROVE HandInv'
  BY <1>5 DEF SpuriousWake, Goto
<1>6. ASSUME NEW t \in Threads, QueueLock(t) PROVE HandInv'
  BY <1>6 DEF QueueLock, Goto
<1>7. ASSUME NEW t \in Threads, QueueEmplace(t) PROVE HandInv'
  BY <1>7 DEF QueueEmplace, Goto
<1>8. ASSUME NEW t \in Threads, QueueNotify(t) PROVE HandInv'
  BY <1>8 DEF QueueNotify, Waiters
<1>9. ASSUME NEW t \in Threads, TryLock(t) PROVE HandInv'
  BY <1>9 DEF TryLock, Goto
<1>10. ASSUME NEW t \in Threads, WaitLock(t) PROVE HandInv'
  BY <1>10 DEF WaitLock, Goto
<1>11. ASSUME NEW t \in Threads, WaitCheck(t) PROVE HandInv'
  BY <1>11 DEF WaitCheck, Goto
<1>12. ASSUME NEW t \in Threads, ImplPop(t) PROVE HandInv'
  BY <1>12 DEF ImplPop, Goto
<1>13. ASSUME NEW t \in Threads, ImplTask(t) PROVE HandInv'
  BY <1>13 DEF ImplTask, Goto
<1>14. ASSUME NEW t \in Threads, TaskEnd(t) PROVE HandInv'
  BY <1>14 DEF TaskEnd, Goto
<1>15. ASSUME NEW t \in Threads, DtorLock(t) PROVE HandInv'
  BY <1>15 DEF DtorLock, Goto
<1>16. ASSUME NEW t \in Threads, DtorClear(t) PROVE HandInv'
  BY <1>16 DEF DtorClear, Goto
<1>17. ASSUME NEW t \in Threads, DtorNotify(t) PROVE HandInv'
  BY <1>17 DEF DtorNotify, Goto
<1>18. ASSUME NEW t \in Threads, DtorLast(t) PROVE HandInv'
  BY <1>18 DEF DtorLast, Goto
<1>19. ASSUME NEW t \in Threads, UseAfterFree(t) PROVE HandInv'
  BY <1>19 DEF UseAfterFree, Goto
<1>20. QED
  BY <1>1, <1>2, <1>3, <1>4, <1>5, <1>6, <1>7, <1>8, <1>9, <1>10, <1>11, <1>12, <1>13, <1>14, <1>15, <1>16, <1>17, <1>18, <1>19
  DEF TQNext, Member, Call, TQDone

(* One step starts at most one destructor: calling it ends the life. *)
LEMMA DtorStep ==
  IInv /\ [TQNext]_tqVars => DtorInv'
<1> SUFFICES ASSUME IInv, [TQNext]_tqVars PROVE DtorInv'
  OBVIOUS
<1> USE TaskQueueAssumption DEF IInv, TypeOK, LifeInv, DtorInv, Places, QueuePlaces, TakePlaces, DtorPlaces
<1>1. CASE UNCHANGED tqVars
  BY <1>1 DEF tqVars
<1>2. ASSUME NEW t \in Threads, NEW k \in Tasks, CallQueue(t, k) PROVE DtorInv'
  BY <1>2 DEF CallQueue, Goto
<1>3. ASSUME NEW t \in Threads, NEW p \in {"t_try", "d_lock"}, CallTake(t, p) PROVE DtorInv'
  BY <1>3 DEF CallTake, Goto
<1>4. ASSUME NEW t \in Threads, CallDtor(t) PROVE DtorInv'
  BY <1>4 DEF CallDtor, Goto
<1>5. ASSUME NEW t \in Threads, SpuriousWake(t) PROVE DtorInv'
  BY <1>5 DEF SpuriousWake, Goto
<1>6. ASSUME NEW t \in Threads, QueueLock(t) PROVE DtorInv'
  BY <1>6 DEF QueueLock, Goto
<1>7. ASSUME NEW t \in Threads, QueueEmplace(t) PROVE DtorInv'
  BY <1>7 DEF QueueEmplace, Goto
<1>8. ASSUME NEW t \in Threads, QueueNotify(t) PROVE DtorInv'
  BY <1>8 DEF QueueNotify, Waiters
<1>9. ASSUME NEW t \in Threads, TryLock(t) PROVE DtorInv'
  BY <1>9 DEF TryLock, Goto
<1>10. ASSUME NEW t \in Threads, WaitLock(t) PROVE DtorInv'
  BY <1>10 DEF WaitLock, Goto
<1>11. ASSUME NEW t \in Threads, WaitCheck(t) PROVE DtorInv'
  BY <1>11 DEF WaitCheck, Goto
<1>12. ASSUME NEW t \in Threads, ImplPop(t) PROVE DtorInv'
  BY <1>12 DEF ImplPop, Goto
<1>13. ASSUME NEW t \in Threads, ImplTask(t) PROVE DtorInv'
  BY <1>13 DEF ImplTask, Goto
<1>14. ASSUME NEW t \in Threads, TaskEnd(t) PROVE DtorInv'
  BY <1>14 DEF TaskEnd, Goto
<1>15. ASSUME NEW t \in Threads, DtorLock(t) PROVE DtorInv'
  BY <1>15 DEF DtorLock, Goto
<1>16. ASSUME NEW t \in Threads, DtorClear(t) PROVE DtorInv'
  BY <1>16 DEF DtorClear, Goto
<1>17. ASSUME NEW t \in Threads, DtorNotify(t) PROVE DtorInv'
  BY <1>17 DEF DtorNotify, Goto
<1>18. ASSUME NEW t \in Threads, DtorLast(t) PROVE DtorInv'
  BY <1>18 DEF DtorLast, Goto
<1>19. ASSUME NEW t \in Threads, UseAfterFree(t) PROVE DtorInv'
  BY <1>19 DEF UseAfterFree, Goto
<1>20. QED
  BY <1>1, <1>2, <1>3, <1>4, <1>5, <1>6, <1>7, <1>8, <1>9, <1>10, <1>11, <1>12, <1>13, <1>14, <1>15, <1>16, <1>17, <1>18, <1>19
  DEF TQNext, Member, Call, TQDone

(* One step puts no thread to sleep once the destructor has set shutdown_:
   it holds both mutexes as it sets it, and notifies all sleepers after. *)
LEMMA SleepStep ==
  IInv /\ [TQNext]_tqVars => SleepInv'
<1> SUFFICES ASSUME IInv, [TQNext]_tqVars PROVE SleepInv'
  OBVIOUS
<1> USE TaskQueueAssumption DEF IInv, TypeOK, LockInv, LifeInv, DtorInv, SleepInv, HoldsQueue, HoldsTask, Waiters, Places, QueuePlaces, TakePlaces, DtorPlaces
<1>1. CASE UNCHANGED tqVars
  BY <1>1 DEF tqVars
<1>2. ASSUME NEW t \in Threads, NEW k \in Tasks, CallQueue(t, k) PROVE SleepInv'
  BY <1>2 DEF CallQueue, Goto
<1>3. ASSUME NEW t \in Threads, NEW p \in {"t_try", "d_lock"}, CallTake(t, p) PROVE SleepInv'
  BY <1>3 DEF CallTake, Goto
<1>4. ASSUME NEW t \in Threads, CallDtor(t) PROVE SleepInv'
  BY <1>4 DEF CallDtor, Goto
<1>5. ASSUME NEW t \in Threads, SpuriousWake(t) PROVE SleepInv'
  BY <1>5 DEF SpuriousWake, Goto
<1>6. ASSUME NEW t \in Threads, QueueLock(t) PROVE SleepInv'
  BY <1>6 DEF QueueLock, Goto
<1>7. ASSUME NEW t \in Threads, QueueEmplace(t) PROVE SleepInv'
  BY <1>7 DEF QueueEmplace, Goto
<1>8. ASSUME NEW t \in Threads, QueueNotify(t) PROVE SleepInv'
  BY <1>8 DEF QueueNotify, Waiters
<1>9. ASSUME NEW t \in Threads, TryLock(t) PROVE SleepInv'
  BY <1>9 DEF TryLock, Goto
<1>10. ASSUME NEW t \in Threads, WaitLock(t) PROVE SleepInv'
  BY <1>10 DEF WaitLock, Goto
<1>11. ASSUME NEW t \in Threads, WaitCheck(t) PROVE SleepInv'
  BY <1>11 DEF WaitCheck, Goto
<1>12. ASSUME NEW t \in Threads, ImplPop(t) PROVE SleepInv'
  BY <1>12 DEF ImplPop, Goto
<1>13. ASSUME NEW t \in Threads, ImplTask(t) PROVE SleepInv'
  BY <1>13 DEF ImplTask, Goto
<1>14. ASSUME NEW t \in Threads, TaskEnd(t) PROVE SleepInv'
  BY <1>14 DEF TaskEnd, Goto
<1>15. ASSUME NEW t \in Threads, DtorLock(t) PROVE SleepInv'
  BY <1>15 DEF DtorLock, Goto
<1>16. ASSUME NEW t \in Threads, DtorClear(t) PROVE SleepInv'
  BY <1>16 DEF DtorClear, Goto
<1>17. ASSUME NEW t \in Threads, DtorNotify(t) PROVE SleepInv'
  BY <1>17 DEF DtorNotify, Goto
<1>18. ASSUME NEW t \in Threads, DtorLast(t) PROVE SleepInv'
  BY <1>18 DEF DtorLast, Goto
<1>19. ASSUME NEW t \in Threads, UseAfterFree(t) PROVE SleepInv'
  BY <1>19 DEF UseAfterFree, Goto
<1>20. QED
  BY <1>1, <1>2, <1>3, <1>4, <1>5, <1>6, <1>7, <1>8, <1>9, <1>10, <1>11, <1>12, <1>13, <1>14, <1>15, <1>16, <1>17, <1>18, <1>19
  DEF TQNext, Member, Call, TQDone

(* One step keeps every task in one place: a call takes a task not used
   before, and each later step moves it. *)
LEMMA CopyStep ==
  IInv /\ CopyInv /\ [TQNext]_tqVars => CopyInv'
<1> SUFFICES ASSUME IInv /\ CopyInv, [TQNext]_tqVars PROVE CopyInv'
  OBVIOUS
<1> USE TaskQueueAssumption DEF IInv, TypeOK, HandInv, HandPlaces, ArgPlaces, CopyInv, OneCopy, SubmittedInv, Places, QueuePlaces, TakePlaces, DtorPlaces
<1>1. CASE UNCHANGED tqVars
  BY <1>1 DEF tqVars, Waiters
<1>2. ASSUME NEW t \in Threads, NEW k \in Tasks, CallQueue(t, k) PROVE CopyInv'
  BY <1>2 DEF CallQueue, Goto
<1>3. ASSUME NEW t \in Threads, NEW p \in {"t_try", "d_lock"}, CallTake(t, p) PROVE CopyInv'
  BY <1>3 DEF CallTake, Goto
<1>4. ASSUME NEW t \in Threads, CallDtor(t) PROVE CopyInv'
  BY <1>4 DEF CallDtor, Goto
<1>5. ASSUME NEW t \in Threads, SpuriousWake(t) PROVE CopyInv'
  BY <1>5 DEF SpuriousWake, Goto
<1>6. ASSUME NEW t \in Threads, QueueLock(t) PROVE CopyInv'
  BY <1>6 DEF QueueLock, Goto
<1>7. ASSUME NEW t \in Threads, QueueEmplace(t) PROVE CopyInv'
  <2>1. /\ DOMAIN task_queue' = 1 .. Len(task_queue) + 1
        /\ \A i \in DOMAIN task_queue : task_queue'[i] = task_queue[i]
        /\ task_queue'[Len(task_queue) + 1] = arg[t]
        /\ DOMAIN task_queue = 1 .. Len(task_queue) /\ Len(task_queue) \in Nat
    BY <1>7 DEF QueueEmplace
  <2> QED
    BY <1>7, <2>1 DEF QueueEmplace
<1>8. ASSUME NEW t \in Threads, QueueNotify(t) PROVE CopyInv'
  BY <1>8 DEF QueueNotify, Goto
<1>9. ASSUME NEW t \in Threads, TryLock(t) PROVE CopyInv'
  BY <1>9 DEF TryLock, Goto
<1>10. ASSUME NEW t \in Threads, WaitLock(t) PROVE CopyInv'
  BY <1>10 DEF WaitLock, Goto
<1>11. ASSUME NEW t \in Threads, WaitCheck(t) PROVE CopyInv'
  BY <1>11 DEF WaitCheck, Goto
<1>12. ASSUME NEW t \in Threads, ImplPop(t) PROVE CopyInv'
  <2>1. CASE task_queue = <<>>
    BY <1>12, <2>1 DEF ImplPop
  <2>2. CASE task_queue # <<>>
    <3> DEFINE rest == Tail(task_queue)
               k    == Head(task_queue)
               n    == Len(task_queue)
    <3>1. /\ task_queue' = rest /\ hand' = [hand EXCEPT ![t] = k]
          /\ at' = [at EXCEPT ![t] = "i_task"]
          /\ at[t] = "i_pop" /\ UNCHANGED <<arg, submitted>>
      BY <1>12, <2>2 DEF ImplPop, Goto
    <3>2. /\ n \in Nat \ {0} /\ DOMAIN task_queue = 1 .. n
          /\ DOMAIN rest = 1 .. n - 1
          /\ \A i \in 1 .. n - 1 : rest[i] = task_queue[i + 1]
          /\ k = task_queue[1] /\ k \in Tasks
      BY <2>2, HeadTailProperties
    <3> HIDE DEF rest, k, n
    <3>5. \A i \in DOMAIN rest : i + 1 \in DOMAIN task_queue /\ rest[i] = task_queue[i + 1]
      BY <3>2
    <3>6. \A i, j \in DOMAIN rest : i + 1 = j + 1 => i = j
      BY <3>2
    <3>7. 1 \in DOMAIN task_queue /\ \A i \in DOMAIN rest : i + 1 # 1
      BY <3>2
    <3>3. SubmittedInv'
      BY <3>1, <3>2, <3>5, <3>7
    <3>4. OneCopy'
      <4>1. \A i, j \in DOMAIN rest : rest[i] = rest[j] => i = j
        BY <3>5, <3>6
      <4>2. \A i \in DOMAIN rest : rest[i] # k
        BY <3>2, <3>5, <3>7
      <4>3. \A s \in Threads : hand[s] # k /\ arg[s] # k
        BY <3>2, <3>7
      <4>4. \A s \in Threads, i \in DOMAIN rest : rest[i] \notin {hand[s], arg[s]}
        BY <3>5
      <4> QED
        BY <3>1, <4>1, <4>2, <4>3, <4>4
    <3> QED
      BY <3>3, <3>4
  <2> QED
    BY <2>1, <2>2
<1>13. ASSUME NEW t \in Threads, ImplTask(t) PROVE CopyInv'
  BY <1>13 DEF ImplTask, Goto
<1>14. ASSUME NEW t \in Threads, TaskEnd(t) PROVE CopyInv'
  BY <1>14 DEF TaskEnd, Goto
<1>15. ASSUME NEW t \in Threads, DtorLock(t) PROVE CopyInv'
  BY <1>15 DEF DtorLock, Goto
<1>16. ASSUME NEW t \in Threads, DtorClear(t) PROVE CopyInv'
  BY <1>16 DEF DtorClear, Goto
<1>17. ASSUME NEW t \in Threads, DtorNotify(t) PROVE CopyInv'
  BY <1>17 DEF DtorNotify, Goto
<1>18. ASSUME NEW t \in Threads, DtorLast(t) PROVE CopyInv'
  BY <1>18 DEF DtorLast, Goto
<1>19. ASSUME NEW t \in Threads, UseAfterFree(t) PROVE CopyInv'
  BY <1>19 DEF UseAfterFree, Goto
<1>20. QED
  BY <1>1, <1>2, <1>3, <1>4, <1>5, <1>6, <1>7, <1>8, <1>9, <1>10, <1>11, <1>12, <1>13, <1>14, <1>15, <1>16, <1>17, <1>18, <1>19
  DEF TQNext, Member, Call, TQDone

(* The threads on the way are finitely many, before and after a step. *)
LEMMA OnTheWayFinite ==
  /\ IsFiniteSet(OnTheWay) /\ Cardinality(OnTheWay) \in Nat
  /\ IsFiniteSet(OnTheWay') /\ Cardinality(OnTheWay') \in Nat
  BY ThreadsFinite, FS_Subset, FS_CardinalityType DEF OnTheWay

(* A step after which more threads are on the way and the queue is no longer
   than before keeps every sleeper's wakeup. *)
LEMMA MoreOnTheWay ==
  ASSUME TypeOK, TypeOK', NoLostWakeup, Waiters' \subseteq Waiters,
         OnTheWay \subseteq OnTheWay', Len(task_queue') <= Len(task_queue)
  PROVE  NoLostWakeup'
<1>1. Cardinality(OnTheWay) <= Cardinality(OnTheWay')
  BY OnTheWayFinite, FS_Subset
<1>2. Len(task_queue) \in Nat /\ Len(task_queue') \in Nat
  BY DEF TypeOK
<1>3. QED
  BY <1>1, <1>2, OnTheWayFinite DEF NoLostWakeup

(* One step keeps a wakeup on the way for every task a sleeper could take. *)
LEMMA WakeupStep ==
  IInv /\ NoLostWakeup /\ [TQNext]_tqVars => NoLostWakeup'
<1> SUFFICES ASSUME IInv /\ NoLostWakeup, [TQNext]_tqVars PROVE NoLostWakeup'
  OBVIOUS
<1>0. TypeOK /\ TypeOK' /\ NoLostWakeup
  BY TypeStep DEF IInv
<1> USE <1>0
<1>1. CASE UNCHANGED tqVars
  BY <1>1 DEF tqVars, Waiters, OnTheWay, NoLostWakeup
<1>2. ASSUME NEW t \in Threads, NEW k \in Tasks, CallQueue(t, k) PROVE NoLostWakeup'
  <2>1. /\ Waiters' \subseteq Waiters /\ OnTheWay \subseteq OnTheWay'
        /\ task_queue' = task_queue
    BY <1>2 DEF CallQueue, Goto, Waiters, OnTheWay, TypeOK
  <2> QED
    BY <2>1, MoreOnTheWay
<1>3. ASSUME NEW t \in Threads, NEW p \in {"t_try", "d_lock"}, CallTake(t, p) PROVE NoLostWakeup'
  <2>1. /\ Waiters' \subseteq Waiters /\ OnTheWay \subseteq OnTheWay'
        /\ task_queue' = task_queue
    BY <1>3 DEF CallTake, Goto, Waiters, OnTheWay, TypeOK
  <2> QED
    BY <2>1, MoreOnTheWay
<1>4. ASSUME NEW t \in Threads, CallDtor(t) PROVE NoLostWakeup'
  <2>1. /\ Waiters' \subseteq Waiters /\ OnTheWay \subseteq OnTheWay'
        /\ task_queue' = task_queue
    BY <1>4 DEF CallDtor, Goto, Waiters, OnTheWay, TypeOK
  <2> QED
    BY <2>1, MoreOnTheWay
<1>5. ASSUME NEW t \in Threads, SpuriousWake(t) PROVE NoLostWakeup'
  <2>1. /\ Waiters' \subseteq Waiters /\ OnTheWay \subseteq OnTheWay'
        /\ task_queue' = task_queue
    BY <1>5 DEF SpuriousWake, Goto, Waiters, OnTheWay, TypeOK
  <2> QED
    BY <2>1, MoreOnTheWay
<1>6. ASSUME NEW t \in Threads, QueueLock(t) PROVE NoLostWakeup'
  <2>1. /\ Waiters' \subseteq Waiters /\ OnTheWay \subseteq OnTheWay'
        /\ task_queue' = task_queue
    BY <1>6 DEF QueueLock, Goto, Waiters, OnTheWay, TypeOK
  <2> QED
    BY <2>1, MoreOnTheWay
<1>7. ASSUME NEW t \in Threads, QueueEmplace(t) PROVE NoLostWakeup'
  <2>1. Waiters' = Waiters /\ OnTheWay' = OnTheWay \cup {t} /\ t \notin OnTheWay
    BY <1>7 DEF QueueEmplace, Goto, Waiters, OnTheWay, TypeOK
  <2>2. Cardinality(OnTheWay') = Cardinality(OnTheWay) + 1
    BY <2>1, OnTheWayFinite, FS_AddElement
  <2>3. Len(task_queue') = Len(task_queue) + 1 /\ Len(task_queue) \in Nat
    BY <1>7, AppendProperties DEF QueueEmplace, TypeOK
  <2> QED
    BY <2>1, <2>2, <2>3, OnTheWayFinite DEF NoLostWakeup
<1>8. ASSUME NEW t \in Threads, QueueNotify(t) PROVE NoLostWakeup'
  <2>1. CASE Waiters = {}
    <3>1. Waiters' = {}
      BY <1>8, <2>1 DEF QueueNotify, Waiters, TypeOK
    <3> QED
      BY <3>1 DEF NoLostWakeup
  <2>2. CASE Waiters # {}
    <3>1. PICK w \in Waiters :
            at' = [[at EXCEPT ![t] = IF hand[t] # NoTask THEN "run" ELSE "out"]
                     EXCEPT ![w] = "d_woken"]
      BY <1>8, <2>2 DEF QueueNotify
    <3>2. /\ t \in OnTheWay /\ w \notin OnTheWay
          /\ OnTheWay' = (OnTheWay \ {t}) \cup {w}
      BY <1>8, <3>1 DEF QueueNotify, Waiters, OnTheWay, TypeOK
    <3>3. Cardinality(OnTheWay') = Cardinality(OnTheWay)
      <4>1. /\ IsFiniteSet(OnTheWay \ {t})
            /\ Cardinality(OnTheWay \ {t}) = Cardinality(OnTheWay) - 1
        BY <3>2, OnTheWayFinite, FS_RemoveElement
      <4>2. Cardinality((OnTheWay \ {t}) \cup {w}) = Cardinality(OnTheWay \ {t}) + 1
        BY <3>2, <4>1, FS_AddElement
      <4> QED
        BY <3>2, <4>1, <4>2, OnTheWayFinite
    <3> QED
      BY <1>8, <2>2, <3>3 DEF QueueNotify, NoLostWakeup
  <2> QED
    BY <2>1, <2>2
<1>9. ASSUME NEW t \in Threads, TryLock(t) PROVE NoLostWakeup'
  <2>1. /\ Waiters' \subseteq Waiters /\ OnTheWay \subseteq OnTheWay'
        /\ task_queue' = task_queue
    BY <1>9 DEF TryLock, Goto, Waiters, OnTheWay, TypeOK
  <2> QED
    BY <2>1, MoreOnTheWay
<1>10. ASSUME NEW t \in Threads, WaitLock(t) PROVE NoLostWakeup'
  <2>1. /\ Waiters' \subseteq Waiters /\ OnTheWay \subseteq OnTheWay'
        /\ task_queue' = task_queue
    BY <1>10 DEF WaitLock, Goto, Waiters, OnTheWay, TypeOK
  <2> QED
    BY <2>1, MoreOnTheWay
<1>11. ASSUME NEW t \in Threads, WaitCheck(t) PROVE NoLostWakeup'
  <2>1. CASE task_queue = <<>>
    BY <1>11, <2>1, OnTheWayFinite, Len(<<>>) = 0
    DEF WaitCheck, NoLostWakeup
  <2>2. CASE task_queue # <<>>
    <3>1. /\ Waiters' \subseteq Waiters /\ OnTheWay \subseteq OnTheWay'
          /\ task_queue' = task_queue
      BY <1>11, <2>2 DEF WaitCheck, Goto, Waiters, OnTheWay, TypeOK
    <3> QED
      BY <3>1, MoreOnTheWay
  <2> QED
    BY <2>1, <2>2
<1>12. ASSUME NEW t \in Threads, ImplPop(t) PROVE NoLostWakeup'
  <2>1. CASE task_queue = <<>>
    BY <1>12, <2>1, OnTheWayFinite, Len(<<>>) = 0
    DEF ImplPop, NoLostWakeup
  <2>2. CASE task_queue # <<>>
    <3>1. Waiters' = Waiters /\ OnTheWay' = OnTheWay \ {t} /\ t \in OnTheWay
      BY <1>12, <2>2 DEF ImplPop, Goto, Waiters, OnTheWay, TypeOK
    <3>2. Cardinality(OnTheWay') = Cardinality(OnTheWay) - 1
      BY <3>1, OnTheWayFinite, FS_RemoveElement
    <3>3. Len(task_queue') = Len(task_queue) - 1 /\ Len(task_queue) \in Nat
      BY <1>12, <2>2, HeadTailProperties DEF ImplPop, TypeOK
    <3> QED
      BY <3>1, <3>2, <3>3, OnTheWayFinite DEF NoLostWakeup
  <2> QED
    BY <2>1, <2>2
<1>13. ASSUME NEW t \in Threads, ImplTask(t) PROVE NoLostWakeup'
  <2>1. /\ Waiters' \subseteq Waiters /\ OnTheWay \subseteq OnTheWay'
        /\ task_queue' = task_queue
    BY <1>13 DEF ImplTask, Goto, Waiters, OnTheWay, TypeOK
  <2> QED
    BY <2>1, MoreOnTheWay
<1>14. ASSUME NEW t \in Threads, TaskEnd(t) PROVE NoLostWakeup'
  <2>1. /\ Waiters' \subseteq Waiters /\ OnTheWay \subseteq OnTheWay'
        /\ task_queue' = task_queue
    BY <1>14 DEF TaskEnd, Goto, Waiters, OnTheWay, TypeOK
  <2> QED
    BY <2>1, MoreOnTheWay
<1>15. ASSUME NEW t \in Threads, DtorLock(t) PROVE NoLostWakeup'
  <2>1. /\ Waiters' \subseteq Waiters /\ OnTheWay \subseteq OnTheWay'
        /\ task_queue' = task_queue
    BY <1>15 DEF DtorLock, Goto, Waiters, OnTheWay, TypeOK
  <2> QED
    BY <2>1, MoreOnTheWay
<1>16. ASSUME NEW t \in Threads, DtorClear(t) PROVE NoLostWakeup'
  BY <1>16, OnTheWayFinite DEF DtorClear, NoLostWakeup
<1>17. ASSUME NEW t \in Threads, DtorNotify(t) PROVE NoLostWakeup'
  BY <1>17 DEF DtorNotify, Waiters, TypeOK, NoLostWakeup
<1>18. ASSUME NEW t \in Threads, DtorLast(t) PROVE NoLostWakeup'
  <2>1. /\ Waiters' \subseteq Waiters /\ OnTheWay \subseteq OnTheWay'
        /\ task_queue' = task_queue
    BY <1>18 DEF DtorLast, Goto, Waiters, OnTheWay, TypeOK
  <2> QED
    BY <2>1, MoreOnTheWay
<1>19. ASSUME NEW t \in Threads, UseAfterFree(t) PROVE NoLostWakeup'
  <2>1. /\ Waiters' \subseteq Waiters /\ OnTheWay \subseteq OnTheWay'
        /\ task_queue' = task_queue
    BY <1>19 DEF UseAfterFree, Goto, Waiters, OnTheWay, TypeOK
  <2> QED
    BY <2>1, MoreOnTheWay
<1>20. QED
  BY <1>1, <1>2, <1>3, <1>4, <1>5, <1>6, <1>7, <1>8, <1>9, <1>10, <1>11, <1>12, <1>13, <1>14, <1>15, <1>16, <1>17, <1>18, <1>19
  DEF TQNext, Member, Call, TQDone

-----------------------------------------------------------------------------
(* The invariant holds initially. *)
LEMMA InvInit == TQInit => IInv /\ CopyInv /\ NoLostWakeup
<1> SUFFICES ASSUME TQInit PROVE IInv /\ CopyInv /\ NoLostWakeup
  OBVIOUS
<1> USE TaskQueueAssumption DEF TQInit
<1>1. TypeOK
  <2>1. <<>> \in Seq(Tasks) /\ "out" \in Places /\ "alive" \in {"alive", "closing", "destroyed"}
    BY DEF Places
  <2> QED
    BY <2>1 DEF TypeOK
<1>2. LockInv /\ HandInv
  BY DEF LockInv, HandInv, HoldsQueue, HoldsTask, Running, HandPlaces,
         ArgPlaces, QueuePlaces
<1>3. LifeInv
  BY DEF LifeInv, DtorInv, SleepInv, DtorPlaces
<1>4. CopyInv
  BY DEF CopyInv, OneCopy, SubmittedInv
<1>5. NoLostWakeup
  BY DEF NoLostWakeup, Waiters
<1>6. QED
  BY <1>1, <1>2, <1>3, <1>4, <1>5 DEF IInv

(* Every step keeps it. *)
LEMMA InvStep ==
  IInv /\ CopyInv /\ NoLostWakeup /\ [TQNext]_tqVars
    => IInv' /\ CopyInv' /\ NoLostWakeup'
  BY TypeStep, LockStep, HandStep, DtorStep, SleepStep, CopyStep, WakeupStep
  DEF IInv, LifeInv

LEMMA Inductive == TQSpec => [](IInv /\ CopyInv /\ NoLostWakeup)
  BY InvInit, InvStep, PTL DEF TQSpec

(* Every variable keeps its type: no thread passes a moved-from task on. *)
THEOREM TypeCorrect == TQSpec => []TypeOK
  BY Inductive, PTL DEF IInv

(* Tasks of one queue never run at the same time, whatever threads execute
   it and however often tasks queue further tasks: task_mtx_ does its job. *)
THEOREM TasksExclude == TQSpec => []TaskExclusion
<1>1. IInv => TaskExclusion
  BY TaskQueueAssumption DEF IInv, LockInv, TaskExclusion
<1>2. QED
  BY <1>1, Inductive, PTL

(* A task is taken by one thread once, between the two mutexes too. *)
THEOREM TasksNotCopied == TQSpec => []OneCopy
  BY Inductive, PTL DEF CopyInv

(* notify_one after the unlock loses no wakeup, for any number of threads. *)
THEOREM WakeupsNotLost == TQSpec => []NoLostWakeup
  BY Inductive, PTL

(* The destructor leaves no thread asleep on the condition variable. *)
THEOREM NobodySleeps == TQSpec => []NobodySleepsOnDestroyed
<1>1. IInv => NobodySleepsOnDestroyed
  BY DEF IInv, LifeInv, SleepInv, NobodySleepsOnDestroyed
<1>2. QED
  BY <1>1, Inductive, PTL

-----------------------------------------------------------------------------
(* The loops                                                                 *)
(* A sequence followed by one with an element appended. *)
LEMMA ConcatAppend ==
  ASSUME NEW S, NEW p \in Seq(S), NEW q \in Seq(S), NEW e \in S
  PROVE  p \o Append(q, e) = Append(p \o q, e)
  OBVIOUS

(* A first element put before a sequence. *)
LEMMA Front ==
  ASSUME NEW S, NEW h \in S, NEW q \in Seq(S)
  PROVE  /\ <<>> \o q = q
         /\ <<h>> \o q # <<>>
         /\ Head(<<h>> \o q) = h
         /\ Tail(<<h>> \o q) = q
  OBVIOUS

(* A sequence is its first element and the rest. *)
LEMMA HeadTail ==
  ASSUME NEW S, NEW q \in Seq(S), q # <<>>
  PROVE  <<Head(q)>> \o Tail(q) = q
  OBVIOUS

\* Which thread may stand where: the worker in its loop, the owner in the
\* destructor of the queue, the clients in queue(); only the worker takes tasks.
PlaceInv ==
  /\ at[Worker] \in {"out", "run", "d_lock", "d_check", "d_wait", "d_woken",
                     "i_pop", "i_task"} \cup QueuePlaces
  /\ at[Owner] \in {"out"} \cup DtorPlaces
  /\ \A c \in Clients : at[c] \in {"out"} \cup QueuePlaces
  /\ \A t \in Threads : hand[t] # NoTask => t = Worker

\* What a shutdown has done so far: the clients have left before it begins, the
\* destructor runs in reset(), and nobody is inside when it has returned.
ShutdownInv ==
  /\ loop \in {"deref", "exited"} => at[Worker] = "out"
  /\ at[Owner] \in DtorPlaces => owner = "reset"
  /\ owner # "idle" => \A c \in Clients : at[c] = "out"
  /\ owner = "joined" => loop = "exited" /\ at[Owner] = "out"

AWInv == AWTypeOK /\ PlaceInv /\ ShutdownInv

-----------------------------------------------------------------------------
(* Every step of the worker is a step of its queue, or leaves it alone.      *)
LEMMA QueueOrStutter == [AWNext]_vars => [TQNext]_tqVars
<1> SUFFICES ASSUME [AWNext]_vars PROVE [TQNext]_tqVars
  OBVIOUS
<1> USE ActiveWorkerAssumption DEF TQNext, Call
<1>1. CASE UNCHANGED vars
  BY <1>1 DEF vars
<1>2. CASE WorkerTest
  BY <1>2 DEF WorkerTest
<1>3. CASE WorkerDeref
  BY <1>3 DEF WorkerDeref
<1>4. CASE WorkerSpuriousWake
  BY <1>4 DEF WorkerSpuriousWake
<1>5. ASSUME NEW t \in Threads, QueueStep(t) PROVE TQNext
  BY <1>5 DEF QueueStep
<1>6. ASSUME NEW t \in Threads, NEW k \in Tasks, QueueTask(t, k) PROVE [TQNext]_tqVars
  BY <1>6 DEF QueueTask
<1>7. CASE ShutdownStop
  BY <1>7 DEF ShutdownStop
<1>8. CASE ShutdownReset
  BY <1>8 DEF ShutdownReset
<1>9. CASE ShutdownJoin
  BY <1>9 DEF ShutdownJoin
<1>10. QED
  BY <1>1, <1>2, <1>3, <1>4, <1>5, <1>6, <1>7, <1>8, <1>9 DEF AWNext, AWDone, vars

(* The steps inside a member function keep every thread where it may be. *)
LEMMA MemberPlaces ==
  ASSUME AWInv, IInv, NEW t \in Threads, Member(t), UNCHANGED awVars
  PROVE  PlaceInv' /\ ShutdownInv'
<1> USE ActiveWorkerAssumption
    DEF AWInv, IInv, TypeOK, HandInv, HandPlaces, PlaceInv, ShutdownInv, Goto,
        QueuePlaces, DtorPlaces, Clients, Waiters, awVars
<1>1. CASE QueueLock(t)
  BY <1>1 DEF QueueLock
<1>2. CASE QueueEmplace(t)
  BY <1>2 DEF QueueEmplace
<1>3. CASE QueueNotify(t)
  BY <1>3 DEF QueueNotify
<1>4. CASE TryLock(t)
  BY <1>4 DEF TryLock
<1>5. CASE WaitLock(t)
  BY <1>5 DEF WaitLock
<1>6. CASE WaitCheck(t)
  BY <1>6 DEF WaitCheck
<1>7. CASE ImplPop(t)
  BY <1>7 DEF ImplPop
<1>8. CASE ImplTask(t)
  BY <1>8 DEF ImplTask
<1>9. CASE TaskEnd(t)
  BY <1>9 DEF TaskEnd
<1>10. CASE DtorLock(t)
  BY <1>10 DEF DtorLock
<1>11. CASE DtorClear(t)
  BY <1>11 DEF DtorClear
<1>12. CASE DtorNotify(t)
  BY <1>12 DEF DtorNotify
<1>13. CASE DtorLast(t)
  BY <1>13 DEF DtorLast
<1>14. CASE UseAfterFree(t)
  BY <1>14 DEF UseAfterFree
<1>15. QED
  BY <1>1, <1>2, <1>3, <1>4, <1>5, <1>6, <1>7, <1>8, <1>9, <1>10, <1>11, <1>12, <1>13, <1>14 DEF Member

(* The invariant of the worker holds initially and every step keeps it. *)
LEMMA AWInvInit == AWInit => AWInv
  BY InvInit, ActiveWorkerAssumption
  DEF AWInit, TQInit, AWInv, IInv, AWTypeOK, PlaceInv, ShutdownInv, Clients, DtorPlaces

LEMMA AWInvStep ==
  ASSUME AWInv, IInv, IInv', [AWNext]_vars
  PROVE  AWInv'
<1> USE ActiveWorkerAssumption
<1>1. TypeOK'
  BY DEF IInv
<1>2. CASE UNCHANGED vars
  BY <1>2 DEF vars, tqVars, awVars, AWInv, AWTypeOK, TypeOK, PlaceInv, ShutdownInv, Clients
<1>3. ASSUME NEW t \in Threads, QueueStep(t) PROVE AWInv'
  <2>1. PlaceInv' /\ ShutdownInv'
    BY <1>3, MemberPlaces DEF QueueStep
  <2>2. AWTypeOK'
    BY <1>1, <1>3 DEF QueueStep, AWInv, AWTypeOK, awVars
  <2>3. QED
    BY <2>1, <2>2 DEF AWInv
<1>4. ASSUME NEW t \in Threads, NEW k \in Tasks, QueueTask(t, k) PROVE AWInv'
  BY <1>1, <1>4 DEF QueueTask, CallQueue, Goto, tqVars, AWInv, AWTypeOK, TypeOK,
    PlaceInv, ShutdownInv, Clients, QueuePlaces, DtorPlaces
<1>5. CASE WorkerTest
  BY <1>1, <1>5 DEF WorkerTest, tqVars, AWInv, AWTypeOK, PlaceInv, ShutdownInv, Clients
<1>6. CASE WorkerDeref
  BY <1>1, <1>6 DEF WorkerDeref, CallTake, Goto, tqVars, AWInv, AWTypeOK, TypeOK,
    PlaceInv, ShutdownInv, Clients, QueuePlaces, DtorPlaces
<1>7. CASE WorkerSpuriousWake
  BY <1>1, <1>7 DEF WorkerSpuriousWake, SpuriousWake, Goto, awVars, AWInv, AWTypeOK, TypeOK,
    PlaceInv, ShutdownInv, Clients, QueuePlaces, DtorPlaces
<1>8. CASE ShutdownStop
  BY <1>1, <1>8 DEF ShutdownStop, tqVars, AWInv, AWTypeOK, PlaceInv, ShutdownInv, Clients
<1>9. CASE ShutdownReset
  BY <1>1, <1>9 DEF ShutdownReset, CallDtor, Goto, AWInv, AWTypeOK, TypeOK,
    PlaceInv, ShutdownInv, Clients, QueuePlaces, DtorPlaces
<1>10. CASE ShutdownJoin
  BY <1>1, <1>10 DEF ShutdownJoin, tqVars, AWInv, AWTypeOK, PlaceInv, ShutdownInv, Clients, DtorPlaces
<1>11. QED
  BY <1>2, <1>3, <1>4, <1>5, <1>6, <1>7, <1>8, <1>9, <1>10 DEF AWNext, AWDone

-----------------------------------------------------------------------------
(* A thread that is inside is inside before the shutdown returns. *)
LEMMA InsideBeforeJoined ==
  ASSUME AWInv, NEW t \in Threads, at[t] # "out"
  PROVE  owner # "joined"
  BY DEF AWInv, PlaceInv, ShutdownInv, Clients

(* A step after which the worker runs the same task, or none, has the same task
   in its hand, and the same queue behind it, is invisible in the abstraction. *)
LEMMA Invisible ==
  ASSUME owner' = owner, task_queue' = task_queue, hand'[Worker] = hand[Worker],
         Running(Worker)' <=> Running(Worker),
         at'[Worker] = "i_task" <=> at[Worker] = "i_task"
  PROVE  UNCHANGED Abstract!seVars
  BY DEF Abstract!seVars, Waiting, Current, Phase, Taken

(* The steps on the queue that show: Submit, Skip, Begin, End and Drop. *)
LEMMA MemberSteps ==
  ASSUME AWInv, IInv, NEW t \in Threads, Member(t), UNCHANGED awVars
  PROVE  [Abstract!SENext]_(Abstract!seVars)
<1> USE ActiveWorkerAssumption, TaskQueueAssumption
    DEF AWInv, IInv, TypeOK, HandInv, HandPlaces, ArgPlaces, PlaceInv, ShutdownInv,
        Goto, QueuePlaces, DtorPlaces, Clients, Running, awVars
<1>1. ASSUME QueueLock(t) PROVE UNCHANGED Abstract!seVars
  BY <1>1, Invisible DEF QueueLock, Waiters
<1>2. ASSUME QueueNotify(t) PROVE UNCHANGED Abstract!seVars
  BY <1>2, Invisible DEF QueueNotify, Waiters
<1>3. ASSUME TryLock(t) PROVE UNCHANGED Abstract!seVars
  BY <1>3, Invisible DEF TryLock, Waiters
<1>4. ASSUME WaitLock(t) PROVE UNCHANGED Abstract!seVars
  BY <1>4, Invisible DEF WaitLock, Waiters
<1>5. ASSUME WaitCheck(t) PROVE UNCHANGED Abstract!seVars
  BY <1>5, Invisible DEF WaitCheck, Waiters
<1>6. ASSUME DtorLock(t) PROVE UNCHANGED Abstract!seVars
  BY <1>6, Invisible DEF DtorLock, Waiters
<1>7. ASSUME DtorNotify(t) PROVE UNCHANGED Abstract!seVars
  BY <1>7, Invisible DEF DtorNotify, Waiters
<1>8. ASSUME DtorLast(t) PROVE UNCHANGED Abstract!seVars
  BY <1>8, Invisible DEF DtorLast, Waiters
<1>9. ASSUME UseAfterFree(t) PROVE UNCHANGED Abstract!seVars
  BY <1>9, Invisible DEF UseAfterFree, Waiters
<1>10. ASSUME QueueEmplace(t) PROVE Abstract!Submit
  <2>1. owner # "joined" /\ arg[t] \in Tasks
    BY <1>10, InsideBeforeJoined DEF QueueEmplace
  <2>2. Taken \in Seq(Tasks) /\ Taken' = Taken
    BY <1>10 DEF QueueEmplace, Taken
  <2>3. Taken \o Append(task_queue, arg[t]) = Append(Taken \o task_queue, arg[t])
    BY <2>1, <2>2, ConcatAppend
  <2>4. Waiting' = Append(Waiting, arg[t])
    BY <1>10, <2>1, <2>2, <2>3 DEF QueueEmplace, Waiting
  <2>5. Phase # "closed" /\ Phase' = Phase /\ Current' = Current
    BY <1>10, <2>1 DEF QueueEmplace, Phase, Current
  <2>6. QED
    BY <2>1, <2>4, <2>5 DEF Abstract!Submit
<1>11. ASSUME ImplPop(t) PROVE UNCHANGED Abstract!seVars
  <2>1. t = Worker
    BY <1>11 DEF ImplPop
  <2>2. CASE task_queue = <<>>
    BY <1>11, <2>1, <2>2, Invisible DEF ImplPop
  <2>3. CASE task_queue # <<>>
    <3>1. Taken = <<>> /\ Taken' = <<Head(task_queue)>> /\ task_queue' = Tail(task_queue)
      BY <1>11, <2>1, <2>3 DEF ImplPop, Taken
    <3>2. <<Head(task_queue)>> \o Tail(task_queue) = task_queue /\ <<>> \o task_queue = task_queue
      BY <2>3, HeadTail
    <3>3. Waiting' = Waiting
      BY <3>1, <3>2 DEF Waiting
    <3>4. Current' = Current /\ Phase' = Phase
      BY <1>11, <2>1, <2>3 DEF ImplPop, Current, Phase
    <3>5. QED
      BY <3>3, <3>4 DEF Abstract!seVars
  <2>4. QED
    BY <2>2, <2>3
<1>12. ASSUME ImplTask(t) PROVE Abstract!Skip \/ Abstract!Begin
  <2>1. t = Worker /\ owner # "joined" /\ hand[Worker] \in Tasks
    BY <1>12, InsideBeforeJoined DEF ImplTask
  <2>2. Taken = <<hand[Worker]>> /\ Taken' = <<>> /\ task_queue' = task_queue
    BY <1>12, <2>1 DEF ImplTask, Taken
  <2>3. Waiting # <<>> /\ Head(Waiting) = hand[Worker] /\ Waiting' = Tail(Waiting)
    BY <2>1, <2>2, Front DEF Waiting
  <2>4. Current = NoTask /\ Phase # "closed" /\ Phase' = Phase
    BY <1>12, <2>1 DEF ImplTask, Current, Phase
  <2>5. CASE hand[t] \in Hollow
    BY <1>12, <2>1, <2>3, <2>4, <2>5 DEF ImplTask, Current, Abstract!Skip
  <2>6. CASE hand[t] \notin Hollow
    BY <1>12, <2>1, <2>3, <2>4, <2>6 DEF ImplTask, Current, Abstract!Begin
  <2>7. QED
    BY <2>5, <2>6
<1>13. ASSUME TaskEnd(t) PROVE Abstract!End
  <2>1. t = Worker
    BY <1>13 DEF TaskEnd
  <2>2. QED
    BY <1>13, <2>1 DEF TaskEnd, Abstract!End, Current, Waiting, Phase, Taken
<1>14. ASSUME DtorClear(t) PROVE Abstract!Drop
  <2>1. t = Owner /\ owner = "reset"
    BY <1>14 DEF DtorClear
  <2>2. Phase = "closing" /\ Phase' = Phase /\ Current' = Current
    BY <1>14, <2>1 DEF DtorClear, Phase, Current
  <2>3. Waiting' = Taken /\ Waiting = Taken \o task_queue
    BY <1>14, <2>1, Front DEF DtorClear, Waiting, Taken
  <2>4. CASE at[Worker] = "i_task"
    BY <2>3, <2>4, <2>2, Front DEF Taken, Abstract!Drop
  <2>5. CASE at[Worker] # "i_task"
    BY <2>3, <2>5, <2>2 DEF Taken, Abstract!Drop
  <2>6. QED
    BY <2>4, <2>5
<1>15. QED
  BY <1>1, <1>2, <1>3, <1>4, <1>5, <1>6, <1>7, <1>8, <1>9, <1>10, <1>11, <1>12, <1>13, <1>14 DEF Member, Abstract!SENext

(* Every step of the worker is one of the abstract executor, or invisible. *)
LEMMA StepRefines ==
  ASSUME AWInv, IInv, [AWNext]_vars
  PROVE  [Abstract!SENext]_(Abstract!seVars)
<1> USE ActiveWorkerAssumption, TaskQueueAssumption
    DEF AWInv, IInv, TypeOK, PlaceInv, ShutdownInv, Goto, QueuePlaces, DtorPlaces,
        Clients, Running
<1>1. CASE UNCHANGED vars
  BY <1>1, Invisible DEF vars, tqVars, awVars
<1>2. ASSUME NEW t \in Threads, QueueStep(t) PROVE [Abstract!SENext]_(Abstract!seVars)
  BY <1>2, MemberSteps DEF QueueStep
<1>3. ASSUME NEW t \in Threads, NEW k \in Tasks, QueueTask(t, k)
      PROVE  UNCHANGED Abstract!seVars
  BY <1>3, Invisible DEF QueueTask, CallQueue, tqVars
<1>4. CASE WorkerTest
  BY <1>4, Invisible DEF WorkerTest, tqVars
<1>5. CASE WorkerDeref
  BY <1>5, Invisible DEF WorkerDeref, CallTake, tqVars
<1>6. CASE WorkerSpuriousWake
  BY <1>6, Invisible DEF WorkerSpuriousWake, SpuriousWake, awVars
<1>7. CASE ShutdownStop
  <2>1. Abstract!Shutdown
    BY <1>7 DEF ShutdownStop, tqVars, Abstract!Shutdown, Waiting, Current, Phase, Taken
  <2>2. QED
    BY <2>1 DEF Abstract!SENext
<1>8. CASE ShutdownReset
  <2>1. UNCHANGED Abstract!seVars
    BY <1>8 DEF ShutdownReset, CallDtor, Abstract!seVars, Waiting, Current, Phase, Taken
  <2>2. QED
    BY <2>1
<1>9. CASE ShutdownJoin
  <2>1. Abstract!Closed
    BY <1>9 DEF ShutdownJoin, tqVars, Abstract!Closed, Waiting, Current, Phase, HandInv
  <2>2. QED
    BY <2>1 DEF Abstract!SENext
<1>10. QED
  BY <1>1, <1>2, <1>3, <1>4, <1>5, <1>6, <1>7, <1>8, <1>9 DEF AWNext, AWDone

LEMMA AWInductive == AWSpec => [](AWInv /\ IInv /\ CopyInv /\ NoLostWakeup)
<1>1. AWInit => AWInv /\ IInv /\ CopyInv /\ NoLostWakeup
  BY AWInvInit, InvInit DEF AWInit
<1>2. AWInv /\ IInv /\ CopyInv /\ NoLostWakeup /\ [AWNext]_vars
        => AWInv' /\ IInv' /\ CopyInv' /\ NoLostWakeup'
  BY AWInvStep, InvStep, QueueOrStutter
<1>3. QED
  BY <1>1, <1>2, PTL DEF AWSpec

(* The variables of a worker keep their types. *)
THEOREM WorkerTypeCorrect == AWSpec => []AWTypeOK
  BY AWInductive, PTL DEF AWInv

(* A worker runs its tasks one at a time, each once, in the order of queueing;
   its shutdown drops those that wait, lets the running one end, and leaves
   nothing running: for any number of clients and tasks, wherever the shutdown
   finds the worker. *)
THEOREM WorkerIsSerialExecutor == AWSpec => ImplementsSerialExecutor
<1>1. AWInit => Abstract!SEInit
  <2> SUFFICES ASSUME AWInit PROVE Abstract!SEInit
    OBVIOUS
  <2>1. Taken = <<>> /\ task_queue = <<>> /\ ~Running(Worker)
    BY ActiveWorkerAssumption DEF AWInit, TQInit, Taken, Running
  <2>2. QED
    BY <2>1 DEF AWInit, Abstract!SEInit, Waiting, Current, Phase
<1>2. AWInv /\ IInv /\ [AWNext]_vars => [Abstract!SENext]_(Abstract!seVars)
  BY StepRefines
<1>3. QED
  BY <1>1, <1>2, AWInductive, PTL DEF AWSpec, ImplementsSerialExecutor, Abstract!SESpec

-----------------------------------------------------------------------------
(* The main loop.                                                            *)

\* Only the main thread takes tasks, and only in its loop.
MainOnly ==
  /\ \A t \in Threads \ {Main} : at[t] \in {"out"} \cup QueuePlaces
  /\ \A t \in Threads : hand[t] # NoTask => t = Main
  /\ at[Main] \in {"out", "run"} \cup QueuePlaces \cup TakePlaces

\* Once exit() was called during run() the flag stays cleared, and a task begun
\* since then is the last: the main thread takes no other.
ExitInv ==
  /\ exits = "yes" => ~running /\ place # "before"
  /\ place = "before" => late = {}
  /\ late # {} => exits = "yes" /\ at[Main] \notin TakePlaces
  /\ late # {} => \E k \in Tasks : late = {k}

MLInv == MLTypeOK /\ MainOnly /\ ExitInv

-----------------------------------------------------------------------------
(* Every step of the main loop is a step of its queue, or leaves it alone.   *)
LEMMA LoopQueueOrStutter ==
  ASSUME MLTypeOK, [MLNext]_mlVars
  PROVE  [TQNext]_tqVars
<1> USE MainLoopAssumption DEF TQNext, Call
<1>1. CASE UNCHANGED mlVars
  BY <1>1 DEF mlVars
<1>2. CASE Run
  BY <1>2 DEF Run
<1>3. CASE Test
  BY <1>3 DEF Test
<1>4. CASE MainSpuriousWake
  BY <1>4 DEF MainSpuriousWake
<1>5. ASSUME NEW t \in Threads, MLQueueStep(t) PROVE TQNext
  BY <1>5 DEF MLQueueStep
<1>6. ASSUME NEW t \in Threads, Exit(t) PROVE UNCHANGED tqVars
  BY <1>6 DEF Exit
<1>7. ASSUME NEW t \in Threads, MLQueueTask(t) PROVE UNCHANGED tqVars
  BY <1>7 DEF MLQueueTask
<1>8. ASSUME NEW t \in Threads, TodoQueue(t) PROVE TQNext
  BY <1>8 DEF TodoQueue, MLTypeOK
<1>9. QED
  BY <1>1, <1>2, <1>3, <1>4, <1>5, <1>6, <1>7, <1>8 DEF MLNext, MLDone, mlVars

(* The steps inside a member function: only ImplTask begins a task, and the main
   thread is the one that takes it. *)
LEMMA MemberKeeps ==
  ASSUME MLInv, IInv, NEW t \in Threads, MLQueueStep(t)
  PROVE  MainOnly' /\ ExitInv'
<1> USE MainLoopAssumption, TaskQueueAssumption
    DEF MLInv, MLTypeOK, IInv, TypeOK, HandInv, HandPlaces, MainOnly, ExitInv, Goto,
        QueuePlaces, TakePlaces, Waiters, MLQueueStep
<1>1. CASE QueueLock(t)
  BY <1>1 DEF QueueLock
<1>2. CASE QueueEmplace(t)
  BY <1>2 DEF QueueEmplace
<1>3. CASE QueueNotify(t)
  BY <1>3 DEF QueueNotify
<1>4. CASE TryLock(t)
  BY <1>4 DEF TryLock
<1>5. CASE WaitLock(t)
  BY <1>5 DEF WaitLock
<1>6. CASE WaitCheck(t)
  BY <1>6 DEF WaitCheck
<1>7. CASE ImplPop(t)
  BY <1>7 DEF ImplPop
<1>8. CASE ImplTask(t)
  BY <1>8 DEF ImplTask
<1>9. CASE TaskEnd(t)
  BY <1>9 DEF TaskEnd
<1>10. CASE DtorLock(t)
  BY <1>10 DEF DtorLock
<1>11. CASE DtorClear(t)
  BY <1>11 DEF DtorClear
<1>12. CASE DtorNotify(t)
  BY <1>12 DEF DtorNotify
<1>13. CASE DtorLast(t)
  BY <1>13 DEF DtorLast
<1>14. CASE UseAfterFree(t)
  BY <1>14 DEF UseAfterFree
<1>15. QED
  BY <1>1, <1>2, <1>3, <1>4, <1>5, <1>6, <1>7, <1>8, <1>9, <1>10, <1>11, <1>12, <1>13, <1>14 DEF Member

LEMMA MLInvInit == MLInit => MLInv
  BY InvInit, MainLoopAssumption
  DEF MLInit, TQInit, MLInv, IInv, MLTypeOK, MainOnly, ExitInv

LEMMA MLInvStep ==
  ASSUME MLInv, IInv, IInv', [MLNext]_mlVars
  PROVE  MLInv'
<1> USE MainLoopAssumption, TaskQueueAssumption
<1>1. TypeOK'
  BY DEF IInv
<1>2. CASE UNCHANGED mlVars
  BY <1>2 DEF mlVars, tqVars, loopVars, MLInv, MLTypeOK, TypeOK, MainOnly, ExitInv
<1>3. ASSUME NEW t \in Threads, MLQueueStep(t) PROVE MLInv'
  <2>1. MainOnly' /\ ExitInv'
    BY <1>3, MemberKeeps
  <2>2. MLTypeOK'
    BY <1>1, <1>3 DEF MLQueueStep, MLInv, MLTypeOK, TypeOK, IInv, HandInv
  <2>3. QED
    BY <2>1, <2>2 DEF MLInv
<1> USE DEF MLInv, MLTypeOK, TypeOK, MainOnly, ExitInv, tqVars
<1>4. CASE Run
  BY <1>1, <1>4 DEF Run
<1>5. CASE Test
  BY <1>1, <1>5 DEF Test, CallTake, Goto, TakePlaces
<1>6. CASE MainSpuriousWake
  BY <1>1, <1>6 DEF MainSpuriousWake, SpuriousWake, Goto, loopVars, TakePlaces
<1>7. ASSUME NEW t \in Threads, Exit(t) PROVE MLInv'
  BY <1>1, <1>7 DEF Exit
<1>8. ASSUME NEW t \in Threads, MLQueueTask(t) PROVE MLInv'
  BY <1>1, <1>8 DEF MLQueueTask
<1>9. ASSUME NEW t \in Threads, TodoQueue(t) PROVE MLInv'
  BY <1>1, <1>9 DEF TodoQueue, CallQueue, Goto, QueuePlaces, TakePlaces
<1>10. QED
  BY <1>2, <1>3, <1>4, <1>5, <1>6, <1>7, <1>8, <1>9 DEF MLNext, MLDone, mlVars

LEMMA MLInductive == MLSpec => [](MLInv /\ IInv /\ CopyInv /\ NoLostWakeup)
<1>1. MLInit => MLInv /\ IInv /\ CopyInv /\ NoLostWakeup
  BY MLInvInit, InvInit DEF MLInit
<1>2. MLInv /\ IInv /\ CopyInv /\ NoLostWakeup /\ [MLNext]_mlVars
        => MLInv' /\ IInv' /\ CopyInv' /\ NoLostWakeup'
  BY MLInvStep, InvStep, LoopQueueOrStutter DEF MLInv
<1>3. QED
  BY <1>1, <1>2, PTL DEF MLSpec

(* The variables of the main loop keep their types. *)
THEOREM LoopTypeCorrect == MLSpec => []MLTypeOK
  BY MLInductive, PTL DEF MLInv

(* However many threads call exit() and queue_task() at the same time, and
   however many tasks are queued, one task at most begins after exit(). *)
THEOREM LoopStopsSoon == MLSpec => []OneTaskAfterExit
<1>1. MLInv => OneTaskAfterExit
  <2>1. ASSUME NEW k \in Tasks, late = {k} PROVE Cardinality(late) = 1
    BY <2>1, FS_Singleton
  <2>2. ASSUME late = {} PROVE Cardinality(late) = 0
    BY <2>2, FS_EmptySet
  <2>3. QED
    BY <2>1, <2>2 DEF MLInv, ExitInv, OneTaskAfterExit
<1>2. QED
  BY <1>1, MLInductive, PTL
=============================================================================
