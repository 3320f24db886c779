--------------------------- MODULE ThreadPoolProofs ---------------------------
(***************************************************************************)
(* The safety properties of thread_pool for every number of callers, tasks *)
(* and strands, whatever tasks throw and whatever workers are reaped.      *)
(***************************************************************************)
EXTENDS ThreadPool, SequenceTheorems, FiniteSetTheorems, WellFoundedInduction, TLAPS

(* The positions of a sequence after its first element is taken.             *)
LEMMA TailPositions ==
  ASSUME NEW S, NEW q \in Seq(S), q # <<>>
  PROVE  /\ Len(q) \in Nat \ {0} /\ DOMAIN q = 1 .. Len(q)
         /\ Len(Tail(q)) = Len(q) - 1
         /\ DOMAIN Tail(q) = 1 .. Len(q) - 1
         /\ \A i \in 1 .. Len(q) - 1 : Tail(q)[i] = q[i + 1]
         /\ Head(q) = q[1] /\ Head(q) \in S
<1>1. Tail(q) \in Seq(S) /\ Len(Tail(q)) = Len(q) - 1 /\ Head(q) \in S
  BY HeadTailProperties
<1>2. \A i \in 1 .. Len(Tail(q)) : Tail(q)[i] = q[i + 1]
  BY HeadTailProperties
<1>3. Len(q) \in Nat \ {0} /\ DOMAIN q = 1 .. Len(q) /\ Head(q) = q[1]
  OBVIOUS
<1>4. QED
  BY <1>1, <1>2, <1>3

(* The elements of a sequence after an Append and after a Tail. *)
LEMMA AppendRange ==
  ASSUME NEW S, NEW q \in Seq(S), NEW e
  PROVE  Range(Append(q, e)) = Range(q) \cup {e}
<1>1. /\ Len(q) \in Nat /\ DOMAIN q = 1 .. Len(q)
      /\ DOMAIN Append(q, e) = 1 .. Len(q) + 1 /\ Append(q, e)[Len(q) + 1] = e
      /\ \A i \in 1 .. Len(q) : Append(q, e)[i] = q[i]
  OBVIOUS
<1>2. QED
  BY <1>1 DEF Range

LEMMA TailRange ==
  ASSUME NEW S, NEW q \in Seq(S), q # <<>>
  PROVE  Range(q) = {Head(q)} \cup Range(Tail(q))
<1>1. ASSUME NEW x \in Range(q) PROVE x = Head(q) \/ x \in Range(Tail(q))
  <2>1. PICK i \in 1 .. Len(q) : q[i] = x
    BY DEF Range
  <2>2. CASE i = 1
    BY <2>1, <2>2, TailPositions
  <2>3. CASE i # 1
    <3>1. i - 1 \in DOMAIN Tail(q) /\ Tail(q)[i - 1] = x
      BY <2>1, <2>3, TailPositions
    <3>2. QED
      BY <3>1 DEF Range
  <2>4. QED
    BY <2>2, <2>3
<1>2. ASSUME NEW x \in Range(Tail(q)) PROVE x \in Range(q)
  <2>1. PICK i \in 1 .. Len(q) - 1 : Tail(q)[i] = x
    BY TailPositions DEF Range
  <2>2. i + 1 \in DOMAIN q /\ q[i + 1] = x
    BY <2>1, TailPositions
  <2>3. QED
    BY <2>2 DEF Range
<1>3. Head(q) \in Range(q)
  BY TailPositions DEF Range
<1>4. QED
  BY <1>1, <1>2, <1>3

(* A set of numbers that is not empty has a least element, and Min is it. *)
LEMMA MinOfNumbers ==
  ASSUME NEW T \in SUBSET Nat, T # {}
  PROVE  Min(T) \in T /\ \A y \in T : Min(T) <= y
<1> DEFINE R == {ss \in Nat \X Nat : ss[1] < ss[2]}
<1>1. IsWellFoundedOn(R, Nat)
  BY NatLessThanWellFounded DEF OpToRel
<1>2. PICK x \in T : \A y \in T : <<y, x>> \notin R
  <2> HIDE DEF R
  <2> QED
    BY <1>1, WFMin
<1>3. ASSUME NEW y \in T PROVE x <= y
  <2>1. <<y, x>> \in Nat \X Nat /\ <<y, x>>[1] = y /\ <<y, x>>[2] = x
    OBVIOUS
  <2>2. ~(y < x)
    BY <1>2, <2>1
  <2>3. QED
    BY <2>2
<1>4. QED
  BY <1>3 DEF Min

Over(k) == k \in ended \cup thrown

\* The mutex is held where the code holds it, and a call has a task until it
\* has enqueued it.
LockInv ==
  /\ \A t \in Threads : mtx = t <=> at[t] \in {"reap", "join"}
  /\ \A t \in Threads : call[t] # NoTask <=> at[t] = "lock"

\* A task that is being passed to queue_task is new.
CallInv ==
  /\ \A t \in Threads : call[t] # NoTask => call[t] \notin Range(accepted)
  /\ \A s, t \in Threads : call[s] # NoTask /\ call[s] = call[t] => s = t
  /\ ended \cup thrown \subseteq Range(accepted)

\* Before init() nothing happens; the flag is set until the guard clears it;
\* while the pool is cleared nobody is in queue_task, up to the race.
GuardInv ==
  /\ initialized => guard = "up"
  /\ guard = "none" => pool = {} /\ mtx = NoThread /\ \A t \in Threads : at[t] = "out"
  /\ guard \in {"clear", "join", "cleared"} /\ ~race => mtx = NoThread
  /\ guard = "join" => pool # {}
  /\ guard = "join" /\ ~race => queue[Min(pool)] = <<>>
  /\ mtx = NoThread => joining = {}

\* At most one element is created for each task.
CreatedInv == created <= Cardinality(Range(accepted)) + 1

\* A worker has a task except when it is idle; the body of the task ends between
\* pre_lock and post_lock.
RunInv ==
  \A e \in Elems :
    /\ cur[e] = NoTask <=> run[e] = "idle"
    /\ cur[e] \notin thrown
    /\ run[e] \in {"pre", "body"} => cur[e] \notin ended
    /\ run[e] = "post" => cur[e] \in ended

\* The ids of an element hold what its worker has to do, once each.
WorkInv ==
  \A e \in Elems :
    /\ cur[e] # NoTask => cur[e] \in ids[e]
    /\ \A n \in DOMAIN queue[e] :
         queue[e][n] \in ids[e] /\ ~Over(queue[e][n]) /\ queue[e][n] # cur[e]
    /\ \A m, n \in DOMAIN queue[e] : queue[e][m] = queue[e][n] => m = n

\* A task has its id in one element of the pool at most.
IdsInv ==
  /\ \A e \in Elems : ids[e] \subseteq Range(accepted)
  /\ \A e \in Elems \ pool : ids[e] = {}
  /\ \A e \in joining : ids[e] = {}
  /\ \A e, f \in Elems : \A k \in ids[e] : k \in ids[f] => e = f

SameStrand(j, k) == StrandOf[j] = StrandOf[k] /\ StrandOf[k] # Plain

\* A strand has its ids in one element at most.
StrandInv ==
  \A e, f \in Elems : \A j \in ids[e], k \in ids[f] : SameStrand(j, k) => e = f

\* Until the pool is cleared, an accepted task is over or has its id in an
\* element, and an id whose task is neither queued nor current is of a task that
\* threw.
WhereInv ==
  guard \in {"none", "up", "flag"} =>
    /\ \A k \in Range(accepted) : Over(k) \/ \E e \in Elems : k \in ids[e]
    /\ \A e \in Elems : \A k \in ids[e] :
         k \in thrown \/ k = cur[e] \/ \E n \in DOMAIN queue[e] : queue[e][n] = k

\* A task of a strand that is not over holds up the later ones: none of them has
\* left its queue, and where one is queued the earlier task is ahead of it.
OrderInv ==
  \A i, j \in DOMAIN accepted :
    i < j /\ SameStrand(accepted[i], accepted[j]) /\ ~Over(accepted[i]) =>
      /\ ~Over(accepted[j])
      /\ \A e \in Elems : cur[e] # accepted[j]
      /\ ~race => \A e \in Elems : \A n \in DOMAIN queue[e] :
           queue[e][n] = accepted[j] =>
             cur[e] = accepted[i] \/ \E m \in 1 .. n - 1 : queue[e][m] = accepted[i]

IInv ==
  /\ TPTypeOK /\ LockInv /\ CallInv /\ GuardInv /\ CreatedInv /\ RunInv
  /\ WorkInv /\ IdsInv /\ StrandInv /\ Independent /\ WhereInv /\ OrderInv

-----------------------------------------------------------------------------
(* Where queue_task puts a task: the element that holds its strand, or else one
   without ids, in the pool or the next to be created. *)
LEMMA DestinationFits ==
  ASSUME IInv, NEW k \in Tasks, k \notin Range(accepted)
  PROVE  /\ Destination(k) \in Elems
         /\ Destination(k) \in pool \/ Destination(k) = created + 1
         /\ OfStrand(k) # {} => Destination(k) \in OfStrand(k)
         /\ OfStrand(k) = {} => ids[Destination(k)] = {}
<1> DEFINE N == Cardinality(Tasks)
<1>1. N \in Nat /\ Range(accepted) \in SUBSET Tasks
  BY ThreadPoolAssumption, FS_CardinalityType DEF IInv, TPTypeOK, Range
<1>2. Cardinality(Range(accepted)) + 1 <= N
  <2>1. IsFiniteSet(Range(accepted)) /\ Cardinality(Range(accepted)) <= N
        /\ Cardinality(Range(accepted)) # N
    BY <1>1, FS_Subset, ThreadPoolAssumption
  <2>2. QED
    BY <1>1, <2>1, FS_CardinalityType
<1>3. created \in Nat /\ created + 1 \in Elems /\ pool \subseteq Elems
      /\ pool \in SUBSET Nat
  BY <1>1, <1>2, FS_CardinalityType, FS_Subset, ThreadPoolAssumption
  DEF IInv, TPTypeOK, CreatedInv, Elems
<1>4. CASE OfStrand(k) # {}
  <2>1. Destination(k) \in OfStrand(k)
    BY <1>3, <1>4, MinOfNumbers DEF Destination, OfStrand
  <2>2. QED
    BY <1>3, <1>4, <2>1 DEF OfStrand
<1>5. CASE OfStrand(k) = {} /\ FreeElems # {}
  <2>1. Destination(k) \in FreeElems
    BY <1>3, <1>5, MinOfNumbers DEF Destination, FreeElems
  <2>2. QED
    BY <1>3, <1>5, <2>1 DEF FreeElems
<1>6. CASE OfStrand(k) = {} /\ FreeElems = {}
  <2>1. Destination(k) = created + 1 /\ created + 1 \notin pool
    BY <1>3, <1>6 DEF Destination, IInv, TPTypeOK
  <2>2. ids[created + 1] = {}
    BY <1>3, <2>1 DEF IInv, IdsInv
  <2>3. QED
    BY <1>3, <1>6, <2>1, <2>2
<1>7. QED
  BY <1>4, <1>5, <1>6

(* The numbers of elements. *)
LEMMA Numbers ==
  ASSUME TPTypeOK
  PROVE  /\ Cardinality(Tasks) \in Nat
         /\ pool \subseteq Elems /\ pool \in SUBSET Nat
         /\ IsFiniteSet(Range(accepted)) /\ Cardinality(Range(accepted)) \in Nat
         /\ pool # {} => Min(pool) \in pool
<1>1. Cardinality(Tasks) \in Nat
  BY ThreadPoolAssumption, FS_CardinalityType
<1>2. pool \subseteq Elems /\ pool \in SUBSET Nat
  BY <1>1 DEF TPTypeOK, Elems
<1>3. Range(accepted) \in SUBSET Tasks
  BY DEF TPTypeOK, Range
<1>4. IsFiniteSet(Range(accepted)) /\ Cardinality(Range(accepted)) \in Nat
  BY <1>3, ThreadPoolAssumption, FS_Subset, FS_CardinalityType
<1>5. pool # {} => Min(pool) \in pool
  BY <1>2, MinOfNumbers
<1>6. QED
  BY <1>1, <1>2, <1>4, <1>5

(* What Enqueue does: the task is new, its element is in the pool or the next
   one, and the element has only ids of the strand of the task, which no other
   element has. *)
LEMMA EnqueueEffect ==
  ASSUME IInv, NEW t \in Threads, Enqueue(t)
  PROVE  \E k \in Tasks, e \in Elems :
           /\ call[t] = k /\ k \notin Range(accepted) /\ joining = {}
           /\ e \in pool \/ (e = created + 1 /\ e \notin pool)
           /\ pool' = pool \cup {e}
           /\ created' = IF e \in pool THEN created ELSE e
           /\ ids' = [ids EXCEPT ![e] = ids[e] \cup {k}]
           /\ queue' = [queue EXCEPT ![e] = Append(queue[e], k)]
           /\ accepted' = Append(accepted, k)
           /\ Range(accepted') = Range(accepted) \cup {k}
           /\ \A f \in Elems : k \notin ids[f] /\ cur[f] # k
           /\ \A f \in Elems : \A j \in ids[f] : SameStrand(j, k) => f = e
           /\ \A j \in ids[e] : SameStrand(j, k)
<1> DEFINE k == call[t]
           e == Destination(k)
<1>1. k \in Tasks /\ k \notin Range(accepted) /\ joining = {}
  BY DEF Enqueue, IInv, TPTypeOK, LockInv, CallInv, GuardInv
<1>2. /\ e \in Elems /\ (e \in pool \/ e = created + 1)
      /\ OfStrand(k) # {} => e \in OfStrand(k)
      /\ OfStrand(k) = {} => ids[e] = {}
  BY <1>1, DestinationFits
<1>3. e \in pool \/ (e = created + 1 /\ e \notin pool)
  BY <1>2 DEF IInv, TPTypeOK
<1>4. Range(Append(accepted, k)) = Range(accepted) \cup {k}
  BY AppendRange DEF IInv, TPTypeOK
<1>5. \A f \in Elems : k \notin ids[f] /\ cur[f] # k
  BY <1>1, ThreadPoolAssumption DEF IInv, IdsInv, WorkInv
<1>6. ASSUME NEW f \in Elems, NEW j \in ids[f], SameStrand(j, k) PROVE f = e
  <2>1. f \in OfStrand(k)
    BY <1>6 DEF IInv, IdsInv, OfStrand, SameStrand
  <2>2. PICK i \in ids[e] : SameStrand(i, k)
    BY <1>2, <2>1 DEF OfStrand, SameStrand
  <2>3. QED
    BY <1>2, <1>6, <2>2 DEF IInv, StrandInv, SameStrand
<1>7. ASSUME NEW j \in ids[e] PROVE SameStrand(j, k)
  <2>1. OfStrand(k) # {}
    BY <1>2, <1>7
  <2>2. PICK i \in ids[e] : SameStrand(i, k)
    BY <1>2, <2>1 DEF OfStrand, SameStrand
  <2>3. e \in pool
    BY <1>2, <2>1 DEF OfStrand
  <2>4. QED
    BY <1>7, <2>2, <2>3 DEF IInv, Independent, SameStrand
<1>8. /\ pool' = pool \cup {e}
      /\ created' = IF e \in pool THEN created ELSE e
      /\ ids' = [ids EXCEPT ![e] = ids[e] \cup {k}]
      /\ queue' = [queue EXCEPT ![e] = Append(queue[e], k)]
      /\ accepted' = Append(accepted, k)
  BY DEF Enqueue
<1>9. call[t] = k
  OBVIOUS
<1> HIDE DEF k, e
<1>10. QED
  BY <1>1, <1>2, <1>3, <1>4, <1>5, <1>6, <1>7, <1>8, <1>9

(* Reaping drops no task: an element without ids has an empty queue. *)
LEMMA ReapKeepsQueues ==
  ASSUME IInv, NEW t \in Threads, Reap(t)
  PROVE  queue' = queue
<1>1. ASSUME NEW e \in FreeElems PROVE queue[e] = <<>>
  <2>1. e \in Elems /\ queue[e] \in Seq(Tasks)
    BY Numbers DEF FreeElems, IInv, TPTypeOK
  <2>2. DOMAIN queue[e] = {}
    BY <2>1 DEF FreeElems, IInv, WorkInv
  <2>3. QED
    BY <2>1, <2>2, HeadTailProperties
<1>2. PICK R \in SUBSET FreeElems :
        queue' = [e \in Elems |-> IF e \in R THEN <<>> ELSE queue[e]]
  BY DEF Reap
<1>3. \A e \in Elems : queue'[e] = queue[e]
  BY <1>1, <1>2
<1>4. QED
  BY <1>2, <1>3 DEF IInv, TPTypeOK

(* What Take does to the queue of an element. *)
LEMMA TakeEffect ==
  ASSUME IInv, NEW e \in Elems, Take(e)
  PROVE  /\ Len(queue[e]) \in Nat \ {0} /\ DOMAIN queue[e] = 1 .. Len(queue[e])
         /\ cur[e] = NoTask /\ cur' = [cur EXCEPT ![e] = queue[e][1]]
         /\ queue' = [queue EXCEPT ![e] = Tail(queue[e])]
         /\ queue'[e] \in Seq(Tasks)
         /\ DOMAIN queue'[e] = 1 .. Len(queue[e]) - 1
         /\ \A n \in 1 .. Len(queue[e]) - 1 : queue'[e][n] = queue[e][n + 1]
         /\ queue[e][1] \in Tasks
<1>1. queue[e] \in Seq(Tasks) /\ queue[e] # <<>>
  BY DEF Take, IInv, TPTypeOK
<1>2. queue' = [queue EXCEPT ![e] = Tail(queue[e])] /\ queue'[e] = Tail(queue[e])
      /\ cur' = [cur EXCEPT ![e] = Head(queue[e])] /\ cur[e] = NoTask
  BY DEF Take, IInv, TPTypeOK, RunInv
<1>3. Tail(queue[e]) \in Seq(Tasks)
  BY <1>1
<1>4. QED
  BY <1>1, <1>2, <1>3, TailPositions

-----------------------------------------------------------------------------
(* The variables keep their types. *)
LEMMA TypeStep ==
  ASSUME IInv, [Next]_vars
  PROVE  TPTypeOK'
<1> USE ThreadPoolAssumption DEF IInv, TPTypeOK
<1>1. CASE UNCHANGED vars
  BY <1>1 DEF vars
<1>2. ASSUME NEW t \in Threads, NEW k \in Tasks, CallQueueTask(t, k) PROVE TPTypeOK'
  BY <1>2 DEF CallQueueTask
<1>3. ASSUME NEW t \in Threads, Enqueue(t) PROVE TPTypeOK'
  <2>1. PICK k \in Tasks, e \in Elems :
          /\ e \in pool \/ e = created + 1
          /\ pool' = pool \cup {e}
          /\ created' = IF e \in pool THEN created ELSE e
          /\ ids' = [ids EXCEPT ![e] = ids[e] \cup {k}]
          /\ queue' = [queue EXCEPT ![e] = Append(queue[e], k)]
          /\ accepted' = Append(accepted, k)
    BY <1>3, EnqueueEffect
  <2>2. pool' \subseteq 1 .. created' /\ created' \in 0 .. Cardinality(Tasks) + 1
    BY <2>1, Numbers DEF Elems
  <2>3. queue' \in [Elems -> Seq(Tasks)] /\ accepted' \in Seq(Tasks)
    BY <2>1
  <2>4. QED
    BY <1>3, <2>1, <2>2, <2>3 DEF Enqueue
<1>4. ASSUME NEW t \in Threads, Reap(t) PROVE TPTypeOK'
  <2>1. queue' = queue
    BY <1>4, ReapKeepsQueues
  <2>2. joining' \subseteq pool' /\ at' \in [Threads -> {"out", "lock", "reap", "join"}]
        /\ mtx' \in Threads \cup {NoThread}
    BY <1>4 DEF Reap, FreeElems
  <2>3. QED
    BY <1>4, <2>1, <2>2 DEF Reap
<1>5. ASSUME NEW t \in Threads, JoinReaped(t) PROVE TPTypeOK'
  BY <1>5 DEF JoinReaped
<1>6. ASSUME NEW e \in Elems, Take(e) PROVE TPTypeOK'
  BY <1>6 DEF Take
<1>7. ASSUME NEW e \in Elems, PreCheck(e) PROVE TPTypeOK'
  BY <1>7 DEF PreCheck
<1>8. ASSUME NEW e \in Elems, BodyReturns(e) PROVE TPTypeOK'
  BY <1>8 DEF BodyReturns, RunInv
<1>9. ASSUME NEW e \in Elems, BodyThrows(e) PROVE TPTypeOK'
  BY <1>9 DEF BodyThrows, RunInv
<1>10. ASSUME NEW e \in Elems, PostErase(e) PROVE TPTypeOK'
  BY <1>10 DEF PostErase
<1>11. ASSUME InitPool PROVE TPTypeOK'
  <2>1. pool' \subseteq 1 .. created' /\ created' \in 0 .. Cardinality(Tasks) + 1
    BY <1>11, Numbers DEF InitPool
  <2>2. joining' \subseteq pool'
    BY <1>11 DEF InitPool, GuardInv
  <2>3. QED
    BY <1>11, <2>1, <2>2 DEF InitPool
<1>12. ASSUME GuardFlag PROVE TPTypeOK'
  BY <1>12 DEF GuardFlag
<1>13. ASSUME GuardLock PROVE TPTypeOK'
  BY <1>13 DEF GuardLock
<1>14. ASSUME GuardClose PROVE TPTypeOK'
  <2>1. queue' \in [Elems -> Seq(Tasks)]
    BY <1>14, EmptySeq, Numbers DEF GuardClose
  <2>2. QED
    BY <1>14, <2>1 DEF GuardClose
<1>15. ASSUME GuardJoin PROVE TPTypeOK'
  <2>1. joining = {}
    BY <1>15 DEF GuardJoin, GuardInv
  <2>2. ids' \in [Elems -> SUBSET Tasks]
    BY <1>15 DEF GuardJoin
  <2>3. QED
    BY <1>15, <2>1, <2>2 DEF GuardJoin
<1>16. ASSUME GuardDone PROVE TPTypeOK'
  BY <1>16 DEF GuardDone
<1>17. QED
  BY <1>1, <1>2, <1>3, <1>4, <1>5, <1>6, <1>7, <1>8, <1>9, <1>10, <1>11, <1>12,
     <1>13, <1>14, <1>15, <1>16
  DEF Next, Guard, CallStep, WorkerStep, Done

(* The mutex and the calls stay in step with the places of the threads. *)
LEMMA LockStep ==
  ASSUME IInv, [Next]_vars
  PROVE  LockInv'
<1> USE ThreadPoolAssumption DEF IInv, TPTypeOK, LockInv, Threads
<1>1. CASE UNCHANGED vars
  BY <1>1 DEF vars
<1>2. ASSUME NEW t \in Threads, NEW k \in Tasks, CallQueueTask(t, k) PROVE LockInv'
  BY <1>2 DEF CallQueueTask
<1>3. ASSUME NEW t \in Threads, Enqueue(t) PROVE LockInv'
  BY <1>3 DEF Enqueue
<1>4. ASSUME NEW t \in Threads, Reap(t) PROVE LockInv'
  BY <1>4 DEF Reap
<1>5. ASSUME NEW t \in Threads, JoinReaped(t) PROVE LockInv'
  BY <1>5 DEF JoinReaped
<1>6. ASSUME NEW e \in Elems, Take(e) PROVE LockInv'
  BY <1>6 DEF Take
<1>7. ASSUME NEW e \in Elems, PreCheck(e) PROVE LockInv'
  BY <1>7 DEF PreCheck
<1>8. ASSUME NEW e \in Elems, BodyReturns(e) PROVE LockInv'
  BY <1>8 DEF BodyReturns
<1>9. ASSUME NEW e \in Elems, BodyThrows(e) PROVE LockInv'
  BY <1>9 DEF BodyThrows
<1>10. ASSUME NEW e \in Elems, PostErase(e) PROVE LockInv'
  BY <1>10 DEF PostErase
<1>11. ASSUME InitPool PROVE LockInv'
  BY <1>11 DEF InitPool
<1>12. ASSUME GuardFlag PROVE LockInv'
  BY <1>12 DEF GuardFlag
<1>13. ASSUME GuardLock PROVE LockInv'
  BY <1>13 DEF GuardLock
<1>14. ASSUME GuardClose PROVE LockInv'
  BY <1>14 DEF GuardClose
<1>15. ASSUME GuardJoin PROVE LockInv'
  BY <1>15 DEF GuardJoin
<1>16. ASSUME GuardDone PROVE LockInv'
  BY <1>16 DEF GuardDone
<1>17. QED
  BY <1>1, <1>2, <1>3, <1>4, <1>5, <1>6, <1>7, <1>8, <1>9, <1>10, <1>11, <1>12,
     <1>13, <1>14, <1>15, <1>16
  DEF Next, Guard, CallStep, WorkerStep, Done

(* Tasks are passed to queue_task once. *)
LEMMA CallStepInv ==
  ASSUME IInv, [Next]_vars
  PROVE  CallInv'
<1> USE ThreadPoolAssumption DEF IInv, TPTypeOK, LockInv, CallInv
<1>1. CASE UNCHANGED vars
  BY <1>1 DEF vars
<1>2. ASSUME NEW t \in Threads, NEW k \in Tasks, CallQueueTask(t, k) PROVE CallInv'
  BY <1>2 DEF CallQueueTask, Used
<1>3. ASSUME NEW t \in Threads, Enqueue(t) PROVE CallInv'
  <2>1. PICK k \in Tasks, e \in Elems :
          /\ call[t] = k /\ k \notin Range(accepted)
          /\ ids' = [ids EXCEPT ![e] = ids[e] \cup {k}]
          /\ queue' = [queue EXCEPT ![e] = Append(queue[e], k)]
          /\ accepted' = Append(accepted, k)
          /\ Range(accepted') = Range(accepted) \cup {k}
          /\ pool' = pool \cup {e} /\ joining = {}
          /\ \A f \in Elems : k \notin ids[f] /\ cur[f] # k
          /\ \A f \in Elems : \A j \in ids[f] : SameStrand(j, k) => f = e
          /\ \A j \in ids[e] : SameStrand(j, k)
    BY <1>3, EnqueueEffect
  <2>2. call' = [call EXCEPT ![t] = NoTask] /\ UNCHANGED <<ended, thrown>>
    BY <1>3 DEF Enqueue
  <2>3. QED
    BY <2>1, <2>2
<1>4. ASSUME NEW t \in Threads, Reap(t) PROVE CallInv'
  BY <1>4 DEF Reap
<1>5. ASSUME NEW t \in Threads, JoinReaped(t) PROVE CallInv'
  BY <1>5 DEF JoinReaped
<1>6. ASSUME NEW e \in Elems, Take(e) PROVE CallInv'
  BY <1>6 DEF Take
<1>7. ASSUME NEW e \in Elems, PreCheck(e) PROVE CallInv'
  BY <1>7 DEF PreCheck
<1>8. ASSUME NEW e \in Elems, BodyReturns(e) PROVE CallInv'
  BY <1>8 DEF BodyReturns, RunInv, WorkInv, IdsInv
<1>9. ASSUME NEW e \in Elems, BodyThrows(e) PROVE CallInv'
  BY <1>9 DEF BodyThrows, RunInv, WorkInv, IdsInv
<1>10. ASSUME NEW e \in Elems, PostErase(e) PROVE CallInv'
  BY <1>10 DEF PostErase
<1>11. ASSUME InitPool PROVE CallInv'
  BY <1>11 DEF InitPool
<1>12. ASSUME GuardFlag PROVE CallInv'
  BY <1>12 DEF GuardFlag
<1>13. ASSUME GuardLock PROVE CallInv'
  BY <1>13 DEF GuardLock
<1>14. ASSUME GuardClose PROVE CallInv'
  BY <1>14 DEF GuardClose
<1>15. ASSUME GuardJoin PROVE CallInv'
  BY <1>15 DEF GuardJoin
<1>16. ASSUME GuardDone PROVE CallInv'
  BY <1>16 DEF GuardDone
<1>17. QED
  BY <1>1, <1>2, <1>3, <1>4, <1>5, <1>6, <1>7, <1>8, <1>9, <1>10, <1>11, <1>12,
     <1>13, <1>14, <1>15, <1>16
  DEF Next, Guard, CallStep, WorkerStep, Done

(* Who may touch the pool in each state of the guard. *)
LEMMA GuardStep ==
  ASSUME IInv, [Next]_vars
  PROVE  GuardInv'
<1> USE ThreadPoolAssumption DEF IInv, TPTypeOK, LockInv, GuardInv
<1>1. CASE UNCHANGED vars
  BY <1>1 DEF vars
<1>2. ASSUME NEW t \in Threads, NEW k \in Tasks, CallQueueTask(t, k) PROVE GuardInv'
  BY <1>2 DEF CallQueueTask
<1>3. ASSUME NEW t \in Threads, Enqueue(t) PROVE GuardInv'
  BY <1>3 DEF Enqueue
<1>4. ASSUME NEW t \in Threads, Reap(t) PROVE GuardInv'
  BY <1>4, ReapKeepsQueues DEF Reap, FreeElems
<1>5. ASSUME NEW t \in Threads, JoinReaped(t) PROVE GuardInv'
  BY <1>5 DEF JoinReaped
<1>6. ASSUME NEW e \in Elems, Take(e) PROVE GuardInv'
  <2>1. queue[e] # <<>> /\ queue' = [queue EXCEPT ![e] = Tail(@)]
        /\ UNCHANGED <<initialized, guard, pool, mtx, at, joining, race>>
    BY <1>6 DEF Take
  <2>2. guard = "join" /\ ~race => e # Min(pool)
    BY <2>1
  <2>3. QED
    BY <2>1, <2>2
<1>7. ASSUME NEW e \in Elems, PreCheck(e) PROVE GuardInv'
  BY <1>7 DEF PreCheck
<1>8. ASSUME NEW e \in Elems, BodyReturns(e) PROVE GuardInv'
  BY <1>8 DEF BodyReturns
<1>9. ASSUME NEW e \in Elems, BodyThrows(e) PROVE GuardInv'
  BY <1>9 DEF BodyThrows
<1>10. ASSUME NEW e \in Elems, PostErase(e) PROVE GuardInv'
  BY <1>10 DEF PostErase
<1>11. ASSUME InitPool PROVE GuardInv'
  BY <1>11 DEF InitPool
<1>12. ASSUME GuardFlag PROVE GuardInv'
  BY <1>12 DEF GuardFlag
<1>13. ASSUME GuardLock PROVE GuardInv'
  BY <1>13 DEF GuardLock
<1>14. ASSUME GuardClose PROVE GuardInv'
  BY <1>14, Numbers DEF GuardClose
<1>15. ASSUME GuardJoin PROVE GuardInv'
  BY <1>15, Numbers DEF GuardJoin
<1>16. ASSUME GuardDone PROVE GuardInv'
  BY <1>16 DEF GuardDone
<1>17. QED
  BY <1>1, <1>2, <1>3, <1>4, <1>5, <1>6, <1>7, <1>8, <1>9, <1>10, <1>11, <1>12,
     <1>13, <1>14, <1>15, <1>16
  DEF Next, Guard, CallStep, WorkerStep, Done

(* A new element comes with a new task. *)
LEMMA CreatedStep ==
  ASSUME IInv, [Next]_vars
  PROVE  CreatedInv'
<1> USE ThreadPoolAssumption, Numbers DEF IInv, TPTypeOK, CreatedInv
<1>1. CASE UNCHANGED vars
  BY <1>1 DEF vars
<1>2. ASSUME NEW t \in Threads, NEW k \in Tasks, CallQueueTask(t, k) PROVE CreatedInv'
  BY <1>2 DEF CallQueueTask
<1>3. ASSUME NEW t \in Threads, Enqueue(t) PROVE CreatedInv'
  <2>1. PICK k \in Tasks, e \in Elems :
          /\ k \notin Range(accepted)
          /\ e \in pool \/ e = created + 1
          /\ created' = IF e \in pool THEN created ELSE e
          /\ Range(accepted') = Range(accepted) \cup {k}
    BY <1>3, EnqueueEffect
  <2>2. Cardinality(Range(accepted')) = Cardinality(Range(accepted)) + 1
    BY <2>1, Numbers, FS_AddElement
  <2>3. QED
    BY <2>1, <2>2, Numbers
<1>4. ASSUME NEW t \in Threads, Reap(t) PROVE CreatedInv'
  BY <1>4 DEF Reap
<1>5. ASSUME NEW t \in Threads, JoinReaped(t) PROVE CreatedInv'
  BY <1>5 DEF JoinReaped
<1>6. ASSUME NEW e \in Elems, Take(e) PROVE CreatedInv'
  BY <1>6 DEF Take
<1>7. ASSUME NEW e \in Elems, PreCheck(e) PROVE CreatedInv'
  BY <1>7 DEF PreCheck
<1>8. ASSUME NEW e \in Elems, BodyReturns(e) PROVE CreatedInv'
  BY <1>8 DEF BodyReturns
<1>9. ASSUME NEW e \in Elems, BodyThrows(e) PROVE CreatedInv'
  BY <1>9 DEF BodyThrows
<1>10. ASSUME NEW e \in Elems, PostErase(e) PROVE CreatedInv'
  BY <1>10 DEF PostErase
<1>11. ASSUME InitPool PROVE CreatedInv'
  BY <1>11 DEF InitPool
<1>12. ASSUME GuardFlag PROVE CreatedInv'
  BY <1>12 DEF GuardFlag
<1>13. ASSUME GuardLock PROVE CreatedInv'
  BY <1>13 DEF GuardLock
<1>14. ASSUME GuardClose PROVE CreatedInv'
  BY <1>14 DEF GuardClose
<1>15. ASSUME GuardJoin PROVE CreatedInv'
  BY <1>15 DEF GuardJoin
<1>16. ASSUME GuardDone PROVE CreatedInv'
  BY <1>16 DEF GuardDone
<1>17. QED
  BY <1>1, <1>2, <1>3, <1>4, <1>5, <1>6, <1>7, <1>8, <1>9, <1>10, <1>11, <1>12,
     <1>13, <1>14, <1>15, <1>16
  DEF Next, Guard, CallStep, WorkerStep, Done

(* A worker goes through pre_lock, the body and post_lock of one task. *)
LEMMA RunStep ==
  ASSUME IInv, [Next]_vars
  PROVE  RunInv'
<1> USE ThreadPoolAssumption DEF IInv, TPTypeOK, RunInv
<1>1. CASE UNCHANGED vars
  BY <1>1 DEF vars
<1>2. ASSUME NEW t \in Threads, NEW k \in Tasks, CallQueueTask(t, k) PROVE RunInv'
  BY <1>2 DEF CallQueueTask
<1>3. ASSUME NEW t \in Threads, Enqueue(t) PROVE RunInv'
  BY <1>3 DEF Enqueue
<1>4. ASSUME NEW t \in Threads, Reap(t) PROVE RunInv'
  BY <1>4 DEF Reap
<1>5. ASSUME NEW t \in Threads, JoinReaped(t) PROVE RunInv'
  BY <1>5 DEF JoinReaped
<1>6. ASSUME NEW e \in Elems, Take(e) PROVE RunInv'
  <2>1. cur' = [cur EXCEPT ![e] = queue[e][1]] /\ queue[e][1] \in Tasks
        /\ ~Over(queue[e][1])
    BY <1>6, TakeEffect DEF WorkInv
  <2>2. QED
    BY <1>6, <2>1 DEF Take, Over
<1>7. ASSUME NEW e \in Elems, PreCheck(e) PROVE RunInv'
  BY <1>7 DEF PreCheck, WorkInv
<1>8. ASSUME NEW e \in Elems, BodyReturns(e) PROVE RunInv'
  BY <1>8 DEF BodyReturns, WorkInv, IdsInv
<1>9. ASSUME NEW e \in Elems, BodyThrows(e) PROVE RunInv'
  BY <1>9 DEF BodyThrows, WorkInv, IdsInv
<1>10. ASSUME NEW e \in Elems, PostErase(e) PROVE RunInv'
  BY <1>10 DEF PostErase
<1>11. ASSUME InitPool PROVE RunInv'
  BY <1>11 DEF InitPool
<1>12. ASSUME GuardFlag PROVE RunInv'
  BY <1>12 DEF GuardFlag
<1>13. ASSUME GuardLock PROVE RunInv'
  BY <1>13 DEF GuardLock
<1>14. ASSUME GuardClose PROVE RunInv'
  BY <1>14 DEF GuardClose
<1>15. ASSUME GuardJoin PROVE RunInv'
  BY <1>15 DEF GuardJoin, GuardInv
<1>16. ASSUME GuardDone PROVE RunInv'
  BY <1>16 DEF GuardDone
<1>17. QED
  BY <1>1, <1>2, <1>3, <1>4, <1>5, <1>6, <1>7, <1>8, <1>9, <1>10, <1>11, <1>12,
     <1>13, <1>14, <1>15, <1>16
  DEF Next, Guard, CallStep, WorkerStep, Done

(* The ids of an element say what its worker has to do. *)
LEMMA WorkStep ==
  ASSUME IInv, [Next]_vars
  PROVE  WorkInv'
<1> USE ThreadPoolAssumption DEF IInv, TPTypeOK, WorkInv, Over
<1>1. CASE UNCHANGED vars
  BY <1>1 DEF vars
<1>2. ASSUME NEW t \in Threads, NEW k \in Tasks, CallQueueTask(t, k) PROVE WorkInv'
  BY <1>2 DEF CallQueueTask
<1>3. ASSUME NEW t \in Threads, Enqueue(t) PROVE WorkInv'
  <2>1. PICK k \in Tasks, e \in Elems :
          /\ call[t] = k /\ k \notin Range(accepted)
          /\ ids' = [ids EXCEPT ![e] = ids[e] \cup {k}]
          /\ queue' = [queue EXCEPT ![e] = Append(queue[e], k)]
          /\ accepted' = Append(accepted, k)
          /\ Range(accepted') = Range(accepted) \cup {k}
          /\ pool' = pool \cup {e} /\ joining = {}
          /\ \A f \in Elems : k \notin ids[f] /\ cur[f] # k
          /\ \A f \in Elems : \A j \in ids[f] : SameStrand(j, k) => f = e
          /\ \A j \in ids[e] : SameStrand(j, k)
    BY <1>3, EnqueueEffect
  <2>2. UNCHANGED <<cur, ended, thrown>> /\ ~Over(k)
    BY <1>3, <2>1 DEF Enqueue, CallInv
  <2>3. /\ Len(queue[e]) \in Nat /\ DOMAIN queue[e] = 1 .. Len(queue[e])
        /\ DOMAIN queue'[e] = 1 .. Len(queue[e]) + 1
        /\ \A i \in 1 .. Len(queue[e]) : queue'[e][i] = queue[e][i]
        /\ queue'[e][Len(queue[e]) + 1] = k
    BY <2>1, AppendProperties
  <2>4. ASSUME NEW f \in Elems PROVE cur'[f] # NoTask => cur'[f] \in ids'[f]
    BY <2>1, <2>2
  <2>5. ASSUME NEW f \in Elems, NEW n \in DOMAIN queue'[f]
        PROVE  queue'[f][n] \in ids'[f] /\ queue'[f][n] \notin ended' \cup thrown'
               /\ queue'[f][n] # cur'[f]
    <3>1. CASE f = e
      BY <2>1, <2>2, <2>3, <3>1
    <3>2. CASE f # e
      BY <2>1, <2>2, <3>2
    <3>3. QED
      BY <3>1, <3>2
  <2>6. ASSUME NEW f \in Elems, NEW m \in DOMAIN queue'[f], NEW n \in DOMAIN queue'[f],
               queue'[f][m] = queue'[f][n]
        PROVE  m = n
    <3>1. CASE f = e
      <4>1. \A i \in 1 .. Len(queue[e]) : queue'[e][i] # k
        BY <2>1, <2>3
      <4>2. m \in 1 .. Len(queue[e]) + 1 /\ n \in 1 .. Len(queue[e]) + 1
            /\ queue'[e][m] = queue'[e][n]
        BY <2>3, <2>6, <3>1
      <4>3. m = Len(queue[e]) + 1 <=> n = Len(queue[e]) + 1
        BY <2>3, <4>1, <4>2
      <4>4. m # Len(queue[e]) + 1 => queue[e][m] = queue[e][n] /\ m \in DOMAIN queue[e] /\ n \in DOMAIN queue[e]
        BY <2>3, <4>2, <4>3
      <4>5. QED
        BY <4>3, <4>4
    <3>2. CASE f # e
      BY <2>1, <2>6, <3>2
    <3>3. QED
      BY <3>1, <3>2
  <2>7. QED
    BY <2>4, <2>5, <2>6
<1>4. ASSUME NEW t \in Threads, Reap(t) PROVE WorkInv'
  BY <1>4, ReapKeepsQueues DEF Reap
<1>5. ASSUME NEW t \in Threads, JoinReaped(t) PROVE WorkInv'
  BY <1>5 DEF JoinReaped
<1>6. ASSUME NEW e \in Elems, Take(e) PROVE WorkInv'
  <2>1. /\ Len(queue[e]) \in Nat \ {0} /\ DOMAIN queue[e] = 1 .. Len(queue[e])
        /\ cur' = [cur EXCEPT ![e] = queue[e][1]]
        /\ queue' = [queue EXCEPT ![e] = Tail(queue[e])]
        /\ DOMAIN queue'[e] = 1 .. Len(queue[e]) - 1
        /\ \A n \in 1 .. Len(queue[e]) - 1 : queue'[e][n] = queue[e][n + 1]
    BY <1>6, TakeEffect
  <2>2. UNCHANGED <<ids, ended, thrown>>
    BY <1>6 DEF Take
  <2>3. ASSUME NEW f \in Elems PROVE cur'[f] # NoTask => cur'[f] \in ids'[f]
    BY <2>1, <2>2
  <2>4. ASSUME NEW f \in Elems, NEW n \in DOMAIN queue'[f]
        PROVE  queue'[f][n] \in ids'[f] /\ queue'[f][n] \notin ended' \cup thrown'
               /\ queue'[f][n] # cur'[f]
    <3>1. CASE f = e
      <4>1. n \in 1 .. Len(queue[e]) - 1 /\ n + 1 \in DOMAIN queue[e] /\ n + 1 # 1
            /\ 1 \in DOMAIN queue[e]
        BY <2>1, <3>1
      <4>2. queue'[f][n] = queue[e][n + 1] /\ cur'[f] = queue[e][1]
        BY <2>1, <3>1, <4>1
      <4>3. QED
        BY <2>2, <3>1, <4>1, <4>2
    <3>2. CASE f # e
      BY <2>1, <2>2, <3>2
    <3>3. QED
      BY <3>1, <3>2
  <2>5. ASSUME NEW f \in Elems, NEW m \in DOMAIN queue'[f], NEW n \in DOMAIN queue'[f],
               queue'[f][m] = queue'[f][n]
        PROVE  m = n
    <3>1. CASE f = e
      <4>1. m \in Nat /\ n \in Nat /\ m + 1 \in DOMAIN queue[e]
            /\ n + 1 \in DOMAIN queue[e]
            /\ queue[e][m + 1] = queue[e][n + 1]
        BY <2>1, <2>5, <3>1
      <4>2. m + 1 = n + 1
        BY <4>1
      <4>3. QED
        BY <4>1, <4>2
    <3>2. CASE f # e
      BY <2>1, <2>5, <3>2
    <3>3. QED
      BY <3>1, <3>2
  <2>6. QED
    BY <2>3, <2>4, <2>5
<1>7. ASSUME NEW e \in Elems, PreCheck(e) PROVE WorkInv'
  BY <1>7 DEF PreCheck
<1>8. ASSUME NEW e \in Elems, BodyReturns(e) PROVE WorkInv'
  BY <1>8 DEF BodyReturns, RunInv, IdsInv
<1>9. ASSUME NEW e \in Elems, BodyThrows(e) PROVE WorkInv'
  BY <1>9 DEF BodyThrows, RunInv, IdsInv
<1>10. ASSUME NEW e \in Elems, PostErase(e) PROVE WorkInv'
  BY <1>10 DEF PostErase, RunInv, IdsInv
<1>11. ASSUME InitPool PROVE WorkInv'
  BY <1>11 DEF InitPool
<1>12. ASSUME GuardFlag PROVE WorkInv'
  BY <1>12 DEF GuardFlag
<1>13. ASSUME GuardLock PROVE WorkInv'
  BY <1>13 DEF GuardLock
<1>14. ASSUME GuardClose PROVE WorkInv'
  <2>1. UNCHANGED <<ids, cur, ended, thrown>>
        /\ \A f \in Elems : queue'[f] = queue[f] \/ queue'[f] = <<>>
    BY <1>14 DEF GuardClose
  <2>2. DOMAIN <<>> = {}
    OBVIOUS
  <2>3. \A f \in Elems : queue'[f] = queue[f] \/ DOMAIN queue'[f] = {}
    BY <2>1, <2>2
  <2>4. QED
    BY <2>1, <2>3
<1>15. ASSUME GuardJoin PROVE WorkInv'
  <2>1. queue[Min(pool)] = <<>> /\ cur[Min(pool)] = NoTask /\ Min(pool) \in Elems
    BY <1>15, Numbers DEF GuardJoin, GuardInv, RunInv
  <2>2. QED
    BY <1>15, <2>1 DEF GuardJoin
<1>16. ASSUME GuardDone PROVE WorkInv'
  BY <1>16 DEF GuardDone
<1>17. QED
  BY <1>1, <1>2, <1>3, <1>4, <1>5, <1>6, <1>7, <1>8, <1>9, <1>10, <1>11, <1>12,
     <1>13, <1>14, <1>15, <1>16
  DEF Next, Guard, CallStep, WorkerStep, Done

(* An id is in one element of the pool. *)
LEMMA IdsStep ==
  ASSUME IInv, [Next]_vars
  PROVE  IdsInv'
<1> USE ThreadPoolAssumption DEF IInv, TPTypeOK, IdsInv
<1>1. CASE UNCHANGED vars
  BY <1>1 DEF vars
<1>2. ASSUME NEW t \in Threads, NEW k \in Tasks, CallQueueTask(t, k) PROVE IdsInv'
  BY <1>2 DEF CallQueueTask
<1>3. ASSUME NEW t \in Threads, Enqueue(t) PROVE IdsInv'
  <2>1. PICK k \in Tasks, e \in Elems :
          /\ call[t] = k /\ k \notin Range(accepted)
          /\ ids' = [ids EXCEPT ![e] = ids[e] \cup {k}]
          /\ queue' = [queue EXCEPT ![e] = Append(queue[e], k)]
          /\ accepted' = Append(accepted, k)
          /\ Range(accepted') = Range(accepted) \cup {k}
          /\ pool' = pool \cup {e} /\ joining = {}
          /\ \A f \in Elems : k \notin ids[f] /\ cur[f] # k
          /\ \A f \in Elems : \A j \in ids[f] : SameStrand(j, k) => f = e
          /\ \A j \in ids[e] : SameStrand(j, k)
    BY <1>3, EnqueueEffect
  <2>2. UNCHANGED joining
    BY <1>3 DEF Enqueue
  <2>3. QED
    BY <2>1, <2>2
<1>4. ASSUME NEW t \in Threads, Reap(t) PROVE IdsInv'
  BY <1>4 DEF Reap, FreeElems
<1>5. ASSUME NEW t \in Threads, JoinReaped(t) PROVE IdsInv'
  BY <1>5 DEF JoinReaped
<1>6. ASSUME NEW e \in Elems, Take(e) PROVE IdsInv'
  BY <1>6 DEF Take
<1>7. ASSUME NEW e \in Elems, PreCheck(e) PROVE IdsInv'
  BY <1>7 DEF PreCheck
<1>8. ASSUME NEW e \in Elems, BodyReturns(e) PROVE IdsInv'
  BY <1>8 DEF BodyReturns
<1>9. ASSUME NEW e \in Elems, BodyThrows(e) PROVE IdsInv'
  BY <1>9 DEF BodyThrows
<1>10. ASSUME NEW e \in Elems, PostErase(e) PROVE IdsInv'
  BY <1>10 DEF PostErase
<1>11. ASSUME InitPool PROVE IdsInv'
  BY <1>11 DEF InitPool, GuardInv
<1>12. ASSUME GuardFlag PROVE IdsInv'
  BY <1>12 DEF GuardFlag
<1>13. ASSUME GuardLock PROVE IdsInv'
  BY <1>13 DEF GuardLock
<1>14. ASSUME GuardClose PROVE IdsInv'
  BY <1>14 DEF GuardClose
<1>15. ASSUME GuardJoin PROVE IdsInv'
  BY <1>15, Numbers DEF GuardJoin, GuardInv
<1>16. ASSUME GuardDone PROVE IdsInv'
  BY <1>16 DEF GuardDone
<1>17. QED
  BY <1>1, <1>2, <1>3, <1>4, <1>5, <1>6, <1>7, <1>8, <1>9, <1>10, <1>11, <1>12,
     <1>13, <1>14, <1>15, <1>16
  DEF Next, Guard, CallStep, WorkerStep, Done

(* A strand stays in one element. *)
LEMMA StrandStep ==
  ASSUME IInv, [Next]_vars
  PROVE  StrandInv'
<1> USE ThreadPoolAssumption DEF IInv, TPTypeOK, StrandInv
<1>1. CASE UNCHANGED vars
  BY <1>1 DEF vars
<1>2. ASSUME NEW t \in Threads, NEW k \in Tasks, CallQueueTask(t, k) PROVE StrandInv'
  BY <1>2 DEF CallQueueTask
<1>3. ASSUME NEW t \in Threads, Enqueue(t) PROVE StrandInv'
  <2>1. PICK k \in Tasks, e \in Elems :
          /\ call[t] = k /\ k \notin Range(accepted)
          /\ ids' = [ids EXCEPT ![e] = ids[e] \cup {k}]
          /\ queue' = [queue EXCEPT ![e] = Append(queue[e], k)]
          /\ accepted' = Append(accepted, k)
          /\ Range(accepted') = Range(accepted) \cup {k}
          /\ pool' = pool \cup {e} /\ joining = {}
          /\ \A f \in Elems : k \notin ids[f] /\ cur[f] # k
          /\ \A f \in Elems : \A j \in ids[f] : SameStrand(j, k) => f = e
          /\ \A j \in ids[e] : SameStrand(j, k)
    BY <1>3, EnqueueEffect
  <2>2. QED
    BY <2>1 DEF SameStrand
<1>4. ASSUME NEW t \in Threads, Reap(t) PROVE StrandInv'
  BY <1>4 DEF Reap
<1>5. ASSUME NEW t \in Threads, JoinReaped(t) PROVE StrandInv'
  BY <1>5 DEF JoinReaped
<1>6. ASSUME NEW e \in Elems, Take(e) PROVE StrandInv'
  BY <1>6 DEF Take
<1>7. ASSUME NEW e \in Elems, PreCheck(e) PROVE StrandInv'
  BY <1>7 DEF PreCheck
<1>8. ASSUME NEW e \in Elems, BodyReturns(e) PROVE StrandInv'
  BY <1>8 DEF BodyReturns
<1>9. ASSUME NEW e \in Elems, BodyThrows(e) PROVE StrandInv'
  BY <1>9 DEF BodyThrows
<1>10. ASSUME NEW e \in Elems, PostErase(e) PROVE StrandInv'
  BY <1>10 DEF PostErase
<1>11. ASSUME InitPool PROVE StrandInv'
  BY <1>11 DEF InitPool
<1>12. ASSUME GuardFlag PROVE StrandInv'
  BY <1>12 DEF GuardFlag
<1>13. ASSUME GuardLock PROVE StrandInv'
  BY <1>13 DEF GuardLock
<1>14. ASSUME GuardClose PROVE StrandInv'
  BY <1>14 DEF GuardClose
<1>15. ASSUME GuardJoin PROVE StrandInv'
  BY <1>15 DEF GuardJoin
<1>16. ASSUME GuardDone PROVE StrandInv'
  BY <1>16 DEF GuardDone
<1>17. QED
  BY <1>1, <1>2, <1>3, <1>4, <1>5, <1>6, <1>7, <1>8, <1>9, <1>10, <1>11, <1>12,
     <1>13, <1>14, <1>15, <1>16
  DEF Next, Guard, CallStep, WorkerStep, Done

(* The ids of an element stay of one strand. *)
LEMMA IndependentStep ==
  ASSUME IInv, [Next]_vars
  PROVE  Independent'
<1> USE ThreadPoolAssumption DEF IInv, TPTypeOK, Independent
<1>1. CASE UNCHANGED vars
  BY <1>1 DEF vars
<1>2. ASSUME NEW t \in Threads, NEW k \in Tasks, CallQueueTask(t, k) PROVE Independent'
  BY <1>2 DEF CallQueueTask
<1>3. ASSUME NEW t \in Threads, Enqueue(t) PROVE Independent'
  <2>1. PICK k \in Tasks, e \in Elems :
          /\ call[t] = k /\ k \notin Range(accepted)
          /\ ids' = [ids EXCEPT ![e] = ids[e] \cup {k}]
          /\ queue' = [queue EXCEPT ![e] = Append(queue[e], k)]
          /\ accepted' = Append(accepted, k)
          /\ Range(accepted') = Range(accepted) \cup {k}
          /\ pool' = pool \cup {e} /\ joining = {}
          /\ \A f \in Elems : k \notin ids[f] /\ cur[f] # k
          /\ \A f \in Elems : \A j \in ids[f] : SameStrand(j, k) => f = e
          /\ \A j \in ids[e] : SameStrand(j, k)
    BY <1>3, EnqueueEffect
  <2>2. \A f \in Elems : \A i, j \in ids[f] : i # j => SameStrand(i, j)
    BY DEF IdsInv, SameStrand
  <2>3. pool' \subseteq Elems
    BY <2>1, Numbers
  <2>4. QED
    BY <2>1, <2>2, <2>3 DEF SameStrand
<1>4. ASSUME NEW t \in Threads, Reap(t) PROVE Independent'
  BY <1>4 DEF Reap
<1>5. ASSUME NEW t \in Threads, JoinReaped(t) PROVE Independent'
  BY <1>5 DEF JoinReaped
<1>6. ASSUME NEW e \in Elems, Take(e) PROVE Independent'
  BY <1>6 DEF Take
<1>7. ASSUME NEW e \in Elems, PreCheck(e) PROVE Independent'
  BY <1>7 DEF PreCheck
<1>8. ASSUME NEW e \in Elems, BodyReturns(e) PROVE Independent'
  BY <1>8 DEF BodyReturns
<1>9. ASSUME NEW e \in Elems, BodyThrows(e) PROVE Independent'
  BY <1>9 DEF BodyThrows
<1>10. ASSUME NEW e \in Elems, PostErase(e) PROVE Independent'
  BY <1>10 DEF PostErase
<1>11. ASSUME InitPool PROVE Independent'
  BY <1>11, Numbers DEF InitPool, IdsInv, GuardInv, Elems
<1>12. ASSUME GuardFlag PROVE Independent'
  BY <1>12 DEF GuardFlag
<1>13. ASSUME GuardLock PROVE Independent'
  BY <1>13 DEF GuardLock
<1>14. ASSUME GuardClose PROVE Independent'
  BY <1>14 DEF GuardClose
<1>15. ASSUME GuardJoin PROVE Independent'
  BY <1>15 DEF GuardJoin
<1>16. ASSUME GuardDone PROVE Independent'
  BY <1>16 DEF GuardDone
<1>17. QED
  BY <1>1, <1>2, <1>3, <1>4, <1>5, <1>6, <1>7, <1>8, <1>9, <1>10, <1>11, <1>12,
     <1>13, <1>14, <1>15, <1>16
  DEF Next, Guard, CallStep, WorkerStep, Done

(* Until the pool is cleared no task is lost. *)
LEMMA WhereStep ==
  ASSUME IInv, [Next]_vars
  PROVE  WhereInv'
<1> USE ThreadPoolAssumption DEF IInv, TPTypeOK, WhereInv, Over
<1>1. CASE UNCHANGED vars
  BY <1>1 DEF vars
<1>2. ASSUME NEW t \in Threads, NEW k \in Tasks, CallQueueTask(t, k) PROVE WhereInv'
  BY <1>2 DEF CallQueueTask
<1>3. ASSUME NEW t \in Threads, Enqueue(t) PROVE WhereInv'
  <2>1. PICK k \in Tasks, e \in Elems :
          /\ call[t] = k /\ k \notin Range(accepted)
          /\ ids' = [ids EXCEPT ![e] = ids[e] \cup {k}]
          /\ queue' = [queue EXCEPT ![e] = Append(queue[e], k)]
          /\ accepted' = Append(accepted, k)
          /\ Range(accepted') = Range(accepted) \cup {k}
          /\ pool' = pool \cup {e} /\ joining = {}
          /\ \A f \in Elems : k \notin ids[f] /\ cur[f] # k
          /\ \A f \in Elems : \A j \in ids[f] : SameStrand(j, k) => f = e
          /\ \A j \in ids[e] : SameStrand(j, k)
    BY <1>3, EnqueueEffect
  <2>2. UNCHANGED <<cur, ended, thrown, guard>>
    BY <1>3 DEF Enqueue
  <2>3. HAVE guard' \in {"none", "up", "flag"}
  <2>4. /\ Len(queue[e]) \in Nat /\ DOMAIN queue[e] = 1 .. Len(queue[e])
        /\ DOMAIN queue'[e] = 1 .. Len(queue[e]) + 1
        /\ \A i \in 1 .. Len(queue[e]) : queue'[e][i] = queue[e][i]
        /\ queue'[e][Len(queue[e]) + 1] = k
    BY <2>1, AppendProperties
  <2>5. ASSUME NEW j \in Range(accepted')
        PROVE  Over(j)' \/ \E f \in Elems : j \in ids'[f]
    BY <2>1, <2>2, <2>3
  <2>6. ASSUME NEW f \in Elems, NEW j \in ids'[f]
        PROVE  j \in thrown' \/ j = cur'[f] \/ \E n \in DOMAIN queue'[f] : queue'[f][n] = j
    <3>1. CASE j = k
      <4>1. f = e
        BY <2>1, <2>6, <3>1
      <4>2. Len(queue[e]) + 1 \in DOMAIN queue'[e]
        BY <2>4
      <4>3. QED
        BY <2>4, <3>1, <4>1, <4>2
    <3>2. CASE j # k /\ f = e
      <4>1. j \in thrown \/ j = cur[e] \/ \E n \in DOMAIN queue[e] : queue[e][n] = j
        BY <2>1, <2>2, <2>3, <2>6, <3>2
      <4>2. \A n \in DOMAIN queue[e] : n \in DOMAIN queue'[e]
            /\ queue'[e][n] = queue[e][n]
        BY <2>4
      <4>3. QED
        BY <2>2, <3>2, <4>1, <4>2
    <3>3. CASE f # e
      BY <2>1, <2>2, <2>3, <2>6, <3>3
    <3>4. QED
      BY <3>1, <3>2, <3>3
  <2>7. QED
    BY <2>5, <2>6
<1>4. ASSUME NEW t \in Threads, Reap(t) PROVE WhereInv'
  <2>1. UNCHANGED <<queue, ids, cur, ended, thrown, guard, accepted>>
    BY <1>4, ReapKeepsQueues DEF Reap
  <2>2. QED
    BY <2>1
<1>5. ASSUME NEW t \in Threads, JoinReaped(t) PROVE WhereInv'
  BY <1>5 DEF JoinReaped
<1>6. ASSUME NEW e \in Elems, Take(e) PROVE WhereInv'
  <2>1. /\ Len(queue[e]) \in Nat \ {0} /\ DOMAIN queue[e] = 1 .. Len(queue[e])
        /\ cur[e] = NoTask /\ cur' = [cur EXCEPT ![e] = queue[e][1]]
        /\ queue' = [queue EXCEPT ![e] = Tail(queue[e])]
        /\ DOMAIN queue'[e] = 1 .. Len(queue[e]) - 1
        /\ \A n \in 1 .. Len(queue[e]) - 1 : queue'[e][n] = queue[e][n + 1]
    BY <1>6, TakeEffect
  <2>2. UNCHANGED <<ids, ended, thrown, guard, accepted>>
    BY <1>6 DEF Take
  <2>3. HAVE guard' \in {"none", "up", "flag"}
  <2>4. ASSUME NEW f \in Elems, NEW j \in ids'[f]
        PROVE  j \in thrown' \/ j = cur'[f] \/ \E n \in DOMAIN queue'[f] : queue'[f][n] = j
    <3>1. CASE f = e
      <4>. j \in ids[e] /\ j \in Tasks /\ j # cur[e]
        BY <2>1, <2>2, <2>4, <3>1
      <4>1. j \in thrown \/ \E n \in DOMAIN queue[e] : queue[e][n] = j
        BY <2>2, <2>3
      <4>2. ASSUME NEW n \in DOMAIN queue[e], queue[e][n] = j, n # 1
            PROVE  n - 1 \in DOMAIN queue'[e] /\ queue'[e][n - 1] = j
        BY <2>1, <4>2
      <4>3. cur'[e] = queue[e][1]
        BY <2>1
      <4>4. QED
        BY <2>2, <3>1, <4>1, <4>2, <4>3
    <3>2. CASE f # e
      BY <2>1, <2>2, <2>3, <2>4, <3>2
    <3>3. QED
      BY <3>1, <3>2
  <2>5. Range(accepted') = Range(accepted)
    BY <2>2
  <2>6. QED
    BY <2>2, <2>3, <2>4, <2>5
<1>7. ASSUME NEW e \in Elems, PreCheck(e) PROVE WhereInv'
  BY <1>7 DEF PreCheck
<1>8. ASSUME NEW e \in Elems, BodyReturns(e) PROVE WhereInv'
  BY <1>8 DEF BodyReturns
<1>9. ASSUME NEW e \in Elems, BodyThrows(e) PROVE WhereInv'
  BY <1>9 DEF BodyThrows
<1>10. ASSUME NEW e \in Elems, PostErase(e) PROVE WhereInv'
  BY <1>10 DEF PostErase, RunInv
<1>11. ASSUME InitPool PROVE WhereInv'
  BY <1>11 DEF InitPool
<1>12. ASSUME GuardFlag PROVE WhereInv'
  BY <1>12 DEF GuardFlag
<1>13. ASSUME GuardLock PROVE WhereInv'
  BY <1>13 DEF GuardLock
<1>14. ASSUME GuardClose PROVE WhereInv'
  BY <1>14 DEF GuardClose
<1>15. ASSUME GuardJoin PROVE WhereInv'
  BY <1>15 DEF GuardJoin
<1>16. ASSUME GuardDone PROVE WhereInv'
  BY <1>16 DEF GuardDone
<1>17. QED
  BY <1>1, <1>2, <1>3, <1>4, <1>5, <1>6, <1>7, <1>8, <1>9, <1>10, <1>11, <1>12,
     <1>13, <1>14, <1>15, <1>16
  DEF Next, Guard, CallStep, WorkerStep, Done

(* A task that is not over holds up the later ones of its strand. *)
LEMMA OrderStep ==
  ASSUME IInv, [Next]_vars
  PROVE  OrderInv'
<1> USE ThreadPoolAssumption DEF IInv, TPTypeOK, OrderInv, Over
<1>1. CASE UNCHANGED vars
  BY <1>1 DEF vars
<1>2. ASSUME NEW t \in Threads, NEW k \in Tasks, CallQueueTask(t, k) PROVE OrderInv'
  BY <1>2 DEF CallQueueTask
<1>3. ASSUME NEW t \in Threads, Enqueue(t) PROVE OrderInv'
  <2>1. PICK k \in Tasks, e \in Elems :
          /\ call[t] = k /\ k \notin Range(accepted)
          /\ ids' = [ids EXCEPT ![e] = ids[e] \cup {k}]
          /\ queue' = [queue EXCEPT ![e] = Append(queue[e], k)]
          /\ accepted' = Append(accepted, k)
          /\ Range(accepted') = Range(accepted) \cup {k}
          /\ pool' = pool \cup {e} /\ joining = {}
          /\ \A f \in Elems : k \notin ids[f] /\ cur[f] # k
          /\ \A f \in Elems : \A j \in ids[f] : SameStrand(j, k) => f = e
          /\ \A j \in ids[e] : SameStrand(j, k)
    BY <1>3, EnqueueEffect
  <2>2. UNCHANGED <<cur, ended, thrown>> /\ k \notin ended \cup thrown
    BY <1>3, <2>1 DEF Enqueue, CallInv
  <2>3. race' = (guard \in {"clear", "join", "cleared"})
    BY <1>3 DEF Enqueue
  <2>4. /\ Len(queue[e]) \in Nat /\ DOMAIN queue[e] = 1 .. Len(queue[e])
        /\ DOMAIN queue'[e] = 1 .. Len(queue[e]) + 1
        /\ \A i \in 1 .. Len(queue[e]) : queue'[e][i] = queue[e][i]
        /\ queue'[e][Len(queue[e]) + 1] = k
    BY <2>1, AppendProperties
  <2>5. /\ Len(accepted) \in Nat /\ DOMAIN accepted = 1 .. Len(accepted)
        /\ DOMAIN accepted' = 1 .. Len(accepted) + 1
        /\ \A i \in 1 .. Len(accepted) : accepted'[i] = accepted[i]
        /\ accepted'[Len(accepted) + 1] = k
    BY <2>1, AppendProperties
  <2>6. ~race
    BY <1>3 DEF Enqueue
  <2>7. SUFFICES ASSUME NEW i \in DOMAIN accepted', NEW j \in DOMAIN accepted', i < j,
                        SameStrand(accepted'[i], accepted'[j]),
                        accepted'[i] \notin ended' \cup thrown'
        PROVE  /\ accepted'[j] \notin ended' \cup thrown'
               /\ \A f \in Elems : cur'[f] # accepted'[j]
               /\ ~race' => \A f \in Elems : \A n \in DOMAIN queue'[f] :
                    queue'[f][n] = accepted'[j] =>
                      cur'[f] = accepted'[i] \/ \E m \in 1 .. n - 1 : queue'[f][m] = accepted'[i]
    BY DEF SameStrand
  <2>8. i \in DOMAIN accepted /\ i \in Nat /\ accepted'[i] = accepted[i]
    BY <2>5, <2>7
  <2>9. CASE j = Len(accepted) + 1
    <3>1. accepted'[j] = k
      BY <2>5, <2>9
    <3>2. ASSUME NEW f \in Elems, NEW n \in DOMAIN queue'[f], queue'[f][n] = k, ~race'
          PROVE  cur'[f] = accepted'[i] \/ \E m \in 1 .. n - 1 : queue'[f][m] = accepted'[i]
      <4>1. \A g \in Elems : \A m \in DOMAIN queue[g] : queue[g][m] # k
        BY <2>1 DEF WorkInv
      <4>2. f = e /\ n = Len(queue[e]) + 1
        BY <2>1, <2>4, <3>2, <4>1
      <4>3. guard \in {"none", "up", "flag"}
        BY <2>3, <3>2
      <4>4. accepted[i] \in Range(accepted)
        BY <2>8 DEF Range
      <4>5. PICK g \in Elems : accepted[i] \in ids[g]
        BY <2>2, <2>7, <2>8, <4>3, <4>4 DEF WhereInv
      <4>6. g = e
        BY <2>1, <2>7, <2>8, <3>1, <4>5
      <4>7. accepted[i] = cur[e] \/ \E m \in DOMAIN queue[e] : queue[e][m] = accepted[i]
        BY <2>2, <2>7, <2>8, <4>3, <4>5, <4>6 DEF WhereInv
      <4> HIDE DEF IInv
      <4>8. \A m \in DOMAIN queue[e] : m \in 1 .. n - 1 /\ queue'[e][m] = queue[e][m]
        BY <2>4, <4>2
      <4>9. QED
        BY <2>2, <2>8, <4>2, <4>7, <4>8
    <3>3. \A f \in Elems : cur'[f] # k
      BY <2>1, <2>2
    <3>4. QED
      BY <2>2, <3>1, <3>2, <3>3
  <2>10. CASE j # Len(accepted) + 1
    <3>1. j \in DOMAIN accepted /\ accepted'[j] = accepted[j]
          /\ accepted[j] \in Range(accepted)
      BY <2>5, <2>7, <2>10 DEF Range
    <3>2. /\ accepted[j] \notin ended \cup thrown
          /\ \A f \in Elems : cur[f] # accepted[j]
          /\ \A f \in Elems : \A n \in DOMAIN queue[f] :
               queue[f][n] = accepted[j] =>
                 cur[f] = accepted[i] \/ \E m \in 1 .. n - 1 : queue[f][m] = accepted[i]
      BY <2>2, <2>6, <2>7, <2>8, <3>1
    <3> HIDE DEF IInv
    <3>3. ASSUME NEW f \in Elems, NEW n \in DOMAIN queue'[f], queue'[f][n] = accepted[j]
          PROVE  cur'[f] = accepted[i] \/ \E m \in 1 .. n - 1 : queue'[f][m] = accepted[i]
      <4>1. CASE f = e
        <5>1. n \in 1 .. Len(queue[e]) /\ queue[e][n] = accepted[j]
          BY <2>1, <2>4, <3>1, <3>3, <4>1
        <5>2. cur[e] = accepted[i] \/ \E m \in 1 .. n - 1 : queue[e][m] = accepted[i]
          <6>1. n \in DOMAIN queue[e]
            BY <2>4, <5>1
          <6>2. QED
            BY <3>2, <5>1, <6>1
        <5>3. \A m \in 1 .. n - 1 : queue'[e][m] = queue[e][m]
          BY <2>4, <5>1
        <5>4. QED
          BY <2>2, <4>1, <5>2, <5>3
      <4>2. CASE f # e
        BY <2>1, <2>2, <3>2, <3>3, <4>2
      <4>3. QED
        BY <4>1, <4>2
    <3>4. QED
      BY <2>2, <2>8, <3>1, <3>2, <3>3
  <2>11. QED
    BY <2>9, <2>10
<1>4. ASSUME NEW t \in Threads, Reap(t) PROVE OrderInv'
  <2>1. UNCHANGED <<queue, cur, ended, thrown, accepted, race>>
    BY <1>4, ReapKeepsQueues DEF Reap
  <2>2. QED
    BY <2>1 DEF SameStrand
<1>5. ASSUME NEW t \in Threads, JoinReaped(t) PROVE OrderInv'
  BY <1>5 DEF JoinReaped
<1>6. ASSUME NEW e \in Elems, Take(e) PROVE OrderInv'
  <2>1. /\ Len(queue[e]) \in Nat \ {0} /\ DOMAIN queue[e] = 1 .. Len(queue[e])
        /\ cur[e] = NoTask /\ cur' = [cur EXCEPT ![e] = queue[e][1]]
        /\ queue' = [queue EXCEPT ![e] = Tail(queue[e])]
        /\ DOMAIN queue'[e] = 1 .. Len(queue[e]) - 1
        /\ \A n \in 1 .. Len(queue[e]) - 1 : queue'[e][n] = queue[e][n + 1]
    BY <1>6, TakeEffect
  <2>2. UNCHANGED <<ended, thrown, accepted, race>> /\ ~race
    BY <1>6 DEF Take
  <2>3. SUFFICES ASSUME NEW i \in DOMAIN accepted, NEW j \in DOMAIN accepted, i < j,
                        SameStrand(accepted[i], accepted[j]),
                        accepted[i] \notin ended \cup thrown
        PROVE  /\ accepted[j] \notin ended \cup thrown
               /\ \A f \in Elems : cur'[f] # accepted[j]
               /\ \A f \in Elems : \A n \in DOMAIN queue'[f] :
                    queue'[f][n] = accepted[j] =>
                      cur'[f] = accepted[i] \/ \E m \in 1 .. n - 1 : queue'[f][m] = accepted[i]
    BY <2>2 DEF SameStrand
  <2>4. /\ accepted[j] \notin ended \cup thrown
        /\ \A f \in Elems : cur[f] # accepted[j]
        /\ \A f \in Elems : \A n \in DOMAIN queue[f] :
             queue[f][n] = accepted[j] =>
               cur[f] = accepted[i] \/ \E m \in 1 .. n - 1 : queue[f][m] = accepted[i]
    BY <2>2, <2>3
  <2>5. accepted[i] # NoTask
    BY <2>3
  <2>. cur' = [f \in Elems |-> IF f = e THEN queue[e][1] ELSE cur[f]]
    BY <2>1
  <2> HIDE DEF IInv
  <2>6. queue[e][1] # accepted[j]
    <3>1. 1 \in DOMAIN queue[e] /\ 1 .. 1 - 1 = {}
      BY <2>1
    <3>2. QED
      BY <2>1, <2>4, <2>5, <3>1
  <2>7. ASSUME NEW f \in Elems, NEW n \in DOMAIN queue'[f], queue'[f][n] = accepted[j]
        PROVE  cur'[f] = accepted[i] \/ \E m \in 1 .. n - 1 : queue'[f][m] = accepted[i]
    <3>1. CASE f = e
      <4>1. n \in 1 .. Len(queue[e]) - 1 /\ n + 1 \in DOMAIN queue[e]
            /\ queue[e][n + 1] = accepted[j]
        BY <2>1, <2>7, <3>1
      <4>. cur[e] = accepted[i] \/ \E m \in 1 .. (n + 1) - 1 : queue[e][m] = accepted[i]
        BY <2>4, <4>1
      <4>2. PICK m \in 1 .. n : queue[e][m] = accepted[i]
        BY <2>1, <2>5, <4>1
      <4>3. CASE m = 1
        BY <2>1, <3>1, <4>2, <4>3
      <4>4. CASE m # 1
        <5>1. m - 1 \in 1 .. n - 1 /\ m - 1 \in 1 .. Len(queue[e]) - 1 /\ (m - 1) + 1 = m
          BY <2>1, <4>1, <4>4
        <5>2. queue'[e][m - 1] = accepted[i]
          BY <2>1, <4>2, <5>1
        <5>3. QED
          BY <3>1, <5>1, <5>2
      <4>5. QED
        BY <4>3, <4>4
    <3>2. CASE f # e
      BY <2>1, <2>4, <2>7, <3>2
    <3>3. QED
      BY <3>1, <3>2
  <2>8. QED
    BY <2>1, <2>4, <2>6, <2>7
<1>7. ASSUME NEW e \in Elems, PreCheck(e) PROVE OrderInv'
  BY <1>7 DEF PreCheck
<1>8. ASSUME NEW e \in Elems, BodyReturns(e) PROVE OrderInv'
  BY <1>8 DEF BodyReturns
<1>9. ASSUME NEW e \in Elems, BodyThrows(e) PROVE OrderInv'
  BY <1>9 DEF BodyThrows
<1>10. ASSUME NEW e \in Elems, PostErase(e) PROVE OrderInv'
  BY <1>10 DEF PostErase, RunInv
<1>11. ASSUME InitPool PROVE OrderInv'
  BY <1>11 DEF InitPool
<1>12. ASSUME GuardFlag PROVE OrderInv'
  BY <1>12 DEF GuardFlag
<1>13. ASSUME GuardLock PROVE OrderInv'
  BY <1>13 DEF GuardLock
<1>14. ASSUME GuardClose PROVE OrderInv'
  <2>1. UNCHANGED <<cur, ended, thrown, accepted, race>>
        /\ \A f \in Elems : queue'[f] = queue[f] \/ queue'[f] = <<>>
    BY <1>14 DEF GuardClose
  <2>2. DOMAIN <<>> = {}
    OBVIOUS
  <2>3. \A f \in Elems : queue'[f] = queue[f] \/ DOMAIN queue'[f] = {}
    BY <2>1, <2>2
  <2>4. SUFFICES ASSUME NEW i \in DOMAIN accepted, NEW j \in DOMAIN accepted, i < j,
                        SameStrand(accepted[i], accepted[j]),
                        accepted[i] \notin ended \cup thrown
        PROVE  /\ accepted[j] \notin ended \cup thrown
               /\ \A f \in Elems : cur[f] # accepted[j]
               /\ ~race => \A f \in Elems : \A n \in DOMAIN queue'[f] :
                    queue'[f][n] = accepted[j] =>
                      cur[f] = accepted[i] \/ \E m \in 1 .. n - 1 : queue'[f][m] = accepted[i]
    BY <2>1 DEF SameStrand
  <2>5. /\ accepted[j] \notin ended \cup thrown
        /\ \A f \in Elems : cur[f] # accepted[j]
        /\ ~race => \A f \in Elems : \A n \in DOMAIN queue[f] :
             queue[f][n] = accepted[j] =>
               cur[f] = accepted[i] \/ \E m \in 1 .. n - 1 : queue[f][m] = accepted[i]
    BY <2>4
  <2> HIDE DEF IInv
  <2>6. QED
    BY <2>3, <2>5
<1>15. ASSUME GuardJoin PROVE OrderInv'
  <2>1. UNCHANGED <<queue, cur, ended, thrown, accepted, race>>
    BY <1>15 DEF GuardJoin
  <2>2. QED
    BY <2>1 DEF SameStrand
<1>16. ASSUME GuardDone PROVE OrderInv'
  BY <1>16 DEF GuardDone
<1>17. QED
  BY <1>1, <1>2, <1>3, <1>4, <1>5, <1>6, <1>7, <1>8, <1>9, <1>10, <1>11, <1>12,
     <1>13, <1>14, <1>15, <1>16
  DEF Next, Guard, CallStep, WorkerStep, Done

-----------------------------------------------------------------------------
(* The invariant is inductive. *)
LEMMA InvInit ==
  Init => IInv
<1> SUFFICES ASSUME Init PROVE IInv
  OBVIOUS
<1> USE ThreadPoolAssumption DEF Init
<1>1. Cardinality(Tasks) \in Nat
  BY FS_CardinalityType
<1>2. Range(accepted) = {} /\ DOMAIN accepted = {}
  BY DEF Range
<1>3. TPTypeOK
  <2>1. queue \in [Elems -> Seq(Tasks)] /\ accepted \in Seq(Tasks)
    BY EmptySeq
  <2>2. pool \subseteq 1 .. created /\ created \in 0 .. Cardinality(Tasks) + 1
        /\ joining \subseteq pool
    BY <1>1
  <2>3. /\ mtx \in Threads \cup {NoThread}
        /\ ids \in [Elems -> SUBSET Tasks]
        /\ run \in [Elems -> {"idle", "pre", "body", "post"}]
        /\ cur \in [Elems -> Tasks \cup {NoTask}]
        /\ at \in [Threads -> {"out", "lock", "reap", "join"}]
        /\ call \in [Threads -> Tasks \cup {NoTask}]
        /\ ended \subseteq Tasks /\ thrown \subseteq Tasks
    OBVIOUS
  <2>4. initialized \in BOOLEAN /\ race \in BOOLEAN
        /\ guard \in {"none", "up", "flag", "clear", "join", "cleared"}
    OBVIOUS
  <2>5. QED
    BY <2>1, <2>2, <2>3, <2>4 DEF TPTypeOK
<1>4. CreatedInv
  <2>1. Cardinality(Range(accepted)) = 0 /\ created = 0
    BY <1>2, FS_EmptySet
  <2>2. QED
    BY <2>1 DEF CreatedInv
<1>5. LockInv /\ CallInv /\ GuardInv
  BY <1>2 DEF LockInv, CallInv, GuardInv
<1>6. RunInv /\ IdsInv /\ StrandInv /\ Independent
  BY DEF RunInv, IdsInv, StrandInv, Independent
<1>7. DOMAIN <<>> = {}
  OBVIOUS
<1>8. WorkInv
  BY <1>7 DEF WorkInv
<1>9. WhereInv /\ OrderInv
  BY <1>2, <1>7 DEF WhereInv, OrderInv
<1>10. QED
  BY <1>3, <1>4, <1>5, <1>6, <1>8, <1>9 DEF IInv

LEMMA InvStep ==
  IInv /\ [Next]_vars => IInv'
BY TypeStep, LockStep, CallStepInv, GuardStep, CreatedStep, RunStep, WorkStep, IdsStep,
   StrandStep, IndependentStep, WhereStep, OrderStep DEF IInv

LEMMA Inductive ==
  Spec => []IInv
BY InvInit, InvStep, PTL DEF Spec

(* The variables keep their types; in particular queue_task never creates more
   elements than there are tasks, and one. *)
THEOREM PoolTypeCorrect ==
  Spec => []TPTypeOK
<1>1. IInv => TPTypeOK
  BY DEF IInv
<1>2. QED
  BY <1>1, Inductive, PTL

(* Tasks with the same strand id run one after the other, in the order in which
   queue_task accepted them, whatever workers are created, reaped or destroyed
   meanwhile and whatever tasks throw (thread_pool.hpp:55). *)
THEOREM StrandsRunInOrder ==
  Spec => []StrandInOrder
<1>1. ASSUME IInv PROVE StrandInOrder
  <2>1. SUFFICES ASSUME NEW i \in DOMAIN accepted, NEW j \in DOMAIN accepted, i < j,
                        SameStrand(accepted[i], accepted[j]), Begun(accepted[j]),
                        ~Over(accepted[i])
        PROVE FALSE
    BY DEF StrandInOrder, SameStrand, Over
  <2>2. ~Over(accepted[j]) /\ \A e \in Elems : cur[e] # accepted[j]
    BY <1>1, <2>1 DEF IInv, OrderInv
  <2>3. QED
    BY <2>1, <2>2 DEF Begun, Over
<1>2. QED
  BY <1>1, Inductive, PTL

(* Until the guard clears the pool, the ids of an element, those of tasks that
   threw apart, are exactly the tasks its worker has queued or is executing: an
   element that remove_abandoned_workers destroys has no task left. *)
THEOREM IdsTellTheWork ==
  Spec => []IdsTellWork
<1>1. ASSUME IInv PROVE IdsTellWork
  <2>1. SUFFICES ASSUME guard \in {"none", "up", "flag"}, NEW e \in pool
                 PROVE  ids[e] \ thrown = (Range(queue[e]) \cup {cur[e]}) \ {NoTask}
    BY DEF IdsTellWork
  <2>2. e \in Elems
    BY <1>1, Numbers DEF IInv
  <2>3. ASSUME NEW k \in ids[e], k \notin thrown
        PROVE  k \in (Range(queue[e]) \cup {cur[e]}) \ {NoTask}
    BY <1>1, <2>1, <2>2, <2>3, ThreadPoolAssumption DEF IInv, TPTypeOK, WhereInv, Range
  <2>4. ASSUME NEW k \in Range(queue[e])
        PROVE  k \in ids[e] \ thrown
    BY <1>1, <2>2 DEF IInv, WorkInv, Over, Range
  <2>5. cur[e] # NoTask => cur[e] \in ids[e] \ thrown
    BY <1>1, <2>2 DEF IInv, WorkInv, RunInv
  <2>6. QED
    BY <2>3, <2>4, <2>5
<1>2. QED
  BY <1>1, Inductive, PTL

(* Two tasks wait for one another only when they have the same strand id: the
   ids of an element are of one strand, or of one plain task. *)
THEOREM StrandsAreIndependent ==
  Spec => []Independent
<1>1. IInv => Independent
  BY DEF IInv
<1>2. QED
  BY <1>1, Inductive, PTL

-----------------------------------------------------------------------------
(* The refinement: what the abstract pool sees of a task does not depend on the
   element the task is in. *)
InCall(k)  == \E t \in Threads : call[t] = k
InQueue(k) == \E e \in Elems : k \in Range(queue[e]) \/ (cur[e] = k /\ run[e] = "pre")
InBody(k)  == \E e \in Elems : cur[e] = k /\ run[e] = "body"

StateOf(k) ==
  IF InCall(k) THEN "called"
  ELSE IF InQueue(k) THEN "queued"
  ELSE IF InBody(k) THEN "running"
  ELSE IF k \in Range(accepted) THEN "over" ELSE "none"

\* When the guard has returned, the pool is empty, up to the race.
ClearedInv == guard = "cleared" /\ ~race => pool = {}

LEMMA ClearedStep ==
  ASSUME ClearedInv, [Next]_vars
  PROVE  ClearedInv'
BY DEF ClearedInv, Next, vars, CallQueueTask, Enqueue, Reap, JoinReaped, Take, PreCheck,
  BodyReturns, BodyThrows, PostErase, InitPool, GuardFlag, GuardLock, GuardClose, GuardJoin,
  GuardDone, Guard, CallStep, WorkerStep, Done

(* An element with a task is in the pool. *)
LEMMA BusyInPool ==
  ASSUME IInv, NEW e \in Elems, e \notin pool
  PROVE  cur[e] = NoTask /\ Range(queue[e]) = {} /\ run[e] = "idle" /\ queue[e] = <<>>
<1>1. ids[e] = {}
  BY DEF IInv, IdsInv
<1>2. cur[e] = NoTask /\ run[e] = "idle" /\ DOMAIN queue[e] = {}
  BY <1>1 DEF IInv, WorkInv, RunInv
<1>3. queue[e] \in Seq(Tasks)
  BY DEF IInv, TPTypeOK
<1>4. queue[e] = <<>>
  BY <1>2, <1>3, HeadTailProperties
<1> QED
  BY <1>2, <1>4 DEF Range

LEMMA JobStateAt ==
  IInv => \A k \in Tasks : JobState(k) = StateOf(k)
<1> SUFFICES ASSUME IInv, NEW k \in Tasks PROVE JobState(k) = StateOf(k)
  OBVIOUS
<1>1. pool \subseteq Elems
  BY Numbers DEF IInv
<1>2. k \in Calling <=> InCall(k)
  BY DEF Calling, InCall
<1>3. k \in Waiting <=> InQueue(k)
  <2> DEFINE Queued == UNION {Range(queue[e]) : e \in pool}
             Taken  == {cur[e] : e \in {d \in pool : run[d] = "pre"}}
  <2>1. k \in Queued <=> \E e \in pool : k \in Range(queue[e])
    OBVIOUS
  <2>2. k \in Taken <=> \E e \in pool : cur[e] = k /\ run[e] = "pre"
    OBVIOUS
  <2>3. InQueue(k) <=> \E e \in pool : k \in Range(queue[e]) \/ (cur[e] = k /\ run[e] = "pre")
    BY <1>1, BusyInPool DEF InQueue
  <2>4. Waiting = Queued \cup Taken
    BY DEF Waiting
  <2> HIDE DEF Queued, Taken
  <2> QED
    BY <2>1, <2>2, <2>3, <2>4
<1>4. k \in Working <=> InBody(k)
  <2>1. ASSUME k \in Working PROVE InBody(k)
    BY <1>1, <2>1 DEF Working, InBody
  <2>2. ASSUME InBody(k) PROVE k \in Working
    <3>1. PICK e \in Elems : cur[e] = k /\ run[e] = "body"
      BY <2>2 DEF InBody
    <3>2. e \in pool
      BY <3>1, BusyInPool
    <3> QED
      BY <3>1, <3>2 DEF Working
  <2> QED
    BY <2>1, <2>2
<1> QED
  BY <1>2, <1>3, <1>4 DEF JobState, StateOf

(* A task is in one place. *)
LEMMA OnePlace ==
  ASSUME IInv, NEW k \in Tasks
  PROVE  /\ InCall(k) => k \notin Range(accepted)
         /\ InQueue(k) \/ InBody(k) => k \in Range(accepted)
         /\ InQueue(k) => ~InBody(k)
         /\ \A e, f \in Elems : cur[e] = k /\ cur[f] = k => e = f
         /\ \A e, f \in Elems : cur[e] = k => k \notin Range(queue[f])
         /\ \A e, f \in Elems : k \in Range(queue[e]) /\ k \in Range(queue[f]) => e = f
<1>1. ASSUME NEW e \in Elems, cur[e] = k \/ k \in Range(queue[e]) PROVE k \in ids[e]
  BY <1>1, ThreadPoolAssumption DEF IInv, WorkInv, Range
<1>2. ASSUME NEW e \in Elems, NEW f \in Elems, k \in ids[e], k \in ids[f] PROVE e = f
  BY <1>2 DEF IInv, IdsInv
<1>3. ASSUME NEW e \in Elems, k \in Range(queue[e]) PROVE cur[e] # k
  BY <1>3 DEF IInv, WorkInv, Range
<1>4. ASSUME NEW e \in Elems, k \in ids[e] PROVE k \in Range(accepted)
  BY <1>4 DEF IInv, IdsInv
<1>5. InCall(k) => k \notin Range(accepted)
  BY ThreadPoolAssumption DEF IInv, CallInv, InCall
<1>6. \A e, f \in Elems : cur[e] = k /\ cur[f] = k => e = f
  BY <1>1, <1>2
<1>7. \A e, f \in Elems : cur[e] = k => k \notin Range(queue[f])
  BY <1>1, <1>2, <1>3
<1>8. \A e, f \in Elems : k \in Range(queue[e]) /\ k \in Range(queue[f]) => e = f
  BY <1>1, <1>2
<1>9. InQueue(k) \/ InBody(k) => k \in Range(accepted)
  BY <1>1, <1>4 DEF InQueue, InBody
<1>10. InQueue(k) => ~InBody(k)
  BY <1>6, <1>7 DEF InQueue, InBody
<1> QED
  BY <1>5, <1>6, <1>7, <1>8, <1>9, <1>10

(* The jobs of the tasks in D get state s, and the others keep theirs. *)
LEMMA JobsMove ==
  ASSUME IInv, IInv', NEW D \in SUBSET Tasks, NEW s,
         \A k \in Tasks \ D : StateOf(k)' = StateOf(k),
         \A k \in D : StateOf(k)' = s
  PROVE  [k \in Tasks |-> JobState(k)]' = [k \in Tasks |-> IF k \in D THEN s ELSE JobState(k)]
<1>1. \A k \in Tasks : JobState(k) = StateOf(k)
  BY JobStateAt
<1>2. (IInv => \A k \in Tasks : JobState(k) = StateOf(k))'
  BY JobStateAt, PTL
<1>3. \A k \in Tasks : JobState(k)' = StateOf(k)'
  BY <1>2
<1> QED
  BY <1>1, <1>3

LEMMA JobsStay ==
  ASSUME IInv, IInv', \A k \in Tasks : StateOf(k)' = StateOf(k)
  PROVE  [k \in Tasks |-> JobState(k)]' = [k \in Tasks |-> JobState(k)]
<1>1. \A k \in Tasks : JobState(k) = StateOf(k)
  BY JobStateAt
<1>2. (IInv => \A k \in Tasks : JobState(k) = StateOf(k))'
  BY JobStateAt, PTL
<1> QED
  BY <1>1, <1>2

LEMMA OneJobMoves ==
  ASSUME IInv, IInv', NEW k \in Tasks, NEW s, StateOf(k)' = s,
         \A j \in Tasks \ {k} : StateOf(j)' = StateOf(j)
  PROVE  [j \in Tasks |-> JobState(j)]' = [[j \in Tasks |-> JobState(j)] EXCEPT ![k] = s]
<1> DEFINE D == {k}
<1>1. D \in SUBSET Tasks /\ (\A j \in Tasks \ D : StateOf(j)' = StateOf(j)) /\ (\A j \in D : StateOf(j)' = s)
  OBVIOUS
<1> HIDE DEF D
<1>2. [j \in Tasks |-> JobState(j)]' = [j \in Tasks |-> IF j \in D THEN s ELSE JobState(j)]
  BY <1>1, JobsMove
<1> QED
  BY <1>2 DEF D

LEMMA CallRefines ==
  ASSUME IInv, IInv', NEW t \in Threads, NEW k \in Tasks, CallQueueTask(t, k)
  PROVE  Contract!Called(k)
<1>1. /\ initialized /\ at[t] = "out" /\ ~Used(k) /\ call' = [call EXCEPT ![t] = k]
      /\ UNCHANGED <<queue, run, cur, accepted, guard, race>>
  BY DEF CallQueueTask
<1>2. call[t] = NoTask /\ guard = "up"
  BY <1>1 DEF IInv, LockInv, GuardInv
<1>3. \A j \in Tasks : InCall(j)' <=> InCall(j) \/ j = k
  BY <1>1, <1>2, ThreadPoolAssumption DEF InCall, IInv, TPTypeOK
<1>4. \A j \in Tasks : (InQueue(j)' <=> InQueue(j)) /\ (InBody(j)' <=> InBody(j))
  BY <1>1 DEF InQueue, InBody
<1>5. k \notin Range(accepted) /\ ~InCall(k)
  BY <1>1 DEF Used, InCall
<1>6. StateOf(k) = "none"
  BY <1>5, OnePlace DEF StateOf
<1>7. /\ StateOf(k)' = "called"
      /\ \A j \in Tasks \ {k} : StateOf(j)' = StateOf(j)
  BY <1>1, <1>3, <1>4 DEF StateOf
<1>8. [j \in Tasks |-> JobState(j)]' = [[j \in Tasks |-> JobState(j)] EXCEPT ![k] = "called"]
  BY <1>7, OneJobMoves
<1>9. JobState(k) = "none"
  BY <1>6, JobStateAt
<1> QED
  BY <1>1, <1>2, <1>8, <1>9 DEF Contract!Called, Contract!Becomes

LEMMA EnqueueRefines ==
  ASSUME IInv, IInv', NEW t \in Threads, Enqueue(t)
  PROVE  \E k \in Tasks : Contract!Accepted(k)
<1>1. PICK k \in Tasks, e \in Elems :
        /\ call[t] = k /\ k \notin Range(accepted)
        /\ queue' = [queue EXCEPT ![e] = Append(queue[e], k)]
        /\ Range(accepted') = Range(accepted) \cup {k}
  BY EnqueueEffect
<1>2. /\ call' = [call EXCEPT ![t] = NoTask] /\ ~race
      /\ race' = (guard \in {"clear", "join", "cleared"})
      /\ UNCHANGED <<run, cur, guard>>
  BY DEF Enqueue
<1>3. \A j \in Tasks : InCall(j)' <=> InCall(j) /\ j # k
  BY <1>1, <1>2, ThreadPoolAssumption DEF InCall, IInv, TPTypeOK, CallInv
<1>4. /\ Range(queue'[e]) = Range(queue[e]) \cup {k}
      /\ \A f \in Elems : f # e => queue'[f] = queue[f]
  <2>1. queue \in [Elems -> Seq(Tasks)]
    BY DEF IInv, TPTypeOK
  <2>2. Range(Append(queue[e], k)) = Range(queue[e]) \cup {k}
    BY <2>1, AppendRange
  <2> QED
    BY <1>1, <2>1, <2>2
<1>5. \A j \in Tasks : (InQueue(j)' <=> InQueue(j) \/ j = k) /\ (InBody(j)' <=> InBody(j))
  BY <1>2, <1>4 DEF InQueue, InBody
<1>6. InCall(k)
  BY <1>1 DEF InCall
<1>7. /\ StateOf(k) = "called" /\ StateOf(k)' = "queued"
      /\ \A j \in Tasks \ {k} : StateOf(j)' = StateOf(j)
  BY <1>1, <1>3, <1>5, <1>6 DEF StateOf
<1>8. [j \in Tasks |-> JobState(j)]' = [[j \in Tasks |-> JobState(j)] EXCEPT ![k] = "queued"]
  BY <1>7, OneJobMoves
<1>9. JobState(k) = "called"
  BY <1>7, JobStateAt
<1>10. Contract!Accepted(k)
  BY <1>2, <1>8, <1>9 DEF Contract!Accepted, Contract!Becomes
<1> QED
  BY <1>10

\* What the pool does with its elements does not show.
LEMMA HiddenSteps ==
  ASSUME IInv, IInv', UNCHANGED <<guard, race>>,
         \/ \E t \in Threads : Reap(t) \/ JoinReaped(t)
         \/ \E e \in Elems : Take(e) \/ PostErase(e)
  PROVE  UNCHANGED Contract!poolVars
<1>1. ASSUME UNCHANGED <<call, queue, run, cur, accepted>>
      PROVE  \A k \in Tasks : StateOf(k)' = StateOf(k)
  BY <1>1 DEF StateOf, InCall, InQueue, InBody
<1>2. ASSUME NEW t \in Threads, Reap(t) PROVE \A k \in Tasks : StateOf(k)' = StateOf(k)
  BY <1>1, <1>2, ReapKeepsQueues DEF Reap
<1>3. ASSUME NEW t \in Threads, JoinReaped(t) PROVE \A k \in Tasks : StateOf(k)' = StateOf(k)
  BY <1>1, <1>3 DEF JoinReaped
<1>4. ASSUME NEW e \in Elems, Take(e) PROVE \A k \in Tasks : StateOf(k)' = StateOf(k)
  <2>1. /\ queue[e] \in Seq(Tasks) /\ queue[e] # <<>> /\ run[e] = "idle" /\ cur[e] = NoTask
        /\ cur' = [cur EXCEPT ![e] = Head(queue[e])]
        /\ queue' = [queue EXCEPT ![e] = Tail(queue[e])]
        /\ run' = [run EXCEPT ![e] = "pre"]
        /\ UNCHANGED <<call, accepted>>
    BY <1>4 DEF Take, IInv, TPTypeOK, RunInv
  <2>2. Range(queue[e]) = {Head(queue[e])} \cup Range(Tail(queue[e]))
    BY <2>1, TailRange
  <2>3. /\ Range(queue[e]) = {cur'[e]} \cup Range(queue'[e]) /\ run'[e] = "pre"
        /\ \A f \in Elems : f # e => queue'[f] = queue[f] /\ cur'[f] = cur[f] /\ run'[f] = run[f]
    BY <2>1, <2>2 DEF IInv, TPTypeOK
  <2>4. \A k \in Tasks : (InQueue(k)' <=> InQueue(k)) /\ (InBody(k)' <=> InBody(k))
    BY <2>1, <2>3 DEF InQueue, InBody
  <2> QED
    BY <2>1, <2>4 DEF StateOf, InCall
<1>5. ASSUME NEW e \in Elems, PostErase(e) PROVE \A k \in Tasks : StateOf(k)' = StateOf(k)
  <2>1. /\ run[e] = "post" /\ run'[e] = "idle"
        /\ \A f \in Elems : f # e => cur'[f] = cur[f] /\ run'[f] = run[f]
        /\ UNCHANGED <<call, accepted, queue>>
    BY <1>5 DEF PostErase, IInv, TPTypeOK
  <2>2. \A k \in Tasks : (InQueue(k)' <=> InQueue(k)) /\ (InBody(k)' <=> InBody(k))
    BY <2>1 DEF InQueue, InBody
  <2> QED
    BY <2>1, <2>2 DEF StateOf, InCall
<1>6. \A k \in Tasks : StateOf(k)' = StateOf(k)
  BY <1>2, <1>3, <1>4, <1>5
<1>7. [k \in Tasks |-> JobState(k)]' = [k \in Tasks |-> JobState(k)]
  BY <1>6, JobsStay
<1> QED
  BY <1>7 DEF Contract!poolVars

LEMMA BeginRefines ==
  ASSUME IInv, IInv', ClearedInv, NEW e \in Elems, PreCheck(e)
  PROVE  \E k \in Tasks : Contract!Begun(k)
<1>1. /\ run[e] = "pre" /\ cur[e] \in Tasks /\ cur[e] \in ids[e]
      /\ run' = [run EXCEPT ![e] = "body"] /\ ~race
      /\ UNCHANGED <<call, accepted, queue, cur, guard, race>>
  BY DEF PreCheck, IInv, TPTypeOK, RunInv, WorkInv
<1>2. guard # "cleared"
  BY <1>1, BusyInPool DEF ClearedInv
<1> PICK k \in Tasks : k = cur[e]
  BY <1>1
<1>3. \A j \in Tasks : /\ InQueue(j)' <=> InQueue(j) /\ j # k
                       /\ InBody(j)' <=> InBody(j) \/ j = k
  <2>1. /\ run'[e] = "body" /\ \A f \in Elems : f # e => run'[f] = run[f]
    BY <1>1 DEF IInv, TPTypeOK
  <2>2. \A f \in Elems : k \notin Range(queue[f]) /\ (cur[f] = k => f = e)
    BY <1>1, OnePlace
  <2> QED
    BY <1>1, <2>1, <2>2 DEF InQueue, InBody
<1>4. InQueue(k) /\ k \in Range(accepted) /\ ~InCall(k)
  BY <1>1, OnePlace DEF InQueue
<1>5. \A j \in Tasks : InCall(j)' <=> InCall(j)
  BY <1>1 DEF InCall
<1>6. /\ StateOf(k) = "queued" /\ StateOf(k)' = "running"
      /\ \A j \in Tasks \ {k} : StateOf(j)' = StateOf(j)
  BY <1>1, <1>3, <1>4, <1>5 DEF StateOf
<1>7. [j \in Tasks |-> JobState(j)]' = [[j \in Tasks |-> JobState(j)] EXCEPT ![k] = "running"]
  BY <1>1, <1>6, OneJobMoves
<1>8. JobState(k) = "queued"
  BY <1>1, <1>6, JobStateAt
<1>9. Contract!Begun(k)
  BY <1>1, <1>2, <1>7, <1>8 DEF Contract!Begun, Contract!Becomes
<1> QED
  BY <1>1, <1>9

LEMMA EndRefines ==
  ASSUME IInv, IInv', NEW e \in Elems, BodyReturns(e) \/ BodyThrows(e)
  PROVE  \E k \in Tasks : Contract!Ended(k)
<1>1. /\ run[e] = "body" /\ cur[e] \in Tasks /\ ~race
      /\ run'[e] \notin {"pre", "body"}
      /\ \A f \in Elems : f # e => run'[f] = run[f] /\ cur'[f] = cur[f]
      /\ UNCHANGED <<call, accepted, queue, guard, race>>
  BY DEF BodyReturns, BodyThrows, IInv, TPTypeOK, RunInv
<1> PICK k \in Tasks : k = cur[e]
  BY <1>1
<1>2. \A f \in Elems : k \notin Range(queue[f]) /\ (cur[f] = k => f = e)
  BY <1>1, OnePlace
<1>3. \A j \in Tasks : /\ InQueue(j)' <=> InQueue(j)
                       /\ InBody(j)' <=> InBody(j) /\ j # k
  BY <1>1, <1>2 DEF InQueue, InBody
<1>4. InBody(k)
  BY <1>1 DEF InBody
<1>5. ~InQueue(k) /\ k \in Range(accepted) /\ ~InCall(k)
  BY <1>1, <1>4, OnePlace
<1>6. \A j \in Tasks : InCall(j)' <=> InCall(j)
  BY <1>1 DEF InCall
<1>7. /\ StateOf(k) = "running" /\ StateOf(k)' = "over"
      /\ \A j \in Tasks \ {k} : StateOf(j)' = StateOf(j)
  BY <1>1, <1>3, <1>4, <1>5, <1>6 DEF StateOf
<1>8. [j \in Tasks |-> JobState(j)]' = [[j \in Tasks |-> JobState(j)] EXCEPT ![k] = "over"]
  BY <1>1, <1>7, OneJobMoves
<1>9. JobState(k) = "running"
  BY <1>1, <1>7, JobStateAt
<1>10. Contract!Ended(k)
  BY <1>1, <1>8, <1>9 DEF Contract!Ended, Contract!Becomes
<1> QED
  BY <1>1, <1>10

LEMMA GuardRefines ==
  ASSUME IInv, IInv', InitPool \/ Guard
  PROVE  \/ Contract!PoolUp \/ Contract!PoolFlag \/ Contract!PoolLock \/ Contract!PoolCleared
         \/ \E D \in SUBSET Tasks : Contract!Dropped(D)
         \/ UNCHANGED Contract!poolVars
<1>1. ASSUME UNCHANGED <<call, queue, run, cur, accepted>>
      PROVE  [k \in Tasks |-> JobState(k)]' = [k \in Tasks |-> JobState(k)]
  <2>1. \A k \in Tasks : StateOf(k)' = StateOf(k)
    BY <1>1 DEF StateOf, InCall, InQueue, InBody
  <2> QED
    BY <2>1, JobsStay
<1>2. CASE InitPool
  BY <1>1, <1>2 DEF InitPool, Contract!PoolUp
<1>3. CASE GuardFlag
  BY <1>1, <1>3 DEF GuardFlag, Contract!PoolFlag
<1>4. CASE GuardLock
  BY <1>1, <1>4 DEF GuardLock, Contract!PoolLock
\* The first element is destroyed: what it has not begun is dropped.
<1>5. CASE GuardClose
  <2>1. PICK e \in Elems : e = Min(pool)
    BY <1>5, Numbers DEF GuardClose, IInv
  <2>2. /\ queue' = [queue EXCEPT ![e] = <<>>] /\ guard = "clear" /\ guard' = "join" /\ ~race
        /\ UNCHANGED <<call, run, cur, accepted, race>>
    BY <1>5, <2>1 DEF GuardClose
  <2>3. PICK D \in SUBSET Tasks : D = Range(queue[e])
    <3>1. queue[e] \in Seq(Tasks)
      BY DEF IInv, TPTypeOK
    <3>2. Range(queue[e]) \in SUBSET Tasks
      BY <3>1 DEF Range
    <3> QED
      BY <3>2
  <2>4. Range(queue'[e]) = {} /\ \A f \in Elems : f # e => queue'[f] = queue[f]
    BY <2>2 DEF IInv, TPTypeOK, Range
  <2>5. \A k \in Tasks : /\ InCall(k)' <=> InCall(k)
                         /\ InBody(k)' <=> InBody(k)
                         /\ k \notin D => (InQueue(k)' <=> InQueue(k))
    BY <2>2, <2>3, <2>4 DEF InCall, InBody, InQueue
  <2>6. ASSUME NEW k \in D PROVE StateOf(k) = "queued" /\ StateOf(k)' = "over"
    <3>1. /\ InQueue(k) /\ \A f \in Elems : cur[f] # k /\ (k \in Range(queue[f]) => f = e)
      BY <2>3, <2>6, OnePlace DEF InQueue
    <3>2. ~InQueue(k)' /\ ~InBody(k) /\ k \in Range(accepted) /\ ~InCall(k)
      BY <2>2, <2>4, <3>1, OnePlace DEF InQueue
    <3> QED
      BY <2>2, <2>5, <3>1, <3>2 DEF StateOf
  <2>7. \A k \in Tasks \ D : StateOf(k)' = StateOf(k)
    BY <2>2, <2>5 DEF StateOf
  <2>8. [k \in Tasks |-> JobState(k)]' = [k \in Tasks |-> IF k \in D THEN "over" ELSE JobState(k)]
    BY <2>6, <2>7, JobsMove
  <2>9. \A k \in D : JobState(k) = "queued"
    BY <2>6, JobStateAt
  <2>10. Contract!Dropped(D)
    BY <2>2, <2>8, <2>9 DEF Contract!Dropped
  <2> QED
    BY <2>10
<1>6. CASE GuardJoin
  BY <1>1, <1>6 DEF GuardJoin, Contract!poolVars
<1>7. CASE GuardDone
  <2>1. \A k \in Tasks : JobState(k) \notin {"queued", "running"}
    BY <1>7 DEF GuardDone, JobState, Waiting, Working
  <2> QED
    BY <1>1, <1>7, <2>1 DEF GuardDone, Contract!PoolCleared
<1> QED
  BY <1>2, <1>3, <1>4, <1>5, <1>6, <1>7 DEF Guard

LEMMA StepRefines ==
  IInv /\ ClearedInv /\ [Next]_vars => [Contract!PoolNext]_(Contract!poolVars)
<1> SUFFICES ASSUME IInv, ClearedInv, [Next]_vars
             PROVE  [Contract!PoolNext]_(Contract!poolVars)
  OBVIOUS
<1>1. IInv'
  BY InvStep
<1>2. CASE InitPool \/ Guard
  BY <1>1, <1>2, GuardRefines DEF Contract!PoolNext
<1>3. ASSUME NEW t \in Threads, Enqueue(t) PROVE Contract!PoolNext
  BY <1>1, <1>3, EnqueueRefines DEF Contract!PoolNext
<1>4. ASSUME NEW t \in Threads, Reap(t) \/ JoinReaped(t) PROVE UNCHANGED Contract!poolVars
  BY <1>1, <1>4, HiddenSteps DEF Reap, JoinReaped
<1>5. ASSUME NEW t \in Threads, NEW k \in Tasks, CallQueueTask(t, k) PROVE Contract!PoolNext
  BY <1>1, <1>5, CallRefines DEF Contract!PoolNext
<1>6. ASSUME NEW e \in Elems, Take(e) \/ PostErase(e) PROVE UNCHANGED Contract!poolVars
  BY <1>1, <1>6, HiddenSteps DEF Take, PostErase
<1>7. ASSUME NEW e \in Elems, PreCheck(e) PROVE Contract!PoolNext
  BY <1>1, <1>7, BeginRefines DEF Contract!PoolNext
<1>8. ASSUME NEW e \in Elems, BodyReturns(e) \/ BodyThrows(e) PROVE Contract!PoolNext
  BY <1>1, <1>8, EndRefines DEF Contract!PoolNext
<1>9. CASE UNCHANGED vars
  <2>1. \A k \in Tasks : StateOf(k)' = StateOf(k)
    BY <1>9 DEF vars, StateOf, InCall, InQueue, InBody
  <2>2. [k \in Tasks |-> JobState(k)]' = [k \in Tasks |-> JobState(k)]
    BY <1>1, <2>1, JobsStay
  <2> QED
    BY <1>9, <2>2 DEF vars, Contract!poolVars
<1> QED
  BY <1>2, <1>3, <1>4, <1>5, <1>6, <1>7, <1>8, <1>9 DEF Next, CallStep, WorkerStep, Done

(* The pool is the abstract one on which Application is built, for any number of
   callers, tasks and strands: whatever workers are created, used again or reaped
   and whatever tasks throw, a task is accepted and begun at most once, is dropped
   only when the guard clears the pool, and nothing runs when it has done so. *)
THEOREM PoolIsAbstract ==
  Spec => ImplementsPool
<1>1. Init => Contract!PoolInit
  <2> SUFFICES ASSUME Init PROVE Contract!PoolInit
    OBVIOUS
  <2>1. Range(accepted) = {}
    BY DEF Init, Range
  <2>2. \A k \in Tasks : ~InCall(k) /\ ~InQueue(k) /\ ~InBody(k)
    BY ThreadPoolAssumption DEF Init, InCall, InQueue, InBody, Range
  <2>3. \A k \in Tasks : JobState(k) = "none"
    BY <2>1, <2>2, InvInit, JobStateAt DEF StateOf
  <2> QED
    BY <2>3 DEF Init, Contract!PoolInit
<1>2. Init => ClearedInv
  BY DEF Init, ClearedInv
<1>3. ClearedInv /\ [Next]_vars => ClearedInv'
  BY ClearedStep
<1> QED
  BY <1>1, <1>2, <1>3, Inductive, StepRefines, PTL DEF Spec, ImplementsPool, Contract!PoolSpec
=============================================================================
