---------------------------- MODULE AbstractPool ----------------------------
(***************************************************************************)
(* What thread_pool (src/bibstd/app_framework/thread_pool.hpp) promises to *)
(* those who queue tasks in it: a task is accepted while the pool is       *)
(* initialized, begins once, and ends; the guard of init() refuses tasks,  *)
(* drops those not begun and waits for the others.  ThreadPool implements  *)
(* it, and Application is built on it.                                     *)
(*                                                                         *)
(* A job is one call of queue_task.  It is "called" from the test of       *)
(* initialized_ until the lock is taken; a call that takes the lock when   *)
(* the guard has begun to clear the pool uses what is being destroyed, and *)
(* what happens then is not defined.                                       *)
(***************************************************************************)
CONSTANT Jobs

(* A definition whose comment begins with "Variant of" is a faulty form of   *)
(* the one it names, which no behaviour uses.                                *)

VARIABLES
  phase,     \* the guard: "none", "up", "flag", "clear", "cleared"
  job,       \* per job: "none", "called", "queued", "running", "over"
  undefined  \* an operation has used what was destroyed

poolVars == <<phase, job, undefined>>

PoolInit ==
  /\ phase = "none"
  /\ job = [k \in Jobs |-> "none"]
  /\ undefined = FALSE

Becomes(k, s) == job' = [job EXCEPT ![k] = s]

\* queue_task: returns at once unless initialized_ is set.
Called(k) ==
  /\ phase = "up" /\ job[k] = "none"
  /\ Becomes(k, "called")
  /\ UNCHANGED <<phase, undefined>>

\* queue_task: the lock is taken, whatever has become of the pool.
Accepted(k) ==
  /\ job[k] = "called"
  /\ Becomes(k, "queued")
  /\ undefined' = (undefined \/ phase \in {"clear", "cleared"})
  /\ UNCHANGED phase

Begun(k) ==
  /\ job[k] = "queued" /\ phase # "cleared"
  /\ Becomes(k, "running")
  /\ UNCHANGED <<phase, undefined>>

Ended(k) ==
  /\ job[k] = "running"
  /\ Becomes(k, "over")
  /\ UNCHANGED <<phase, undefined>>

PoolUp ==
  /\ phase = "none"
  /\ phase' = "up"
  /\ UNCHANGED <<job, undefined>>

\* The guard: clear initialized_; take and release the lock.
PoolFlag ==
  /\ phase = "up"
  /\ phase' = "flag"
  /\ UNCHANGED <<job, undefined>>

PoolLock ==
  /\ phase = "flag"
  /\ phase' = "clear"
  /\ UNCHANGED <<job, undefined>>

\* A worker is destroyed: what it has not begun is dropped.
Dropped(D) ==
  /\ phase = "clear"
  /\ \A k \in D : job[k] = "queued"
  /\ job' = [k \in Jobs |-> IF k \in D THEN "over" ELSE job[k]]
  /\ UNCHANGED <<phase, undefined>>

\* Variant of PoolCleared: the workers are not joined.
PoolClearedAtOnce ==
  /\ phase = "clear"
  /\ phase' = "cleared"
  /\ UNCHANGED <<job, undefined>>

\* The last worker was joined.
PoolCleared ==
  /\ phase = "clear"
  /\ \A k \in Jobs : job[k] \notin {"queued", "running"}
  /\ phase' = "cleared"
  /\ UNCHANGED <<job, undefined>>

PoolNext ==
  \/ \E k \in Jobs : Called(k) \/ Accepted(k) \/ Begun(k) \/ Ended(k)
  \/ \E D \in SUBSET Jobs : Dropped(D)
  \/ PoolUp \/ PoolFlag \/ PoolLock \/ PoolCleared

PoolSpec == PoolInit /\ [][PoolNext]_poolVars
=============================================================================
