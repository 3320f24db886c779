---------------------------- MODULE ScopedCounter ----------------------------
(***************************************************************************)
(* bibstd::util::scoped_counter (src/bibstd/util/scoped_counter.cpp):      *)
(* objects of type scoped_incrementor that are made, copied, moved,        *)
(* assigned and destroyed in any order, and counters that end at any time. *)
(* Each object may hold one of the counters, which is to tell how many     *)
(* objects hold it.                                                        *)
(***************************************************************************)
EXTENDS Naturals, FiniteSets

CONSTANTS
  Counters,       \* the scoped_counters
  Incrementors,   \* the places of the objects
  null,           \* the parent_ of an object that holds no counter
  gone,           \* no object
  MaxCount        \* bound on the value of a counter

ASSUME CounterAssumption ==
  IsFiniteSet(Incrementors) /\ null \notin Counters /\ gone \notin Counters \cup {null}

VARIABLES
  counter_,     \* per counter
  parent_,      \* per incrementor: a counter, null or gone
  ended,        \* the counters whose life is over
  assigned,     \* an object that held a counter was given another one, no part of the program
  ended_early,  \* the counters that did not tell 0 when they ended, no part of the program
  dangled       \* a counter was used after its end: from then on nothing is defined

counter_vars == <<counter_, parent_, ended, assigned, ended_early, dangled>>

Object(i) == parent_[i] # gone
Holds(i) == parent_[i] \in Counters
Holders(c) == {i \in Incrementors : parent_[i] = c}

CounterInit ==
  /\ counter_ = [c \in Counters |-> 0] /\ parent_ = [i \in Incrementors |-> gone]
  /\ ended = {} /\ assigned = FALSE /\ ended_early = {} /\ dangled = FALSE

\* fetch_add and fetch_sub on the counter an object holds, if there is one.
Added(p) == IF p \in Counters THEN [counter_ EXCEPT ![p] = @ + 1] ELSE counter_
Subtracted(p) == IF p \in Counters THEN [counter_ EXCEPT ![p] = @ - 1] ELSE counter_

\* An object goes to the counter it holds without asking whether it is still there.
NotUsed == UNCHANGED <<ended, ended_early, dangled>>
Uses(p) == dangled' = (p \in ended) /\ UNCHANGED <<ended, ended_early>>

\* A counter has no destructor of its own: it ends without asking who holds it.
EndCounter(c) ==
  /\ c \notin ended /\ ended' = ended \cup {c}
  /\ ended_early' = IF counter_[c] = 0 THEN ended_early ELSE ended_early \cup {c}
  /\ UNCHANGED <<counter_, parent_, assigned, dangled>>

\* The constructors.
MakeEmpty(i) ==
  /\ ~Object(i) /\ parent_' = [parent_ EXCEPT ![i] = null]
  /\ UNCHANGED <<counter_, assigned>> /\ NotUsed

ScopedIncrement(i, c) ==
  /\ ~Object(i) /\ c \notin ended /\ counter_[c] < MaxCount
  /\ parent_' = [parent_ EXCEPT ![i] = c] /\ counter_' = Added(c)
  /\ UNCHANGED assigned /\ Uses(c)

\* Variant of Copy: the copy is not counted.
CopyUncounted(i, j) ==
  /\ ~Object(i) /\ Object(j) /\ (Holds(j) => counter_[parent_[j]] < MaxCount)
  /\ parent_' = [parent_ EXCEPT ![i] = parent_[j]]
  /\ UNCHANGED <<counter_, assigned>> /\ NotUsed

Copy(i, j) ==
  /\ ~Object(i) /\ Object(j) /\ (Holds(j) => counter_[parent_[j]] < MaxCount)
  /\ parent_' = [parent_ EXCEPT ![i] = parent_[j]] /\ counter_' = Added(parent_[j])
  /\ UNCHANGED assigned /\ Uses(parent_[j])

Move(i, j) ==
  /\ ~Object(i) /\ Object(j)
  /\ parent_' = [parent_ EXCEPT ![i] = parent_[j], ![j] = null]
  /\ UNCHANGED <<counter_, assigned>> /\ NotUsed

Destroy(i) ==
  /\ Object(i)
  /\ parent_' = [parent_ EXCEPT ![i] = gone] /\ counter_' = Subtracted(parent_[i])
  /\ UNCHANGED assigned /\ Uses(parent_[i])

\* The counter that was held before stays as it is.
Assign(i, j) ==
  /\ Object(i) /\ Object(j) /\ (Holds(j) => counter_[parent_[j]] < MaxCount)
  /\ parent_' = [parent_ EXCEPT ![i] = parent_[j]] /\ counter_' = Added(parent_[j])
  /\ assigned' = (assigned \/ Holds(i)) /\ Uses(parent_[j])

\* Only when there is nothing to take over is the counter left first.
MoveAssign(i, j) ==
  /\ Object(i) /\ Object(j)
  /\ parent_' = [[parent_ EXCEPT ![i] = parent_[j]] EXCEPT ![j] = null]
  /\ IF Holds(i) /\ ~Holds(j) THEN counter_' = Subtracted(parent_[i]) /\ Uses(parent_[i])
     ELSE UNCHANGED counter_ /\ NotUsed
  /\ assigned' = (assigned \/ (Holds(i) /\ Holds(j)))

CounterNext ==
  /\ ~dangled
  /\ \/ \E c \in Counters : EndCounter(c)
     \/ \E i \in Incrementors : MakeEmpty(i) \/ Destroy(i)
     \/ \E i \in Incrementors, c \in Counters : ScopedIncrement(i, c)
     \/ \E i, j \in Incrementors : Copy(i, j) \/ Move(i, j) \/ Assign(i, j) \/ MoveAssign(i, j)
-----------------------------------------------------------------------------
\* A counter never tells less than the number of objects that hold it, as long as it
\* lives and whatever is copied, moved and assigned; it tells more only after an object that
\* held a counter has been assigned to.  So it may end when it tells 0: no object holds it
\* then, or ever will, and none is used after its end if all of them wait for that.
NeverUndercounts ==
  /\ ~dangled => \A c \in Counters \ ended :
       /\ counter_[c] >= Cardinality(Holders(c))
       /\ ~assigned => counter_[c] = Cardinality(Holders(c))
  /\ \A c \in ended \ ended_early : Holders(c) = {}
  /\ dangled => ended_early # {}
=============================================================================
