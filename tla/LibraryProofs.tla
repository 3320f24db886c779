---------------------------- MODULE LibraryProofs ----------------------------
(***************************************************************************)
(* What the library promises for all arguments: the counters, for every    *)
(* set of objects; the pages of a lookup, for every bible and every range  *)
(* of its verses; the menu of the tray, for all its entries, however often *)
(* it is made anew; arithmetic and rectangles, for integers of every       *)
(* width; pictures, for every size of them; and the names of books, for    *)
(* all the choices tesseract may have for the characters of an image.      *)
(***************************************************************************)
EXTENDS Library, FiniteSetTheorems, WellFoundedInduction, TLAPS

Parents == Counters \cup {null, gone}

\* How many objects have the parent c, if each has the one f tells.
Tally(f, c) == Cardinality({i \in Incrementors : f[i] = c})

\* What NeverUndercounts says of the counters that live, of all of them: one that has ended
\* is not used any more but by a step that nothing is said after.
NeverTooFew ==
  \A c \in Counters :
    /\ counter_[c] >= Cardinality(Holders(c))
    /\ ~assigned => counter_[c] = Cardinality(Holders(c))

\* The objects and counters, and what the counters tell of the objects.
CounterInv ==
  /\ counter_ \in [Counters -> Nat]
  /\ parent_ \in [Incrementors -> Parents]
  /\ assigned \in BOOLEAN
  /\ NeverTooFew

\* No object holds a counter that has ended with 0.
EndInv ==
  /\ ended \subseteq Counters
  /\ \A i \in Incrementors : parent_[i] \in ended => parent_[i] \in ended_early
  /\ dangled => ended_early # {}

-----------------------------------------------------------------------------
(* There are finitely many objects, so that those that hold a counter can be counted; *)
(* and one that is given another parent leaves the others of its old one and joins    *)
(* those of the new one.                                                              *)
LEMMA TallyAfter ==
  ASSUME NEW f \in [Incrementors -> Parents], NEW g \in [Incrementors -> Parents],
         NEW i \in Incrementors, \A k \in Incrementors \ {i} : g[k] = f[k], NEW c
  PROVE  /\ Tally(f, c) \in Nat /\ Tally(g, c) \in Nat
         /\ f[i] = c => Tally(f, c) >= 1
         /\ f[i] # c /\ g[i] # c => Tally(g, c) = Tally(f, c)
         /\ f[i] = c /\ g[i] = c => Tally(g, c) = Tally(f, c)
         /\ f[i] # c /\ g[i] = c => Tally(g, c) = Tally(f, c) + 1
         /\ f[i] = c /\ g[i] # c => Tally(g, c) = Tally(f, c) - 1
<1> DEFINE H == {k \in Incrementors : f[k] = c}
           G == {k \in Incrementors : g[k] = c}
<1>1. IsFiniteSet(H) /\ IsFiniteSet(G)
  BY FS_Subset, CounterAssumption
<1>2. Cardinality(H) \in Nat /\ Cardinality(G) \in Nat
  BY <1>1, FS_CardinalityType
<1>3. G = IF g[i] = c THEN H \cup {i} ELSE H \ {i}
  OBVIOUS
<1>4. (i \in H <=> f[i] = c) /\ (f[i] # c /\ g[i] # c => H \ {i} = H)
      /\ (f[i] = c /\ g[i] = c => H \cup {i} = H)
  OBVIOUS
<1> HIDE DEF H, G
<1>5. Cardinality(H \cup {i}) = IF i \in H THEN Cardinality(H) ELSE Cardinality(H) + 1
  BY <1>1, FS_AddElement
<1>6. Cardinality(H \ {i}) = IF i \in H THEN Cardinality(H) - 1 ELSE Cardinality(H)
  BY <1>1, FS_RemoveElement
<1>7. i \in H => Cardinality(H) >= 1
  BY <1>1, <1>2, FS_EmptySet
<1>8. Tally(f, c) = Cardinality(H) /\ Tally(g, c) = Cardinality(G)
  BY DEF Tally, H, G
<1>9. QED
  BY <1>2, <1>3, <1>4, <1>5, <1>6, <1>7, <1>8

(* The counters at the begin. *)
LEMMA CounterStart == CounterInit => CounterInv
<1> SUFFICES ASSUME CounterInit PROVE CounterInv
  OBVIOUS
<1>1. ASSUME NEW c \in Counters PROVE Holders(c) = {}
  BY CounterAssumption DEF CounterInit, Holders
<1>2. \A c \in Counters : Cardinality(Holders(c)) = 0
  BY <1>1, FS_EmptySet
<1>3. counter_ \in [Counters -> Nat] /\ \A c \in Counters : counter_[c] = 0
  BY DEF CounterInit
<1>4. parent_ \in [Incrementors -> Parents] /\ assigned \in BOOLEAN
  BY DEF CounterInit, Parents
<1>5. NeverTooFew
  BY <1>2, <1>3 DEF NeverTooFew
<1>6. QED
  BY <1>3, <1>4, <1>5 DEF CounterInv

(* One of the objects is made, or destroyed, or given another parent: what is to become *)
(* of the counters follows for each of them alone.                                      *)
LEMMA OneParent ==
  ASSUME CounterInv, NEW i \in Incrementors, parent_' \in [Incrementors -> Parents],
         \A k \in Incrementors \ {i} : parent_'[k] = parent_[k],
         assigned' \in BOOLEAN, counter_' \in [Counters -> Nat],
         \A c \in Counters :
           LET leaves == IF parent_[i] = c THEN 1 ELSE 0
               joins == IF parent_'[i] = c THEN 1 ELSE 0
           IN  /\ counter_'[c] >= (counter_[c] - leaves) + joins
               /\ ~assigned' => ~assigned /\ counter_'[c] = (counter_[c] - leaves) + joins
  PROVE  CounterInv'
<1>1. PICK f \in [Incrementors -> Parents], g \in [Incrementors -> Parents] :
             f = parent_ /\ g = parent_' /\ \A k \in Incrementors \ {i} : g[k] = f[k]
  BY DEF CounterInv
<1>2. ASSUME NEW c \in Counters
      PROVE  counter_'[c] >= Tally(g, c) /\ (~assigned' => counter_'[c] = Tally(g, c))
  <2>1. /\ counter_[c] \in Nat /\ counter_'[c] \in Nat /\ counter_[c] >= Tally(f, c)
        /\ ~assigned => counter_[c] = Tally(f, c)
    BY <1>1 DEF CounterInv, NeverTooFew, Tally, Holders
  <2>2. /\ Tally(f, c) \in Nat /\ Tally(g, c) \in Nat
        /\ f[i] # c /\ g[i] # c => Tally(g, c) = Tally(f, c)
        /\ f[i] = c /\ g[i] = c => Tally(g, c) = Tally(f, c)
        /\ f[i] # c /\ g[i] = c => Tally(g, c) = Tally(f, c) + 1
        /\ f[i] = c /\ g[i] # c => Tally(g, c) = Tally(f, c) - 1
    BY <1>1, TallyAfter
  <2>3. QED
    BY <1>1, <2>1, <2>2
<1>3. QED
  BY <1>1, <1>2 DEF CounterInv, NeverTooFew, Tally, Holders

(* An object that takes over the counter of another one leaves its own, if it had one: *)
(* the other counters are held as often as before.                                     *)
LEMMA TallyMoved ==
  ASSUME NEW f \in [Incrementors -> Parents], NEW h \in [Incrementors -> Parents],
         NEW i \in Incrementors, NEW j \in Incrementors, i # j, h[i] = f[j], h[j] = null,
         \A k \in Incrementors \ {i, j} : h[k] = f[k], NEW c \in Counters
  PROVE  /\ Tally(f, c) \in Nat /\ Tally(h, c) \in Nat
         /\ f[i] # c => Tally(h, c) = Tally(f, c)
         /\ f[i] = c => Tally(h, c) = Tally(f, c) - 1
<1>1. PICK g \in [Incrementors -> Parents] :
        g[i] = f[j] /\ \A k \in Incrementors \ {i} : g[k] = f[k]
  <2>1. [f EXCEPT ![i] = f[j]] \in [Incrementors -> Parents]
    OBVIOUS
  <2>2. QED
    BY <2>1
<1>2. g[j] = f[j] /\ h[i] = g[i] /\ h[j] # c /\ \A k \in Incrementors \ {j} : h[k] = g[k]
  BY <1>1, CounterAssumption
<1>3. /\ Tally(f, c) \in Nat /\ Tally(g, c) \in Nat
      /\ f[i] # c /\ g[i] # c => Tally(g, c) = Tally(f, c)
      /\ f[i] = c /\ g[i] = c => Tally(g, c) = Tally(f, c)
      /\ f[i] # c /\ g[i] = c => Tally(g, c) = Tally(f, c) + 1
      /\ f[i] = c /\ g[i] # c => Tally(g, c) = Tally(f, c) - 1
  BY <1>1, TallyAfter
<1>4. /\ Tally(h, c) \in Nat
      /\ g[j] # c /\ h[j] # c => Tally(h, c) = Tally(g, c)
      /\ g[j] = c /\ h[j] # c => Tally(h, c) = Tally(g, c) - 1
  BY <1>2, TallyAfter
<1>5. QED
  BY <1>1, <1>2, <1>3, <1>4

(* A move between two objects. *)
LEMMA TwoParents ==
  ASSUME CounterInv, NEW i \in Incrementors, NEW j \in Incrementors, i # j,
         parent_' \in [Incrementors -> Parents], parent_'[i] = parent_[j], parent_'[j] = null,
         \A k \in Incrementors \ {i, j} : parent_'[k] = parent_[k],
         assigned' \in BOOLEAN, counter_' \in [Counters -> Nat],
         \A c \in Counters :
           LET leaves == IF parent_[i] = c THEN 1 ELSE 0
           IN  /\ counter_'[c] >= counter_[c] - leaves
               /\ ~assigned' => ~assigned /\ counter_'[c] = counter_[c] - leaves
  PROVE  CounterInv'
<1>1. PICK f \in [Incrementors -> Parents], h \in [Incrementors -> Parents] :
             /\ f = parent_ /\ h = parent_' /\ h[i] = f[j] /\ h[j] = null
             /\ \A k \in Incrementors \ {i, j} : h[k] = f[k]
  BY DEF CounterInv
<1>2. ASSUME NEW c \in Counters
      PROVE  counter_'[c] >= Tally(h, c) /\ (~assigned' => counter_'[c] = Tally(h, c))
  <2>1. /\ counter_[c] \in Nat /\ counter_'[c] \in Nat /\ counter_[c] >= Tally(f, c)
        /\ ~assigned => counter_[c] = Tally(f, c)
    BY <1>1 DEF CounterInv, NeverTooFew, Tally, Holders
  <2>2. /\ Tally(f, c) \in Nat /\ Tally(h, c) \in Nat
        /\ f[i] # c => Tally(h, c) = Tally(f, c)
        /\ f[i] = c => Tally(h, c) = Tally(f, c) - 1
    BY <1>1, TallyMoved
  <2>3. QED
    BY <1>1, <2>1, <2>2
<1>3. QED
  BY <1>1, <1>2 DEF CounterInv, NeverTooFew, Tally, Holders

(* A counter that is held is not zero. *)
LEMMA HeldIsPositive ==
  ASSUME CounterInv, NEW i \in Incrementors, parent_[i] \in Counters
  PROVE  counter_[parent_[i]] \in Nat \ {0}
<1>1. PICK f \in [Incrementors -> Parents], c \in Counters : f = parent_ /\ c = f[i]
  BY DEF CounterInv
<1>2. Tally(f, c) \in Nat /\ Tally(f, c) >= 1
  BY <1>1, TallyAfter
<1>3. counter_[c] \in Nat /\ counter_[c] >= Tally(f, c)
  BY <1>1 DEF CounterInv, NeverTooFew, Tally, Holders
<1>4. QED
  BY <1>1, <1>2, <1>3

(* What becomes of the counters when one is joined or left. *)
LEMMA AddedOne ==
  ASSUME CounterInv, NEW p \in Parents
  PROVE  /\ Added(p) \in [Counters -> Nat]
         /\ \A c \in Counters : Added(p)[c] = counter_[c] + (IF p = c THEN 1 ELSE 0)
BY CounterAssumption DEF CounterInv, Added, Parents

LEMMA SubtractedOne ==
  ASSUME CounterInv, NEW i \in Incrementors
  PROVE  /\ Subtracted(parent_[i]) \in [Counters -> Nat]
         /\ \A c \in Counters :
              Subtracted(parent_[i])[c] = counter_[c] - (IF parent_[i] = c THEN 1 ELSE 0)
<1>1. CASE parent_[i] \in Counters
  BY <1>1, HeldIsPositive DEF CounterInv, Subtracted
<1>2. CASE parent_[i] \notin Counters
  BY <1>2 DEF CounterInv, Subtracted
<1>3. QED
  BY <1>1, <1>2

(* A counter ends as it is. *)
LEMMA EndCounted ==
  ASSUME CounterInv, NEW c \in Counters, EndCounter(c)
  PROVE  CounterInv'
BY DEF CounterInv, EndCounter, NeverTooFew, Holders

(* Each step of the objects keeps what the counters tell of them. *)
LEMMA CounterStep ==
  ASSUME CounterInv, CounterNext
  PROVE  CounterInv'
<1> USE CounterAssumption
<1>1. /\ counter_ \in [Counters -> Nat] /\ parent_ \in [Incrementors -> Parents]
      /\ assigned \in BOOLEAN /\ null \in Parents /\ gone \in Parents
      /\ Counters \subseteq Parents
  BY DEF CounterInv, Parents
<1>2. ASSUME NEW i \in Incrementors, MakeEmpty(i) PROVE CounterInv'
  BY <1>1, <1>2, OneParent DEF MakeEmpty, Object
<1>3. ASSUME NEW i \in Incrementors, Destroy(i) PROVE CounterInv'
  BY <1>1, <1>3, OneParent, SubtractedOne DEF Destroy
<1>4. ASSUME NEW i \in Incrementors, NEW c \in Counters, ScopedIncrement(i, c) PROVE CounterInv'
  BY <1>1, <1>4, OneParent, AddedOne DEF ScopedIncrement, Object
<1>5. ASSUME NEW i \in Incrementors, NEW j \in Incrementors, Copy(i, j) PROVE CounterInv'
  BY <1>1, <1>5, OneParent, AddedOne DEF Copy, Object
<1>6. ASSUME NEW i \in Incrementors, NEW j \in Incrementors, Move(i, j) PROVE CounterInv'
  BY <1>1, <1>6, TwoParents DEF Move, Object
<1>7. ASSUME NEW i \in Incrementors, NEW j \in Incrementors, Assign(i, j) PROVE CounterInv'
  <2>1. /\ parent_' \in [Incrementors -> Parents] /\ parent_'[i] = parent_[j]
        /\ \A k \in Incrementors \ {i} : parent_'[k] = parent_[k]
    BY <1>1, <1>7 DEF Assign
  <2>2. /\ counter_' = Added(parent_[j]) /\ assigned' \in BOOLEAN
        /\ ~assigned' => ~assigned /\ parent_[i] \notin Counters
    BY <1>1, <1>7 DEF Assign, Holds
  <2>3. /\ counter_' \in [Counters -> Nat]
        /\ \A c \in Counters : counter_'[c] = counter_[c] + (IF parent_[j] = c THEN 1 ELSE 0)
    BY <1>1, <2>2, AddedOne
  <2>4. ASSUME NEW c \in Counters
        PROVE  LET leaves == IF parent_[i] = c THEN 1 ELSE 0
                   joins == IF parent_'[i] = c THEN 1 ELSE 0
               IN  /\ counter_'[c] >= (counter_[c] - leaves) + joins
                   /\ ~assigned' => ~assigned /\ counter_'[c] = (counter_[c] - leaves) + joins
    BY <1>1, <2>1, <2>2, <2>3
  <2>5. QED
    BY <2>1, <2>2, <2>3, <2>4, OneParent
<1>8. ASSUME NEW i \in Incrementors, NEW j \in Incrementors, MoveAssign(i, j) PROVE CounterInv'
  <2>1. /\ parent_' \in [Incrementors -> Parents] /\ parent_'[j] = null
        /\ \A k \in Incrementors \ {i, j} : parent_'[k] = parent_[k]
        /\ i # j => parent_'[i] = parent_[j]
    BY <1>1, <1>8 DEF MoveAssign
  <2>2. /\ assigned' \in BOOLEAN
        /\ ~assigned' => ~assigned /\ (parent_[i] \notin Counters \/ parent_[j] \notin Counters)
    BY <1>1, <1>8 DEF MoveAssign, Holds
  <2>3. /\ counter_' \in [Counters -> Nat]
        /\ \A c \in Counters :
             \/ counter_'[c] = counter_[c] - (IF parent_[i] = c THEN 1 ELSE 0)
             \/ parent_[j] \in Counters /\ counter_'[c] = counter_[c]
    <3>1. CASE parent_[i] \in Counters /\ parent_[j] \notin Counters
      <4>1. counter_' = Subtracted(parent_[i])
        BY <1>8, <3>1 DEF MoveAssign, Holds
      <4>2. QED
        BY <4>1, SubtractedOne
    <3>2. CASE parent_[i] \notin Counters \/ parent_[j] \in Counters
      <4>1. counter_' = counter_
        BY <1>8, <3>2 DEF MoveAssign, Holds
      <4>2. QED
        BY <1>1, <3>2, <4>1
    <3>3. QED
      BY <3>1, <3>2
  <2>4. ASSUME NEW c \in Counters
        PROVE  LET leaves == IF parent_[i] = c THEN 1 ELSE 0
               IN  /\ counter_'[c] >= counter_[c] - leaves
                   /\ ~assigned' => ~assigned /\ counter_'[c] = counter_[c] - leaves
    BY <1>1, <2>2, <2>3
  <2>5. CASE i = j
    <3>1. \A k \in Incrementors \ {i} : parent_'[k] = parent_[k]
      BY <2>1, <2>5
    <3>2. \A c \in Counters : parent_'[i] # c
      BY <2>1, <2>5
    <3>3. ASSUME NEW c \in Counters
          PROVE  LET leaves == IF parent_[i] = c THEN 1 ELSE 0
                     joins == IF parent_'[i] = c THEN 1 ELSE 0
                 IN  /\ counter_'[c] >= (counter_[c] - leaves) + joins
                     /\ ~assigned' => ~assigned /\ counter_'[c] = (counter_[c] - leaves) + joins
      BY <1>1, <2>3, <2>4, <3>2
    <3>4. QED
      BY <2>1, <2>2, <2>3, <3>1, <3>3, OneParent
  <2>6. CASE i # j
    BY <2>1, <2>2, <2>3, <2>4, <2>6, TwoParents
  <2>7. QED
    BY <2>5, <2>6
<1>9. QED
  BY <1>2, <1>3, <1>4, <1>5, <1>6, <1>7, <1>8, EndCounted DEF CounterNext

(* A counter that tells 0 is held by no object. *)
LEMMA ZeroIsFree ==
  ASSUME CounterInv, NEW c \in Counters, counter_[c] = 0
  PROVE  Holders(c) = {}
<1>1. IsFiniteSet(Holders(c))
  BY FS_Subset, CounterAssumption DEF Holders
<1>2. Cardinality(Holders(c)) \in Nat /\ Cardinality(Holders(c)) <= 0
  BY <1>1, FS_CardinalityType DEF CounterInv, NeverTooFew
<1>3. QED
  BY <1>1, <1>2, FS_EmptySet

(* The objects take over what others hold, or a counter that has not ended: none comes to *)
(* hold one that has.                                                                     *)
LEMMA StillFree ==
  ASSUME EndInv, UNCHANGED <<ended, ended_early>>, dangled' => dangled \/ ended_early # {},
         \A i \in Incrementors :
           \/ parent_'[i] \notin ended
           \/ \E j \in Incrementors : parent_'[i] = parent_[j]
  PROVE  EndInv'
BY DEF EndInv

(* A counter that is used is one that an object holds. *)
LEMMA UseOfHeld ==
  ASSUME EndInv, NEW i \in Incrementors, Uses(parent_[i])
  PROVE  /\ UNCHANGED <<ended, ended_early>>
         /\ dangled' => dangled \/ ended_early # {}
BY DEF EndInv, Uses

(* Each step keeps that no object holds a counter that has ended with 0. *)
LEMMA EndStep ==
  ASSUME CounterInv, EndInv, CounterNext
  PROVE  EndInv'
<1> USE CounterAssumption
<1>1. parent_ \in [Incrementors -> Parents] /\ null \notin ended /\ gone \notin ended
  BY DEF CounterInv, EndInv
<1>2. ASSUME NEW c \in Counters, EndCounter(c) PROVE EndInv'
  <2>1. counter_[c] = 0 => \A i \in Incrementors : parent_[i] # c
    BY ZeroIsFree DEF Holders
  <2>2. /\ ended' = ended \cup {c} /\ parent_' = parent_ /\ dangled' = dangled
        /\ ended_early' = IF counter_[c] = 0 THEN ended_early ELSE ended_early \cup {c}
    BY <1>2 DEF EndCounter
  <2>3. QED
    BY <2>1, <2>2 DEF EndInv
<1>3. ASSUME NEW i \in Incrementors, MakeEmpty(i) PROVE EndInv'
  BY <1>1, <1>3, StillFree DEF MakeEmpty, NotUsed
<1>4. ASSUME NEW i \in Incrementors, Destroy(i) PROVE EndInv'
  BY <1>1, <1>4, StillFree, UseOfHeld DEF Destroy
<1>5. ASSUME NEW i \in Incrementors, NEW c \in Counters, ScopedIncrement(i, c) PROVE EndInv'
  BY <1>1, <1>5, StillFree DEF ScopedIncrement, Uses
<1>6. ASSUME NEW i \in Incrementors, NEW j \in Incrementors, Copy(i, j) PROVE EndInv'
  BY <1>1, <1>6, StillFree, UseOfHeld DEF Copy
<1>7. ASSUME NEW i \in Incrementors, NEW j \in Incrementors, Move(i, j) PROVE EndInv'
  BY <1>1, <1>7, StillFree DEF Move, NotUsed
<1>8. ASSUME NEW i \in Incrementors, NEW j \in Incrementors, Assign(i, j) PROVE EndInv'
  BY <1>1, <1>8, StillFree, UseOfHeld DEF Assign
<1>9. ASSUME NEW i \in Incrementors, NEW j \in Incrementors, MoveAssign(i, j) PROVE EndInv'
  <2>1. /\ UNCHANGED <<ended, ended_early>>
        /\ dangled' => dangled \/ ended_early # {}
    BY <1>9, UseOfHeld DEF MoveAssign, NotUsed
  <2>2. parent_' = [[parent_ EXCEPT ![i] = parent_[j]] EXCEPT ![j] = null]
    BY <1>9 DEF MoveAssign
  <2>3. QED
    BY <1>1, <2>1, <2>2, StillFree
<1>10. QED
  BY <1>2, <1>3, <1>4, <1>5, <1>6, <1>7, <1>8, <1>9 DEF CounterNext

(* As long as it lives a counter never tells less than the number of objects that hold *)
(* it, and tells more only after an object that held a counter was assigned to; and no *)
(* object uses a counter after its end if each of them told 0 when it ended: for every *)
(* number of counters and objects, and however often objects are copied, moved,        *)
(* assigned and destroyed and counters end.                                            *)
THEOREM CountersCount == Spec => []NeverUndercounts
<1>1. Init => CounterInv /\ EndInv
  BY CounterStart DEF Init, CounterInit, EndInv
<1>2. CounterInv /\ EndInv /\ [Next]_vars => CounterInv' /\ EndInv'
  <2> SUFFICES ASSUME CounterInv, EndInv, [Next]_vars PROVE CounterInv' /\ EndInv'
    OBVIOUS
  <2>1. CASE Count
    BY <2>1, CounterStep, EndStep DEF Count
  <2>2. CASE UNCHANGED counter_vars
    BY <2>2 DEF counter_vars, CounterInv, EndInv, NeverTooFew, Holders
  <2>3. Count \/ UNCHANGED counter_vars
    BY DEF Next, vars, Call, UseMenu, Compute, MakeRectangle, CompareRectangles, MatchChoices,
           OpenPages, PrintRange, CiteNames, PrintEnumerator, CaptureScreen
  <2>4. QED
    BY <2>1, <2>2, <2>3
<1>3. CounterInv /\ EndInv => NeverUndercounts
  BY CounterAssumption DEF CounterInv, EndInv, NeverTooFew, NeverUndercounts, Holders
<1>4. QED
  BY <1>1, <1>2, <1>3, PTL DEF Spec
-----------------------------------------------------------------------------
(* A set of numbers that is not empty has a least element, and Min is it. *)
LEMMA MinOfNumbers ==
  ASSUME NEW T \in SUBSET Nat, T # {}
  PROVE  Min(T) \in T /\ \A y \in T : Min(T) <= y
<1> DEFINE R == {ss \in Nat \X Nat : ss[1] < ss[2]}
<1>1. IsWellFoundedOn(R, Nat)
  BY NatLessThanWellFounded DEF OpToRel
<1>2. PICK x \in T : \A y \in T : <<y, x>> \notin R
  <2> HIDE DEF R
  <2> QED
    BY <1>1, WFMin
<1>3. ASSUME NEW y \in T PROVE x <= y
  <2>1. <<y, x>> \in Nat \X Nat /\ <<y, x>>[1] = y /\ <<y, x>>[2] = x
    OBVIOUS
  <2>2. ~(y < x)
    BY <1>2, <2>1
  <2>3. QED
    BY <2>2
<1>4. QED
  BY <1>3 DEF Min

(* The first of the pages that the browser fails on, or 0. *)
Failed(pages, outcome) ==
  SelectInSeq([i \in DOMAIN pages |-> outcome[i]], LAMBDA o : ~Succeeds(o))

LEMMA FirstFailure ==
  ASSUME NEW count \in Nat, NEW pages, DOMAIN pages = 1 .. count, NEW outcome
  PROVE  \/ Failed(pages, outcome) = 0 /\ \A n \in 1 .. count : Succeeds(outcome[n])
         \/ /\ Failed(pages, outcome) \in 1 .. count /\ ~Succeeds(outcome[Failed(pages, outcome)])
            /\ \A n \in 1 .. count : n < Failed(pages, outcome) => Succeeds(outcome[n])
<1> DEFINE I == {n \in 1 .. count : ~Succeeds(outcome[n])}
           results == [i \in 1 .. count |-> outcome[i]]
<1>1. Len(results) = count
  OBVIOUS
<1>2. Failed(pages, outcome) = IF I # {} THEN Min(I) ELSE 0
  BY <1>1 DEF Failed, SelectInSeq
<1>3. I \subseteq Nat
  OBVIOUS
<1>4. I # {} => Min(I) \in I /\ \A n \in I : Min(I) <= n
  <2> HIDE DEF I
  <2>1. QED
    BY <1>3, MinOfNumbers
<1>5. QED
  BY <1>2, <1>4

-----------------------------------------------------------------------------
(* A sequence is its length and its elements. *)
LEMMA SameSequence ==
  ASSUME NEW Values, NEW s \in Seq(Values), NEW t \in Seq(Values), Len(s) = Len(t), \A i \in 1 .. Len(s) : s[i] = t[i]
  PROVE  s = t
<1>1. s = [i \in 1 .. Len(s) |-> s[i]] /\ t = [i \in 1 .. Len(t) |-> t[i]]
  OBVIOUS
<1>2. QED
  BY <1>1

\* How three sequences are joined makes no difference.
JoinedAlike(a, b, c) == (a \o b) \o c = a \o (b \o c)

(* That is true of all sequences. *)
LEMMA Associative ==
  ASSUME NEW Values, NEW a \in Seq(Values), NEW b \in Seq(Values), NEW c \in Seq(Values)
  PROVE  JoinedAlike(a, b, c)
<1> DEFINE x == (a \o b) \o c
           y == a \o (b \o c)
<1>1. /\ x \in Seq(Values) /\ y \in Seq(Values) /\ a \o b \in Seq(Values) /\ b \o c \in Seq(Values)
      /\ Len(x) = Len(a) + Len(b) + Len(c) /\ Len(y) = Len(x)
      /\ Len(a \o b) = Len(a) + Len(b) /\ Len(b \o c) = Len(b) + Len(c)
  OBVIOUS
<1>2. ASSUME NEW i \in 1 .. Len(x) PROVE x[i] = y[i]
  <2>0. Len(a) \in Nat /\ Len(b) \in Nat /\ Len(c) \in Nat /\ i \in Nat /\ i >= 1 /\ i <= Len(a) + Len(b) + Len(c)
    BY <1>1
  <2>1. CASE i <= Len(a)
    <3>1. i \in 1 .. Len(a) /\ i \in 1 .. Len(a \o b)
      BY <1>1, <2>0, <2>1
    <3>2. x[i] = (a \o b)[i] /\ (a \o b)[i] = a[i] /\ y[i] = a[i]
      BY <1>1, <3>1
    <3>3. QED
      BY <3>2
  <2>2. CASE ~(i <= Len(a)) /\ i <= Len(a) + Len(b)
    <3>1. i \in Len(a) + 1 .. Len(a) + Len(b) /\ i \in 1 .. Len(a \o b) /\ i - Len(a) \in 1 .. Len(b)
          /\ i \in Len(a) + 1 .. Len(a) + Len(b \o c) /\ i - Len(a) \in 1 .. Len(b \o c)
      BY <1>1, <2>0, <2>2
    <3>2. x[i] = (a \o b)[i] /\ (a \o b)[i] = b[i - Len(a)]
      BY <1>1, <3>1
    <3>3. y[i] = (b \o c)[i - Len(a)] /\ (b \o c)[i - Len(a)] = b[i - Len(a)]
      BY <1>1, <3>1
    <3>4. QED
      BY <3>2, <3>3
  <2>3. CASE ~(i <= Len(a)) /\ ~(i <= Len(a) + Len(b))
    <3>1. i - Len(a) - Len(b) \in 1 .. Len(c) /\ i - Len(a) \in 1 .. Len(b \o c)
          /\ i - (Len(a) + Len(b)) = i - Len(a) - Len(b)
      BY <1>1, <2>0, <2>3
    <3>2. x[i] = c[i - (Len(a) + Len(b))]
      BY <1>1, <2>0, <2>3, <3>1
    <3>3. y[i] = (b \o c)[i - Len(a)] /\ (b \o c)[i - Len(a)] = c[i - Len(a) - Len(b)]
      BY <1>1, <2>0, <2>3, <3>1
    <3>4. QED
      BY <3>1, <3>2, <3>3
  <2>4. QED
    BY <2>1, <2>2, <2>3
<1>3. QED
  <2> HIDE DEF x, y
  <2>1. x = y
    BY <1>1, <1>2, SameSequence
  <2>2. QED
    BY <2>1 DEF x, y, JoinedAlike

(* What holds at the begin of a range of numbers and, if of one of them, of the next one, *)
(* holds of all.                                                                          *)
LEMMA UpTo ==
  ASSUME NEW a \in Nat, NEW b \in Nat, NEW T, a \in T, \A i \in a .. b - 1 : i \in T => i + 1 \in T
  PROVE  \A i \in a .. b : i \in T
<1> DEFINE D == {i \in a .. b : i \notin T}
<1>1. SUFFICES ASSUME D # {} PROVE FALSE
  OBVIOUS
<1>2. PICK i \in D : \A j \in D : i <= j
  <2>1. D \in SUBSET Nat
    OBVIOUS
  <2>2. QED
    BY <1>1, <2>1, MinOfNumbers
<1>3. i \in Nat /\ i # a /\ a <= i /\ i <= b
  OBVIOUS
<1>4. i - 1 \in a .. b - 1 /\ i - 1 \in a .. b /\ ~(i <= i - 1) /\ i - 1 + 1 = i
  BY <1>3
<1>5. i - 1 \in T
  BY <1>2, <1>4
<1>6. QED
  BY <1>4, <1>5

(* The same from the end. *)
LEMMA DownTo ==
  ASSUME NEW a \in Nat, NEW b \in Nat, NEW T, b \in T, \A i \in a .. b - 1 : i + 1 \in T => i \in T
  PROVE  \A i \in a .. b : i \in T
<1> DEFINE U == {i \in 0 .. b : b - i \in T}
<1>1. SUFFICES ASSUME a <= b PROVE \A i \in a .. b : i \in T
  OBVIOUS
<1>2. 0 \in U /\ b - a \in Nat
  BY <1>1
<1>3. ASSUME NEW i \in 0 .. b - a - 1, i \in U PROVE i + 1 \in U
  <2>1. b - (i + 1) \in a .. b - 1 /\ b - (i + 1) + 1 = b - i /\ i + 1 \in 0 .. b
    BY <1>1
  <2>2. QED
    BY <1>3, <2>1
<1>4. \A i \in 0 .. b - a : i \in U
  <2> HIDE DEF U
  <2> QED
    BY <1>2, <1>3, UpTo
<1>5. ASSUME NEW i \in a .. b PROVE i \in T
  <2>1. b - i \in 0 .. b - a /\ b - (b - i) = i
    BY <1>1
  <2>2. b - i \in U
    BY <1>4, <2>1
  <2>3. QED
    BY <2>1, <2>2
<1>6. QED
  BY <1>5

\* The values of S that n steps lead to, one after the other.
IsRun(n, S, first, step, g) ==
  g \in [0 .. n -> S] /\ g[0] = first /\ \A i \in 1 .. n : g[i] = step[i][g[i - 1]]

(* If every step leads from a value to a value, the steps can be taken. *)
LEMMA StepsExist ==
  ASSUME NEW n \in Nat, NEW S, NEW first \in S, NEW step, \A i \in 1 .. n : step[i] \in [S -> S]
  PROVE  \E g : IsRun(n, S, first, step, g)
<1> DEFINE Run(m, g) == g \in [0 .. m -> S] /\ g[0] = first /\ \A i \in 1 .. m : g[i] = step[i][g[i - 1]]
           T == {m \in 0 .. n : \E g : Run(m, g)}
<1>1. 0 \in T
  <2>1. Run(0, [i \in 0 .. 0 |-> first])
    OBVIOUS
  <2> HIDE DEF Run
  <2> QED
    BY <2>1
<1>2. ASSUME NEW m \in 0 .. n - 1, m \in T PROVE m + 1 \in T
  <2>1. PICK g : Run(m, g)
    BY <1>2
  <2> DEFINE h == [i \in 0 .. m + 1 |-> IF i = m + 1 THEN step[m + 1][g[m]] ELSE g[i]]
  <2>2. /\ g \in [0 .. m -> S] /\ m \in 0 .. m /\ m + 1 \in 1 .. n /\ m + 1 \in 0 .. n /\ m + 1 - 1 = m
        /\ \A i \in 0 .. m : i \in 0 .. m + 1 /\ i # m + 1
        /\ \A i \in 0 .. m + 1 : i \in 0 .. m \/ i = m + 1
        /\ \A i \in 1 .. m + 1 : i - 1 \in 0 .. m /\ (i \in 1 .. m \/ i = m + 1)
    BY <2>1
  <2>3. step[m + 1] \in [S -> S] /\ g[m] \in S
    BY <2>2
  <2>4. step[m + 1][g[m]] \in S
    BY <2>3
  <2>5. h \in [0 .. m + 1 -> S] /\ h[m + 1] = step[m + 1][g[m]] /\ \A i \in 0 .. m : h[i] = g[i]
    BY <2>2, <2>4
  <2>6. h[0] = first
    BY <2>1, <2>5
  <2>7. ASSUME NEW i \in 1 .. m + 1 PROVE h[i] = step[i][h[i - 1]]
    <3>1. CASE i = m + 1
      <4>1. i - 1 = m /\ h[i - 1] = g[m]
        BY <2>2, <2>5, <3>1
      <4>2. QED
        BY <2>5, <3>1, <4>1
    <3>2. CASE i \in 1 .. m
      BY <2>1, <2>2, <2>5, <3>2
    <3>3. QED
      BY <2>2, <3>1, <3>2
  <2>8. Run(m + 1, h)
    <3> HIDE DEF h
    <3> QED
      BY <2>5, <2>6, <2>7
  <2>9. QED
    <3> HIDE DEF Run, h
    <3> QED
      BY <2>2, <2>8
<1>3. \A m \in 0 .. n : m \in T
  <2> HIDE DEF T
  <2> QED
    BY <1>1, <1>2, UpTo
<1>4. n \in T
  <2> HIDE DEF T
  <2> QED
    BY <1>3
<1>5. QED
  BY <1>4 DEF IsRun

(* Sequences are flattened one after the other. *)
LEMMA FlattenIs ==
  ASSUME NEW Values, NEW s \in Seq(Seq(Values))
  PROVE  \E f \in [0 .. Len(s) -> Seq(Values)] :
           /\ f[0] = << >> /\ \A i \in 1 .. Len(s) : f[i] = f[i - 1] \o s[i]
           /\ FlattenSeq(s) = f[Len(s)]
<1> DEFINE n == Len(s)
           S == Seq(Values)
           step == [i \in 1 .. n |-> [x \in S |-> x \o s[i]]]
<1>1. n \in Nat /\ << >> \in S /\ \A i \in 1 .. n : s[i] \in S
  OBVIOUS
<1>2. step \in [1 .. n -> [S -> S]]
  BY <1>1
<1>3. PICK f \in [0 .. n -> S] : f[0] = << >> /\ \A i \in 1 .. n : f[i] = step[i][f[i - 1]]
  <2>1. \A i \in 1 .. n : step[i] \in [S -> S]
    BY <1>2
  <2>2. PICK f : IsRun(n, S, << >>, step, f)
    <3> HIDE DEF n, S, step
    <3> QED
      BY <1>1, <2>1, StepsExist
  <2>3. QED
    <3> HIDE DEF n, S, step
    <3> QED
      BY <2>2 DEF IsRun
<1>4. ASSUME NEW i \in 1 .. n PROVE f[i] = f[i - 1] \o s[i]
  <2>1. i - 1 \in 0 .. n
    BY <1>1
  <2>2. f[i - 1] \in S
    BY <2>1
  <2>3. step[i][f[i - 1]] = f[i - 1] \o s[i]
    BY <2>2
  <2>4. QED
    BY <1>3, <2>3
<1>5. CASE n = 0
  <2>1. FlattenSeq(s) = s /\ s = << >>
    BY <1>5 DEF FlattenSeq
  <2>2. FlattenSeq(s) = f[n]
    BY <1>3, <1>5, <2>1
  <2>3. QED
    BY <1>3, <1>4, <2>2
<1>6. CASE n # 0
  <2>0. 1 \in 1 .. n /\ f[1] = s[1]
    <3>1. 1 \in 1 .. n /\ 1 - 1 = 0
      BY <1>1, <1>6
    <3>2. f[1] = f[0] \o s[1]
      BY <1>4, <3>1
    <3>3. << >> \o s[1] = s[1]
      BY <1>1, <3>1
    <3>4. QED
      BY <1>3, <3>1, <3>2, <3>3
  <2> DEFINE Body(g, i) == IF i = 1 THEN s[i] ELSE g[i - 1] \o s[i]
             flatten == CHOOSE g : g = [i \in 1 .. Len(s) |-> Body(g, i)]
  <2>1. FlattenSeq(s) = flatten[n]
    BY <1>6 DEF FlattenSeq
  <2> DEFINE h == [i \in 1 .. n |-> f[i]]
  <2>2. ASSUME NEW i \in 1 .. n PROVE h[i] = Body(h, i)
    <3>1. CASE i = 1
      BY <2>0, <3>1
    <3>2. CASE i # 1
      <4>1. i - 1 \in 1 .. n
        BY <3>2
      <4>2. QED
        BY <1>4, <3>2, <4>1
    <3>3. QED
      BY <3>1, <3>2
  <2>3. h = [i \in 1 .. Len(s) |-> Body(h, i)]
    BY <2>2
  <2>4. flatten = [i \in 1 .. Len(s) |-> Body(flatten, i)]
    <3> HIDE DEF h, Body
    <3> QED
      BY <2>3
  <2>5. PICK F : F = flatten /\ \A i \in 1 .. n : F[i] = IF i = 1 THEN s[i] ELSE F[i - 1] \o s[i]
    <3> HIDE DEF flatten
    <3> QED
      BY <2>4
  <2> HIDE DEF flatten, h
  <2> DEFINE U == {i \in 1 .. n : F[i] = f[i]}
  <2>6. 1 \in U /\ 1 \in Nat
    BY <2>0, <2>5
  <2>7. ASSUME NEW i \in 1 .. n - 1, i \in U PROVE i + 1 \in U
    <3>1. PICK j \in 1 .. n : j = i + 1 /\ j # 1 /\ j - 1 = i
      BY <1>1
    <3>2. F[j] = F[i] \o s[j] /\ f[j] = f[i] \o s[j]
      BY <1>4, <2>5, <3>1
    <3>3. QED
      BY <2>7, <3>1, <3>2
  <2>8. \A i \in 1 .. n : i \in U
    <3> HIDE DEF U, n
    <3> QED
      BY <1>1, <2>6, <2>7, UpTo
  <2>9. n \in 1 .. n
    BY <1>1, <1>6
  <2>10. FlattenSeq(s) = f[n]
    BY <2>1, <2>5, <2>8, <2>9
  <2>11. QED
    BY <1>3, <1>4, <2>10
<1>7. QED
  BY <1>5, <1>6

-----------------------------------------------------------------------------
(* The verses of the bible. *)
LEMMA PlacesMember ==
  ASSUME NEW b, NEW c, NEW v
  PROVE  <<b, c, v>> \in Places <=>
           b \in Books /\ c \in DOMAIN Verses[b] /\ v \in 1 .. Verses[b][c]
  BY DEF Places

LEMMA PlacesTriples ==
  ASSUME NEW p \in Places
  PROVE  \E b \in Books : \E c \in 1 .. Len(Verses[b]) : \E v \in 1 .. Verses[b][c] :
           p = <<b, c, v>> /\ b \in Nat /\ c \in Nat \ {0} /\ v \in Nat \ {0} /\ Verses[b][c] \in Nat \ {0}
<1>1. PICK b \in Books : \E c \in DOMAIN Verses[b] : \E v \in 1 .. Verses[b][c] : p = <<b, c, v>>
  BY DEF Places
<1>2. PICK c \in DOMAIN Verses[b] : \E v \in 1 .. Verses[b][c] : p = <<b, c, v>>
  BY <1>1
<1>3. PICK v \in 1 .. Verses[b][c] : p = <<b, c, v>>
  BY <1>2
<1>4. Verses[b] \in Seq(Nat \ {0}) /\ DOMAIN Verses[b] = 1 .. Len(Verses[b])
  BY BibleAssumption
<1>5. Verses[b][c] \in Nat \ {0}
  BY <1>2, <1>4
<1>6. b \in Nat /\ c \in Nat \ {0} /\ c \in 1 .. Len(Verses[b]) /\ v \in Nat \ {0}
  BY <1>4, <1>5, BibleAssumption DEF Books
<1>7. QED
  BY <1>3, <1>5, <1>6

(* The two references of a range, and their order. *)
Ordered(range) == IsReference(range.from) /\ IsReference(range.to) /\ ~Less(range.to, range.from)

LEMMA ReferenceFits ==
  ASSUME NEW r, IsReference(r)
  PROVE  /\ r.book \in Books /\ r.book \in Nat
         /\ DOMAIN Verses[r.book] = 1 .. Len(Verses[r.book]) /\ Len(Verses[r.book]) \in Nat \ {0}
         /\ \A c \in 1 .. Len(Verses[r.book]) :
              Verses[r.book][c] \in Nat \ {0} /\ verse_count(r.book, c) = Verses[r.book][c]
         /\ r.chapter \in 1 .. Len(Verses[r.book])
         /\ r.verse \in 1 .. Verses[r.book][r.chapter]
         /\ r.chapter \in Nat \ {0} /\ r.verse \in Nat \ {0}
<1>1. r \in Members /\ <<r.book, r.chapter, r.verse>> \in Places
  BY DEF IsReference
<1>2. r.book \in Books /\ r.chapter \in DOMAIN Verses[r.book] /\ r.verse \in 1 .. Verses[r.book][r.chapter]
  BY <1>1, PlacesMember
<1>3. Verses[r.book] \in Seq(Nat \ {0}) /\ Verses[r.book] # << >>
  BY <1>2, BibleAssumption
<1>4. /\ DOMAIN Verses[r.book] = 1 .. Len(Verses[r.book]) /\ Len(Verses[r.book]) \in Nat \ {0}
      /\ \A c \in 1 .. Len(Verses[r.book]) : Verses[r.book][c] \in Nat \ {0}
  BY <1>3
<1>5. r.chapter \in Nat \ {0} /\ r.verse \in Nat \ {0}
  BY <1>1 DEF Members
<1>6. QED
  BY <1>2, <1>4, <1>5, BibleAssumption DEF verse_count, chapter_count, Books

LEMMA OrderOfRange ==
  ASSUME NEW range, Ordered(range)
  PROVE  /\ range.from.book <= range.to.book
         /\ range.from.book = range.to.book =>
              /\ range.from.chapter <= range.to.chapter
              /\ range.from.chapter = range.to.chapter => range.from.verse <= range.to.verse
<1>1. /\ range.from.book \in Nat /\ range.from.chapter \in Nat /\ range.from.verse \in Nat
      /\ range.to.book \in Nat /\ range.to.chapter \in Nat /\ range.to.verse \in Nat
  BY ReferenceFits DEF Ordered
<1>2. QED
  BY <1>1 DEF Ordered, Less

(* How many pages a range has, and what stands on each of them. *)
PageCount(range) ==
  IF range.from.book # range.to.book THEN 1 ELSE (range.to.chapter - range.from.chapter) + 1

FirstVerseOn(range, n) == IF n = 1 THEN range.from.verse ELSE 1
LastVerseOn(range, n) ==
  IF range.from.book # range.to.book THEN range.from.verse
  ELSE IF n = PageCount(range) THEN range.to.verse
  ELSE verse_count(range.from.book, range.from.chapter + n - 1)

LEMMA NumberOfPages ==
  ASSUME NEW range, Ordered(range)
  PROVE  PageCount(range) \in Nat \ {0}
BY ReferenceFits, OrderOfRange DEF Ordered, PageCount

LEMMA PagesOfRange ==
  ASSUME NEW range, Ordered(range), NEW names
  PROVE  /\ PageCount(range) \in Nat \ {0}
         /\ Pages(range, names) \in Seq([names : {names}, book : Nat, chapter : Int, verses : SUBSET Int])
         /\ DOMAIN Pages(range, names) = 1 .. PageCount(range)
         /\ \A n \in 1 .. PageCount(range) :
              /\ Pages(range, names)[n].book = range.from.book
              /\ Pages(range, names)[n].chapter = range.from.chapter + n - 1
              /\ Pages(range, names)[n].verses = FirstVerseOn(range, n) .. LastVerseOn(range, n)
<1>1. /\ range.from.book \in Nat /\ range.from.chapter \in Nat /\ range.from.verse \in Nat
      /\ range.to.book \in Nat /\ range.to.chapter \in Nat /\ range.to.verse \in Nat
  BY ReferenceFits DEF Ordered
<1>2. PageCount(range) \in Nat \ {0}
  BY NumberOfPages
<1> DEFINE S == [names : {names}, book : Nat, chapter : Int, verses : SUBSET Int]
           PageOf(n) == Page(names, range.from.book, range.from.chapter + n - 1,
                             FirstVerseOn(range, n), LastVerseOn(range, n))
<1>3. \A a, b : a .. b \in SUBSET Int
  OBVIOUS
<1>4. \A n \in 1 .. PageCount(range) : PageOf(n) \in S
  BY <1>1, <1>2, <1>3 DEF Page
<1>5. /\ Pages(range, names) \in Seq(S)
      /\ DOMAIN Pages(range, names) = 1 .. PageCount(range)
      /\ \A n \in 1 .. PageCount(range) : Pages(range, names)[n] = PageOf(n)
  <2>1. CASE range.from.book # range.to.book \/ range.from.chapter = range.to.chapter
    <3>1. Pages(range, names) = <<PageOf(1)>> /\ PageCount(range) = 1
      <4>1. PageCount(range) = 1 /\ range.from.chapter + 1 - 1 = range.from.chapter
        BY <1>1, <2>1 DEF PageCount
      <4>2. CASE range.from.book # range.to.book
        BY <4>1, <4>2 DEF Pages, Page, FirstVerseOn, LastVerseOn
      <4>3. CASE range.from.book = range.to.book /\ range.from.chapter = range.to.chapter
        BY <4>1, <4>3 DEF Pages, Page, FirstVerseOn, LastVerseOn
      <4>4. QED
        BY <2>1, <4>1, <4>2, <4>3
    <3>2. PageOf(1) \in S
      BY <1>4, <3>1
    <3> HIDE DEF S, PageOf
    <3>3. QED
      BY <3>1, <3>2
  <2>2. CASE range.from.book = range.to.book /\ range.from.chapter # range.to.chapter
    <3>1. Pages(range, names) = [n \in 1 .. PageCount(range) |-> PageOf(n)]
      BY <1>1, <2>2, OrderOfRange DEF Pages, Page, PageCount, FirstVerseOn, LastVerseOn
    <3> HIDE DEF S, PageOf
    <3>2. QED
      BY <1>2, <1>4, <3>1
  <2>3. QED
    BY <2>1, <2>2
<1>6. QED
  BY <1>2, <1>5 DEF Page

(* The names are on every page. *)
LEMMA NamesOfPage ==
  ASSUME NEW range, Ordered(range), NEW names, NEW n \in 1 .. PageCount(range)
  PROVE  Pages(range, names)[n].names = names
<1> DEFINE S == [names : {names}, book : Nat, chapter : Int, verses : SUBSET Int]
<1>1. PICK pages \in Seq(S) : pages = Pages(range, names) /\ DOMAIN pages = 1 .. PageCount(range)
  BY PagesOfRange
<1>2. \A page \in S : page.names = names
  OBVIOUS
<1>3. pages[n] \in S
  <2> HIDE DEF S
  <2>1. pages \in [1 .. Len(pages) -> S]
    BY <1>1
  <2>2. n \in DOMAIN pages /\ DOMAIN pages = 1 .. Len(pages)
    BY <1>1, <2>1
  <2>3. QED
    BY <2>1, <2>2, Zenon
<1>4. QED
  BY <1>1, <1>2, <1>3

(* The verses of a page, one by one. *)
LEMMA ShownVerses ==
  ASSUME NEW range, Ordered(range), NEW names, NEW n \in 1 .. PageCount(range), NEW p
  PROVE  p \in Shown(Pages(range, names)[n]) <=>
           \E v \in FirstVerseOn(range, n) .. LastVerseOn(range, n) :
             p = <<range.from.book, range.from.chapter + n - 1, v>>
BY PagesOfRange, ZenonT(40) DEF Shown

(* The verses of a page are verses of its chapter. *)
LEMMA VersesFit ==
  ASSUME NEW range, Ordered(range), NEW n \in 1 .. PageCount(range)
  PROVE  LET c == range.from.chapter + n - 1
         IN  /\ range.from.book \in Books /\ c \in 1 .. Len(Verses[range.from.book])
             /\ DOMAIN Verses[range.from.book] = 1 .. Len(Verses[range.from.book])
             /\ Verses[range.from.book][c] \in Nat
             /\ FirstVerseOn(range, n) \in Nat \ {0}
             /\ LastVerseOn(range, n) \in Nat /\ LastVerseOn(range, n) <= Verses[range.from.book][c]
<1>1. IsReference(range.from) /\ IsReference(range.to)
  BY DEF Ordered
<1>2. /\ range.from.chapter \in Nat \ {0} /\ range.from.verse \in Nat \ {0} /\ range.from.book \in Books
      /\ DOMAIN Verses[range.from.book] = 1 .. Len(Verses[range.from.book])
      /\ Len(Verses[range.from.book]) \in Nat \ {0}
      /\ \A c \in 1 .. Len(Verses[range.from.book]) :
           Verses[range.from.book][c] \in Nat \ {0} /\ verse_count(range.from.book, c) = Verses[range.from.book][c]
      /\ range.from.chapter \in 1 .. Len(Verses[range.from.book])
      /\ range.from.verse \in 1 .. Verses[range.from.book][range.from.chapter]
  BY <1>1, ReferenceFits
<1>3. /\ range.to.chapter \in Nat \ {0} /\ range.to.verse \in Nat \ {0}
      /\ range.to.chapter \in 1 .. Len(Verses[range.to.book])
      /\ range.to.verse \in 1 .. Verses[range.to.book][range.to.chapter]
  BY <1>1, ReferenceFits
<1>4. CASE range.from.book # range.to.book
  BY <1>2, <1>4 DEF PageCount, FirstVerseOn, LastVerseOn
<1>5. CASE range.from.book = range.to.book
  <2>1. range.from.chapter <= range.to.chapter /\ PageCount(range) = (range.to.chapter - range.from.chapter) + 1
    BY <1>5, OrderOfRange DEF PageCount
  <2>2. PICK c : c = range.from.chapter + n - 1
    OBVIOUS
  <2>3. /\ c \in 1 .. Len(Verses[range.from.book])
        /\ n = 1 => c = range.from.chapter
        /\ n = PageCount(range) => c = range.to.chapter
    <3>1. PICK x \in Nat \ {0}, y \in Nat, z \in Nat :
            x = range.from.chapter /\ y = range.to.chapter /\ z = Len(Verses[range.from.book])
      BY <1>2, <1>3
    <3>2. x <= y /\ y <= z /\ n \in 1 .. (y - x) + 1 /\ c = x + n - 1 /\ PageCount(range) = (y - x) + 1
      BY <1>3, <1>5, <2>1, <2>2, <3>1
    <3>3. c \in 1 .. z /\ (n = 1 => c = x) /\ (n = (y - x) + 1 => c = y)
      BY <3>2
    <3>4. QED
      BY <3>1, <3>2, <3>3
  <2>4. FirstVerseOn(range, n) \in Nat \ {0}
    BY <1>2 DEF FirstVerseOn
  <2>5. LastVerseOn(range, n) \in Nat /\ LastVerseOn(range, n) <= Verses[range.from.book][c]
    BY <1>2, <1>3, <1>5, <2>2, <2>3 DEF LastVerseOn
  <2>6. QED
    BY <1>2, <2>2, <2>3, <2>4, <2>5
<1>6. QED
  BY <1>4, <1>5

(* The pages are in order: each verse of one is before each verse of a later one. *)
LEMMA PagesInOrder ==
  ASSUME NEW range, Ordered(range), NEW names,
         NEW m \in 1 .. PageCount(range), NEW n \in 1 .. PageCount(range), m < n,
         NEW p \in Shown(Pages(range, names)[m]), NEW q \in Shown(Pages(range, names)[n])
  PROVE  Before(p, q)
<1>1. p[1] = range.from.book /\ p[2] = range.from.chapter + m - 1
  BY ShownVerses
<1>2. q[1] = range.from.book /\ q[2] = range.from.chapter + n - 1
  BY ShownVerses
<1>3. range.from.chapter \in Nat /\ PageCount(range) \in Nat
  BY ReferenceFits, NumberOfPages DEF Ordered
<1>4. QED
  BY <1>1, <1>2, <1>3 DEF Before

(* They show verses of the range and no others. *)
LEMMA PagesInRange ==
  ASSUME NEW range, Ordered(range), NEW names, NEW n \in 1 .. PageCount(range),
         NEW p \in Shown(Pages(range, names)[n])
  PROVE  p \in Named(range)
<1> DEFINE b == range.from.book
           c == range.from.chapter + n - 1
<1>1. PICK v \in FirstVerseOn(range, n) .. LastVerseOn(range, n) : p = <<b, c, v>>
  BY ShownVerses
<1>2. p \in Places
  BY <1>1, VersesFit, PlacesMember, SMTT(30)
<1>3. IsReference(range.from) /\ IsReference(range.to)
  BY DEF Ordered
<1>4. /\ range.from.book \in Nat /\ range.from.chapter \in Nat /\ range.from.verse \in Nat
      /\ range.to.book \in Nat /\ range.to.chapter \in Nat /\ range.to.verse \in Nat
      /\ PageCount(range) \in Nat
  BY <1>3, ReferenceFits, NumberOfPages
<1>5. /\ p[1] = b /\ p[2] = c /\ p[3] = v /\ v \in Nat
      /\ v >= FirstVerseOn(range, n) /\ v <= LastVerseOn(range, n)
  BY <1>1, VersesFit
<1>6. ~Before(p, Place(range.from))
  BY <1>4, <1>5 DEF Before, Place, FirstVerseOn
<1>7. ~Before(Place(range.to), p)
  BY <1>4, <1>5, OrderOfRange DEF Before, Place, LastVerseOn, PageCount
<1>8. QED
  BY <1>2, <1>6, <1>7 DEF Named

(* Of a range within a book they show all of them. *)
LEMMA PagesShowAll ==
  ASSUME NEW range, Ordered(range), NEW names, range.from.book = range.to.book, NEW p \in Named(range)
  PROVE  \E n \in 1 .. PageCount(range) : p \in Shown(Pages(range, names)[n])
<1>1. PICK b \in Books, c \in Nat \ {0}, v \in Nat \ {0} :
        /\ p = <<b, c, v>> /\ b \in Nat /\ c \in 1 .. Len(Verses[b]) /\ v \in 1 .. Verses[b][c]
        /\ Verses[b][c] \in Nat \ {0}
  BY PlacesTriples DEF Named
<1>2. /\ range.from.book \in Nat /\ range.from.chapter \in Nat /\ range.from.verse \in Nat
      /\ range.to.book \in Nat /\ range.to.chapter \in Nat /\ range.to.verse \in Nat
  BY ReferenceFits DEF Ordered
<1>3. ~Before(p, Place(range.from)) /\ ~Before(Place(range.to), p)
  BY DEF Named
<1>4. /\ b = range.from.book /\ range.from.chapter <= c /\ c <= range.to.chapter
      /\ c = range.from.chapter => range.from.verse <= v
      /\ c = range.to.chapter => v <= range.to.verse
  <2>1. p[1] = b /\ p[2] = c /\ p[3] = v /\ b \in Nat /\ c \in Nat /\ v \in Nat
    BY <1>1
  <2>2. /\ ~(b < range.from.book) /\ ~(range.to.book < b)
        /\ b = range.from.book => ~(c < range.from.chapter) /\ (c = range.from.chapter => ~(v < range.from.verse))
        /\ b = range.to.book => ~(range.to.chapter < c) /\ (c = range.to.chapter => ~(range.to.verse < v))
    BY <1>3, <2>1, Zenon DEF Before, Place
  <2>3. QED
    BY <1>2, <2>1, <2>2
<1>5. PICK n \in 1 .. PageCount(range) :
        /\ range.from.chapter + n - 1 = c
        /\ n = 1 => c = range.from.chapter
        /\ n = PageCount(range) => c = range.to.chapter
  <2>1. PICK x \in Nat, y \in Nat : x = range.from.chapter /\ y = range.to.chapter
    BY <1>2
  <2>2. x <= c /\ c <= y /\ PageCount(range) = (y - x) + 1 /\ c \in Nat
    BY <1>1, <1>4, <2>1 DEF PageCount
  <2>3. (c - x) + 1 \in 1 .. (y - x) + 1 /\ x + ((c - x) + 1) - 1 = c
        /\ ((c - x) + 1 = 1 => c = x) /\ ((c - x) + 1 = (y - x) + 1 => c = y)
    BY <2>2
  <2>4. QED
    BY <2>1, <2>2, <2>3
<1>6. verse_count(b, c) = Verses[b][c]
  BY <1>1, <1>4, ReferenceFits DEF Ordered
<1>7. v \in FirstVerseOn(range, n) .. LastVerseOn(range, n)
  BY <1>1, <1>2, <1>4, <1>5, <1>6, VersesFit DEF FirstVerseOn, LastVerseOn
<1>8. QED
  BY <1>1, <1>4, <1>5, <1>7, ShownVerses

(* open() tries the pages in their order, up to the first that fails. *)
LEMMA TriedPages ==
  ASSUME NEW range, Ordered(range), NEW translations, NEW outcome
  PROVE  LET pages == Pages(range, Names(translations))
             result == open(range, translations, outcome)
         IN  \E count \in 0 .. PageCount(range) :
               /\ DOMAIN result.tried = 1 .. count /\ Len(result.tried) = count
               /\ \A n \in 1 .. count : result.tried[n] = pages[n]
               /\ \A n \in 1 .. count : n < count \/ result.success <=> Succeeds(outcome[n])
               /\ result.success => count = PageCount(range)
               /\ result.success \/ translations = << >> \/ count >= 1
               /\ ~result.success \/ translations # << >>
<1> DEFINE pages == Pages(range, Names(translations))
           result == open(range, translations, outcome)
           failed == Failed(pages, outcome)
<1>1. /\ PageCount(range) \in Nat \ {0} /\ DOMAIN pages = 1 .. PageCount(range)
      /\ pages \in Seq([names : {Names(translations)}, book : Nat, chapter : Int, verses : SUBSET Int])
  BY PagesOfRange
<1>2. \/ failed = 0 /\ \A n \in 1 .. PageCount(range) : Succeeds(outcome[n])
      \/ /\ failed \in 1 .. PageCount(range) /\ ~Succeeds(outcome[failed])
         /\ \A n \in 1 .. PageCount(range) : n < failed => Succeeds(outcome[n])
  BY <1>1, FirstFailure
<1>3. result = IF translations = << >> THEN [success |-> FALSE, tried |-> << >>]
               ELSE IF failed = 0 THEN [success |-> TRUE, tried |-> pages]
               ELSE [success |-> FALSE, tried |-> SubSeq(pages, 1, failed)]
  BY DEF open, Failed
<1> SUFFICES \E count \in 0 .. PageCount(range) :
               /\ DOMAIN result.tried = 1 .. count /\ Len(result.tried) = count
               /\ \A n \in 1 .. count : result.tried[n] = pages[n]
               /\ \A n \in 1 .. count : n < count \/ result.success <=> Succeeds(outcome[n])
               /\ result.success => count = PageCount(range)
               /\ result.success \/ translations = << >> \/ count >= 1
               /\ ~result.success \/ translations # << >>
  OBVIOUS
<1> HIDE DEF pages, result, failed
<1>4. Len(pages) = PageCount(range)
  BY <1>1
<1>5. CASE translations = << >>
  <2>1. result.tried = << >> /\ ~result.success
    BY <1>3, <1>5
  <2>2. QED
    BY <1>1, <1>5, <2>1
<1>6. CASE translations # << >> /\ failed = 0
  <2>1. result.tried = pages /\ result.success
    BY <1>3, <1>6
  <2>2. QED
    BY <1>1, <1>2, <1>4, <1>6, <2>1
<1>7. CASE translations # << >> /\ failed # 0
  <2>1. result.tried = SubSeq(pages, 1, failed) /\ ~result.success
    BY <1>3, <1>7
  <2>2. DOMAIN result.tried = 1 .. failed /\ Len(result.tried) = failed
        /\ \A n \in 1 .. failed : result.tried[n] = pages[n]
    BY <1>1, <1>2, <1>4, <1>7, <2>1
  <2>3. failed \in 0 .. PageCount(range) /\ failed >= 1
        /\ \A n \in 1 .. failed : n < failed <=> Succeeds(outcome[n])
    BY <1>1, <1>2, <1>7 DEF Succeeds
  <2>4. QED
    BY <1>7, <2>1, <2>2, <2>3
<1>8. QED
  BY <1>5, <1>6, <1>7

(* How many of the numbers in a set are among the first ones. *)
TurnOf(known, i) == Cardinality({j \in known : j <= i})

LEMMA TurnCounts ==
  ASSUME NEW n \in Nat, NEW known \in SUBSET (1 .. n)
  PROVE  /\ TurnOf(known, 0) = 0 /\ TurnOf(known, n) = Cardinality(known)
         /\ \A i \in 0 .. n : TurnOf(known, i) \in Nat
         /\ \A i \in 1 .. n :
              TurnOf(known, i) = IF i \in known THEN TurnOf(known, i - 1) + 1 ELSE TurnOf(known, i - 1)
<1> DEFINE F(i) == {j \in known : j <= i}
<1>1. IsFiniteSet(1 .. n)
  BY FS_Interval
<1>2. ASSUME NEW i PROVE IsFiniteSet(F(i)) /\ Cardinality(F(i)) \in Nat
  BY <1>1, FS_Subset, FS_CardinalityType
<1>a. \A j \in known : j \in Nat /\ 1 <= j /\ j <= n
  OBVIOUS
<1>3. F(0) = {} /\ F(n) = known
  <2>1. \A j \in known : ~(j <= 0)
    BY <1>a
  <2>2. QED
    BY <1>a, <2>1
<1>4. ASSUME NEW i \in 1 .. n
      PROVE  /\ i \in known => F(i) = F(i - 1) \cup {i}
             /\ i \notin known => F(i) = F(i - 1)
             /\ i \notin F(i - 1)
  <2>1. \A j \in known : (j <= i <=> j <= i - 1 \/ j = i) /\ ~(i <= i - 1)
    BY <1>a
  <2>2. QED
    BY <2>1
<1> HIDE DEF F
<1>5. ASSUME NEW i \in 1 .. n, i \in known PROVE Cardinality(F(i)) = Cardinality(F(i - 1)) + 1
  BY <1>2, <1>4, <1>5, FS_AddElement
<1>6. Cardinality(F(0)) = 0
  BY <1>3, FS_EmptySet
<1>7. \A i : TurnOf(known, i) = Cardinality(F(i))
  BY DEF TurnOf, F
<1>8. QED
  BY <1>2, <1>3, <1>4, <1>5, <1>6, <1>7

(* The names of a page are those of the translations asked for, each of them in its turn. *)
LEMMA NamesInTurn ==
  ASSUME NEW S, NEW translations \in Seq(S)
  PROVE  InTranslations(Names(translations), translations)
<1> DEFINE n == Len(translations)
           pairs(i) == {k \in DOMAIN TranslationNames : TranslationNames[k][1] = translations[i]}
           known == {i \in 1 .. n : pairs(i) # {}}
           name(i) == at(TranslationNames, translations[i])
           Values == {name(i) : i \in 1 .. n}
           named == [i \in 1 .. n |-> IF pairs(i) # {} THEN <<name(i)>> ELSE << >>]
           turn(i) == TurnOf(known, i)
<1>1. n \in Nat /\ DOMAIN translations = 1 .. n /\ known \in SUBSET (1 .. n)
  OBVIOUS
<1>2. ASSUME NEW i \in known PROVE \E k \in pairs(i) : name(i) = TranslationNames[k][2]
  BY DEF at, PairsOf
<1>3. Names(translations) = FlattenSeq(named)
  BY <1>1 DEF Names, contains, PairsOf
<1>4. /\ turn(0) = 0 /\ turn(n) = Cardinality(known) /\ \A i \in 0 .. n : turn(i) \in Nat
      /\ \A i \in 1 .. n : turn(i) = IF i \in known THEN turn(i - 1) + 1 ELSE turn(i - 1)
  <2> HIDE DEF known, n
  <2> QED
    BY <1>1, TurnCounts
<1>5. named \in Seq(Seq(Values)) /\ Len(named) = n
  <2>1. \A i \in 1 .. n : name(i) \in Values
    OBVIOUS
  <2> HIDE DEF name, pairs, Values
  <2>2. QED
    BY <1>1, <2>1
<1>6. ASSUME NEW i \in 1 .. n
      PROVE  /\ i \in known => named[i] = <<name(i)>>
             /\ i \notin known => named[i] = << >>
  <2> HIDE DEF name
  <2> QED
    OBVIOUS
<1>7. PICK f \in [0 .. n -> Seq(Values)] :
        f[0] = << >> /\ (\A i \in 1 .. n : f[i] = f[i - 1] \o named[i]) /\ FlattenSeq(named) = f[n]
  <2> HIDE DEF named, Values, n
  <2> QED
    BY <1>5, FlattenIs
<1>8. \A i \in 1 .. n : name(i) \in Values
  OBVIOUS
<1> HIDE DEF named, known, turn, n, pairs, name, Values
<1> DEFINE InTurn(i) == /\ Len(f[i]) = turn(i)
                        /\ \A j \in known : j <= i => turn(j) \in 1 .. turn(i) /\ f[i][turn(j)] = name(j)
           T == {i \in 0 .. n : InTurn(i)}
<1>9. 0 \in T /\ 0 \in Nat
  <2>1. Len(f[0]) = 0 /\ \A j \in known : ~(j <= 0)
    BY <1>1, <1>7
  <2>2. QED
    BY <1>1, <1>4, <2>1
<1>10. ASSUME NEW h \in 0 .. n - 1, h \in T PROVE h + 1 \in T
  <2>1. PICK i \in 1 .. n : i = h + 1 /\ h = i - 1 /\ h \in 0 .. n /\ i \in 0 .. n
    BY <1>1
  <2>2. /\ f[i] = f[h] \o named[i] /\ f[h] \in Seq(Values) /\ Len(f[h]) = turn(h) /\ turn(h) \in Nat
        /\ \A j \in known : j <= h => turn(j) \in 1 .. turn(h) /\ f[h][turn(j)] = name(j)
    BY <1>4, <1>7, <1>10, <2>1
  <2>3. CASE i \notin known
    <3>1. f[i] = f[h] /\ turn(i) = turn(h)
      <4>1. named[i] = << >> /\ turn(i) = turn(h)
        BY <1>4, <1>6, <2>1, <2>3
      <4>2. \A x \in Seq(Values) : x \o << >> = x
        OBVIOUS
      <4>3. f[h] \o << >> = f[h]
        BY <2>2, <4>2
      <4>4. QED
        BY <2>2, <4>1, <4>3
    <3>2. \A j \in known : j <= i => j <= h
      BY <1>1, <2>1, <2>3
    <3>3. QED
      BY <2>1, <2>2, <3>1, <3>2
  <2>4. CASE i \in known
    <3>1. turn(i) = turn(h) + 1 /\ named[i] = <<name(i)>> /\ name(i) \in Values
      BY <1>4, <1>6, <1>8, <2>1, <2>4
    <3>2. PICK s \in Seq(Values), v \in Values : s = f[h] /\ v = name(i) /\ f[i] = s \o <<v>>
      BY <2>2, <3>1
    <3>3. /\ Len(s \o <<v>>) = Len(s) + 1 /\ (s \o <<v>>)[Len(s) + 1] = v
          /\ \A m \in 1 .. Len(s) : (s \o <<v>>)[m] = s[m]
      OBVIOUS
    <3>4. Len(f[i]) = turn(i) /\ f[i][turn(i)] = name(i) /\ turn(i) \in 1 .. turn(i)
      BY <2>2, <3>1, <3>2, <3>3
    <3>5. ASSUME NEW j \in known, j <= h PROVE turn(j) \in 1 .. turn(i) /\ f[i][turn(j)] = name(j)
      BY <2>2, <3>1, <3>2, <3>3, <3>5
    <3>6. \A j \in known : j <= i => j <= h \/ j = i
      BY <1>1, <2>1
    <3>7. QED
      BY <2>1, <3>4, <3>5, <3>6
  <2>5. QED
    BY <2>3, <2>4
<1>11. \A i \in 0 .. n : i \in T
  <2> HIDE DEF T
  <2> QED
    BY <1>1, <1>9, <1>10, UpTo
<1>12. /\ Len(f[n]) = Cardinality(known)
       /\ \A i \in known : f[n][turn(i)] = name(i)
  <2>1. n \in T /\ \A i \in known : i <= n
    BY <1>1, <1>11
  <2>2. QED
    BY <1>4, <2>1
<1>13. Names(translations) = f[n]
  BY <1>3, <1>7
<1>14. \A i \in known : \E k \in pairs(i) : Names(translations)[turn(i)] = TranslationNames[k][2]
  BY <1>2, <1>12, <1>13
<1>15. known = {i \in DOMAIN translations : pairs(i) # {}}
  BY <1>1 DEF known
<1>16. \A i : turn(i) = Cardinality({j \in known : j <= i})
  BY DEF turn, TurnOf
<1>17. QED
  <2> HIDE DEF pairs
  <2>1. /\ Len(Names(translations)) = Cardinality(known)
        /\ \A i \in known : \E k \in pairs(i) : Names(translations)[Cardinality({j \in known : j <= i})] = TranslationNames[k][2]
    BY <1>12, <1>13, <1>14, <1>16
  <2>2. QED
    BY <1>15, <2>1, Zenon DEF InTranslations, pairs

(* A lookup is called with one of the ranges. *)
LookupInv ==
  call.of = "pages" =>
    \E range \in Ranges, translations \in Translations :
      \E outcome \in [1 .. 10 -> Outcomes] :
        call = [of |-> "pages", range |-> range, translations |-> translations, outcome |-> outcome]

LEMMA LookupCovers ==
  ASSUME LookupInv
  PROVE  PagesCoverRange
<1> SUFFICES ASSUME call.of = "pages" PROVE PagesCoverRange
  BY DEF PagesCoverRange
<1>1. PICK range \in Ranges, translations \in Translations, outcome \in [1 .. 10 -> Outcomes] :
        /\ range = call.range /\ translations = call.translations /\ outcome = call.outcome
  BY DEF LookupInv
<1> DEFINE result == open(range, translations, outcome)
           pages == Pages(range, Names(translations))
           all == UNION {Shown(result.tried[n]) : n \in DOMAIN result.tried}
<1>2. Ordered(range)
  BY RangesAssumption DEF Ordered
<1>3. PICK count \in 0 .. PageCount(range) :
        /\ DOMAIN result.tried = 1 .. count /\ Len(result.tried) = count
        /\ \A n \in 1 .. count : result.tried[n] = pages[n]
        /\ \A n \in 1 .. count : n < count \/ result.success <=> Succeeds(outcome[n])
        /\ result.success => count = PageCount(range)
        /\ result.success \/ translations = << >> \/ count >= 1
        /\ ~result.success \/ translations # << >>
  BY <1>2, TriedPages
<1>4. PageCount(range) \in Nat \ {0} /\ 1 .. count \subseteq 1 .. PageCount(range)
  BY <1>2, NumberOfPages
<1> HIDE DEF result, pages
<1>5. ASSUME NEW m \in 1 .. count, NEW n \in 1 .. count, m < n,
             NEW p \in Shown(result.tried[m]), NEW q \in Shown(result.tried[n])
      PROVE  Before(p, q)
  BY <1>2, <1>3, <1>4, <1>5, PagesInOrder DEF pages
<1>6. ASSUME NEW n \in 1 .. count, NEW p \in Shown(result.tried[n]) PROVE p \in Named(range)
  BY <1>2, <1>3, <1>4, <1>6, PagesInRange DEF pages
<1>7. ASSUME NEW p \in Named(range) \ all, range.from.book = range.to.book
      PROVE  ~result.success /\ \A q \in all : Before(q, p)
  <2>1. PICK n \in 1 .. PageCount(range) : p \in Shown(pages[n])
    BY <1>2, <1>7, PagesShowAll DEF pages
  <2>2. n \notin 1 .. count
    BY <1>3, <1>7, <2>1
  <2>3. ~result.success
    BY <1>3, <2>2
  <2>4. ASSUME NEW q \in all PROVE Before(q, p)
    <3>1. PICK m \in 1 .. count : q \in Shown(pages[m])
      BY <1>3
    <3>2. m \in 1 .. PageCount(range) /\ m < n
      BY <1>4, <2>2
    <3>3. QED
      BY <1>2, <2>1, <3>1, <3>2, PagesInOrder DEF pages
  <2>5. QED
    BY <2>3, <2>4
<1>8. all \subseteq Named(range)
  BY <1>3, <1>6
<1>9. ASSUME NEW n \in 1 .. count PROVE InTranslations(result.tried[n].names, translations)
  <2>1. n \in 1 .. PageCount(range)
    BY <1>4
  <2>2. pages[n].names = Names(translations)
    BY <1>2, <2>1, NamesOfPage DEF pages
  <2>3. translations \in Seq(ToSet(translations))
    BY TranslationsAssumption
  <2>4. QED
    BY <1>3, <2>2, <2>3, NamesInTurn
<1>10. result.tried = << >> <=> translations = << >>
  <2>1. translations = << >> => result.tried = << >>
    BY DEF result, open
  <2>2. translations # << >> => 1 \in DOMAIN result.tried
    BY <1>3, <1>4
  <2>3. QED
    BY <2>1, <2>2
<1>11. ASSUME NEW p \in Named(range) \ all, range.from.book # range.to.book
       PROVE  \/ ~result.success /\ \A q \in all : Before(q, p)
              \/ p # Place(range.from)
  <2>1. CASE translations = << >>
    <3>1. ~result.success /\ result.tried = << >>
      BY <1>3, <1>10, <2>1
    <3>2. all = {}
      BY <3>1
    <3>3. QED
      BY <3>1, <3>2
  <2>2. CASE translations # << >>
    <3>1. 1 \in 1 .. count /\ 1 \in 1 .. PageCount(range) /\ PageCount(range) = 1
      BY <1>3, <1>4, <1>11, <2>2 DEF PageCount
    <3>2. /\ FirstVerseOn(range, 1) = range.from.verse /\ LastVerseOn(range, 1) = range.from.verse
          /\ range.from.chapter + 1 - 1 = range.from.chapter
          /\ range.from.verse \in range.from.verse .. range.from.verse
      BY <1>2, <1>11, ReferenceFits DEF FirstVerseOn, LastVerseOn, Ordered
    <3>3. Place(range.from) \in Shown(pages[1])
      BY <1>2, <3>1, <3>2, ShownVerses DEF pages, Place
    <3>4. Place(range.from) \in all
      BY <1>3, <3>1, <3>3
    <3>5. QED
      BY <3>4
  <2>3. QED
    BY <2>1, <2>2
<1>12. result.success => result.tried # << >>
  BY <1>3, <1>10
<1>13. QED
  <2> HIDE DEF all
  <2>1. all = UNION {Shown(open(call.range, call.translations, call.outcome).tried[n]) :
                       n \in DOMAIN open(call.range, call.translations, call.outcome).tried}
    BY <1>1 DEF all, result
  <2>2. result = open(call.range, call.translations, call.outcome)
    BY <1>1 DEF result
  <2>3. QED
    BY <1>1, <1>3, <1>5, <1>7, <1>8, <1>9, <1>10, <1>11, <1>12, <2>1, <2>2 DEF PagesCoverRange

(* A text with citations is no other call. *)
LEMMA CitationCalled ==
  ASSUME PrintRange \/ CiteNames
  PROVE  call'.of = "citation"
<1>1. ASSUME PrintRange PROVE call'.of = "citation"
  <2>1. PICK range \in RealRanges :
          call' = [of |-> "citation", parts |-> Data!pretty(range), between |-> <<" ", "-", " ">>]
    BY <1>1, Zenon DEF PrintRange, Call
  <2>2. QED
    BY <2>1
<1>2. ASSUME CiteNames PROVE call'.of = "citation"
  <2>1. PICK k \in DOMAIN Data!name_variants, l \in DOMAIN Data!name_variants :
          \E m \in DOMAIN Data!name_variants[k], n \in DOMAIN Data!name_variants[l] :
            call' = [of |-> "citation", between |-> <<";", " ">>,
                     parts |-> <<Data!Part(k - 1, Data!name_variants[k][m], <<2, 1>>),
                                 Data!Part(l - 1, Data!name_variants[l][n], <<1>>)>>]
    BY <1>2, Zenon DEF CiteNames, Call
  <2>2. PICK m \in DOMAIN Data!name_variants[k], n \in DOMAIN Data!name_variants[l] :
          call' = [of |-> "citation", between |-> <<";", " ">>,
                   parts |-> <<Data!Part(k - 1, Data!name_variants[k][m], <<2, 1>>),
                               Data!Part(l - 1, Data!name_variants[l][n], <<1>>)>>]
    BY <2>1
  <2>3. PICK parts : call' = [of |-> "citation", between |-> <<";", " ">>, parts |-> parts]
    BY <2>2
  <2>4. QED
    BY <2>3
<1>3. QED
  BY <1>1, <1>2

(* The pages of a range show its verses once and in their order, in the translations asked *)
(* for, and leave none out as far as the browser gets: for every bible, range, choice of    *)
(* translations and failure of the browser.                                                 *)
THEOREM LookupShowsRange == Spec => []PagesCoverRange
<1>1. Init => LookupInv
  BY DEF Init, LookupInv
<1>2. LookupInv /\ [Next]_vars => LookupInv'
  <2> SUFFICES ASSUME LookupInv, [Next]_vars PROVE LookupInv'
    OBVIOUS
  <2>1. CASE OpenPages
    <3>1. PICK range \in Ranges, translations \in Translations, outcome \in [1 .. 2 -> Outcomes] :
            call' = [of |-> "pages", range |-> range, translations |-> translations,
                     outcome |-> [n \in 1 .. 10 |-> IF n \in 1 .. 2 THEN outcome[n] ELSE "opened"]]
      BY <2>1 DEF OpenPages, Call
    <3>2. [n \in 1 .. 10 |-> IF n \in 1 .. 2 THEN outcome[n] ELSE "opened"] \in [1 .. 10 -> Outcomes]
      BY DEF Outcomes
    <3>3. QED
      BY <3>1, <3>2 DEF LookupInv
  <2>2. CASE UNCHANGED call
    BY <2>2 DEF LookupInv
  <2>3. CASE Compute \/ MakeRectangle \/ CompareRectangles
    BY <2>3 DEF Compute, MakeRectangle, CompareRectangles, Call, LookupInv
  <2>4. CASE MatchChoices \/ PrintEnumerator \/ CaptureScreen
    BY <2>4 DEF MatchChoices, PrintEnumerator, CaptureScreen, Call, LookupInv
  <2>5. CASE PrintRange \/ CiteNames
    BY <2>5, CitationCalled DEF LookupInv
  <2>6. QED
    BY <2>1, <2>2, <2>3, <2>4, <2>5 DEF Next, vars, Count, UseMenu
<1>3. LookupInv => PagesCoverRange
  BY LookupCovers
<1>4. QED
  BY <1>1, <1>2, <1>3, PTL DEF Spec

-----------------------------------------------------------------------------
\* The entries of a submenu, and those of the menu.
Leaves == [kind : Kinds, toggled : BOOLEAN, initial : BOOLEAN, entries : {<< >>}]
MenuEntries ==
  [kind : Kinds \cup {"submenu"}, toggled : BOOLEAN, initial : BOOLEAN, entries : Seq(Leaves)]

(* One element of a sequence is replaced. *)
LEMMA Replaced ==
  ASSUME NEW S, NEW s \in Seq(S), NEW k \in 1 .. Len(s), NEW e \in S, NEW t, t = [s EXCEPT ![k] = e]
  PROVE  /\ t \in Seq(S) /\ Len(t) = Len(s) /\ t[k] = e
         /\ \A j \in 1 .. Len(s) : j # k => t[j] = s[j]
OBVIOUS

(* The places of a list. *)
LEMMA PlaceOfList ==
  ASSUME NEW list \in Seq(MenuEntries)
  PROVE  /\ \A i, j : <<i, j>> \in PlacesOf(list) <=>
              i \in 1 .. Len(list) /\ j \in 0 .. Len(list[i].entries)
         /\ \A p \in PlacesOf(list) :
              /\ p = <<p[1], p[2]>> /\ p[1] \in 1 .. Len(list) /\ p[1] \in Nat
              /\ p[2] \in 0 .. Len(list[p[1]].entries) /\ p[2] \in Nat
<1>1. DOMAIN list = 1 .. Len(list) /\ Len(list) \in Nat
      /\ \A i \in 1 .. Len(list) : Len(list[i].entries) \in Nat
  BY DEF MenuEntries
<1>2. QED
  BY <1>1 DEF PlacesOf

(* No two entries have the same number. *)
LEMMA NumbersDiffer ==
  ASSUME NEW list \in Seq(MenuEntries), IsFiniteSet(PlacesOf(list)),
         NEW p \in PlacesOf(list), NEW q \in PlacesOf(list), p # q
  PROVE  Number(list, p) \in Nat /\ Number(list, q) \in Nat /\ Number(list, p) # Number(list, q)
<1> DEFINE Upto(r) == {s \in PlacesOf(list) : Visited(s, r)}
<1>1. ASSUME NEW r \in PlacesOf(list) PROVE IsFiniteSet(Upto(r)) /\ Cardinality(Upto(r)) \in Nat
  BY FS_Subset, FS_CardinalityType
<1>2. ASSUME NEW r \in PlacesOf(list), NEW s \in PlacesOf(list), r # s, Visited(r, s)
      PROVE  Cardinality(Upto(r)) # Cardinality(Upto(s))
  <2>1. Upto(r) \subseteq Upto(s)
    BY <1>2, PlaceOfList DEF Visited
  <2>2. s \in Upto(s) /\ s \notin Upto(r)
    BY <1>2, PlaceOfList DEF Visited
  <2>3. QED
    <3> HIDE DEF Upto
    <3>1. QED
      BY <1>1, <2>1, <2>2, FS_Subset
<1>3. Visited(p, q) \/ Visited(q, p)
  BY PlaceOfList DEF Visited
<1>4. QED
  BY <1>1, <1>2, <1>3 DEF Number

(* An entry is added behind the others. *)
LEMMA AppendedEntry ==
  ASSUME NEW list \in Seq(MenuEntries), NEW e \in MenuEntries, e.entries = << >>
  PROVE  /\ Append(list, e) \in Seq(MenuEntries)
         /\ PlacesOf(Append(list, e)) = PlacesOf(list) \cup {<<Len(list) + 1, 0>>}
         /\ EntryAt(Append(list, e), <<Len(list) + 1, 0>>) = e
         /\ \A p \in PlacesOf(list) : EntryAt(Append(list, e), p) = EntryAt(list, p)
<1> DEFINE new == Append(list, e)
           place == <<Len(list) + 1, 0>>
<1>1. /\ new \in Seq(MenuEntries) /\ Len(list) \in Nat /\ Len(new) = Len(list) + 1
      /\ new[Len(list) + 1] = e /\ \A i \in 1 .. Len(list) : new[i] = list[i]
  OBVIOUS
<1> HIDE DEF new
<1>2. ASSUME NEW p \in PlacesOf(new) PROVE p \in PlacesOf(list) \/ p = place
  BY <1>1, PlaceOfList
<1>3. PlacesOf(list) \subseteq PlacesOf(new) /\ place \in PlacesOf(new)
  BY <1>1, PlaceOfList
<1>4. EntryAt(new, place) = e /\ \A p \in PlacesOf(list) : EntryAt(new, p) = EntryAt(list, p)
  BY <1>1, PlaceOfList DEF EntryAt
<1>5. PlacesOf(new) = PlacesOf(list) \cup {place}
  BY <1>2, <1>3
<1>6. QED
  BY <1>1, <1>4, <1>5 DEF new

(* An entry is added to the submenu that is the last entry. *)
LEMMA AppendedToSubmenu ==
  ASSUME NEW list \in Seq(MenuEntries), list # << >>, NEW e \in Leaves
  PROVE  LET new   == [list EXCEPT ![Len(list)].entries = Append(@, e)]
             place == <<Len(list), Len(list[Len(list)].entries) + 1>>
         IN
         /\ new \in Seq(MenuEntries)
         /\ PlacesOf(new) = PlacesOf(list) \cup {place} /\ EntryAt(new, place) = e
         /\ \A p \in PlacesOf(list) :
              /\ EntryAt(new, p).kind = EntryAt(list, p).kind
              /\ EntryAt(new, p).toggled = EntryAt(list, p).toggled
              /\ EntryAt(new, p).initial = EntryAt(list, p).initial
<1> DEFINE n     == Len(list)
           new   == [list EXCEPT ![n].entries = Append(@, e)]
           place == <<n, Len(list[n].entries) + 1>>
<1>1. n \in Nat \ {0} /\ list[n] \in MenuEntries /\ n \in DOMAIN list
  OBVIOUS
<1>2. PICK below : below = list[n].entries
  OBVIOUS
<1>3. below \in Seq(Leaves) /\ Append(below, e) \in Seq(Leaves) /\ Len(below) \in Nat
      /\ Len(Append(below, e)) = Len(below) + 1 /\ Append(below, e)[Len(below) + 1] = e
      /\ \A j \in 1 .. Len(below) : Append(below, e)[j] = below[j]
  <2>1. below \in Seq(Leaves)
    BY <1>1, <1>2 DEF MenuEntries
  <2>2. QED
    BY <2>1
<1>4. PICK last \in MenuEntries : last = [list[n] EXCEPT !.entries = Append(below, e)]
  BY <1>1, <1>3 DEF MenuEntries
<1>5. /\ last.kind = list[n].kind /\ last.toggled = list[n].toggled /\ last.initial = list[n].initial
      /\ last.entries = Append(below, e)
  BY <1>1, <1>4 DEF MenuEntries
<1>6. new = [list EXCEPT ![n] = last]
  BY <1>1, <1>2, <1>4
<1> HIDE DEF new
<1>7. /\ new \in Seq(MenuEntries) /\ Len(new) = n /\ new[n] = last
      /\ \A i \in 1 .. n : i # n => new[i] = list[i]
  <2>1. QED
    BY <1>1, <1>6, Replaced
<1>8. PlacesOf(list) \subseteq PlacesOf(new) /\ place \in PlacesOf(new)
  <2>1. ASSUME NEW p \in PlacesOf(list) PROVE p \in PlacesOf(new)
    <3>1. p = <<p[1], p[2]>> /\ p[1] \in 1 .. n /\ p[2] \in 0 .. Len(list[p[1]].entries)
      BY PlaceOfList
    <3>2. p[2] \in 0 .. Len(new[p[1]].entries)
      BY <1>1, <1>2, <1>3, <1>5, <1>7, <3>1
    <3>3. QED
      BY <1>7, <3>1, <3>2, PlaceOfList
  <2>2. n \in 1 .. Len(new) /\ Len(list[n].entries) + 1 \in 0 .. Len(new[n].entries)
    BY <1>1, <1>2, <1>3, <1>5, <1>7
  <2>3. place \in PlacesOf(new)
    BY <1>7, <2>2, PlaceOfList
  <2>4. QED
    BY <2>1, <2>3
<1>9. ASSUME NEW p \in PlacesOf(new) PROVE p \in PlacesOf(list) \/ p = place
  BY <1>1, <1>2, <1>3, <1>5, <1>7, PlaceOfList, SMTT(30)
<1>10. EntryAt(new, place) = e
  BY <1>1, <1>2, <1>3, <1>5, <1>7 DEF EntryAt
<1>11. ASSUME NEW p \in PlacesOf(list)
       PROVE  /\ EntryAt(new, p).kind = EntryAt(list, p).kind
              /\ EntryAt(new, p).toggled = EntryAt(list, p).toggled
              /\ EntryAt(new, p).initial = EntryAt(list, p).initial
  <2>1. PICK i \in 1 .. n, j \in Nat : p = <<i, j>> /\ j \in 0 .. Len(list[i].entries)
    BY PlaceOfList
  <2>2. CASE i # n
    BY <1>7, <2>1, <2>2 DEF EntryAt
  <2>3. CASE i = n /\ j = 0
    BY <1>5, <1>7, <2>1, <2>3 DEF EntryAt
  <2>4. CASE i = n /\ j # 0
    BY <1>2, <1>3, <1>5, <1>7, <2>1, <2>4 DEF EntryAt
  <2>5. QED
    BY <2>2, <2>3, <2>4
<1>12. QED
  BY <1>7, <1>8, <1>9, <1>10, <1>11 DEF new

(* A toggle is turned. *)
LEMMA TurnedEntry ==
  ASSUME NEW list \in Seq(MenuEntries), NEW place \in PlacesOf(list)
  PROVE  /\ Turned(list, place) \in Seq(MenuEntries) /\ PlacesOf(Turned(list, place)) = PlacesOf(list)
         /\ EntryAt(Turned(list, place), place).toggled = ~EntryAt(list, place).toggled
         /\ \A p \in PlacesOf(list) :
              /\ EntryAt(Turned(list, place), p).kind = EntryAt(list, p).kind
              /\ EntryAt(Turned(list, place), p).initial = EntryAt(list, p).initial
              /\ p # place => EntryAt(Turned(list, place), p).toggled = EntryAt(list, p).toggled
<1> DEFINE new == Turned(list, place)
<1>0. new = Turned(list, place)
  OBVIOUS
<1> SUFFICES /\ new \in Seq(MenuEntries) /\ PlacesOf(new) = PlacesOf(list)
             /\ EntryAt(new, place).toggled = ~EntryAt(list, place).toggled
             /\ \A p \in PlacesOf(list) :
                  /\ EntryAt(new, p).kind = EntryAt(list, p).kind
                  /\ EntryAt(new, p).initial = EntryAt(list, p).initial
                  /\ p # place => EntryAt(new, p).toggled = EntryAt(list, p).toggled
  OBVIOUS
<1> HIDE DEF new
<1>1. PICK i \in 1 .. Len(list), j \in Nat : place = <<i, j>> /\ j \in 0 .. Len(list[i].entries)
  BY PlaceOfList
<1>2. Len(list) \in Nat /\ list[i] \in MenuEntries /\ i \in DOMAIN list
  OBVIOUS
<1>3. PICK below : below = list[i].entries
  OBVIOUS
<1>4. below \in Seq(Leaves) /\ Len(below) \in Nat /\ (j # 0 => j \in DOMAIN below /\ below[j] \in Leaves)
  <2>1. below \in Seq(Leaves)
    BY <1>2, <1>3 DEF MenuEntries
  <2>2. QED
    BY <1>1, <1>3, <2>1
<1>5. CASE j = 0
  <2>1. PICK e \in MenuEntries : e = [list[i] EXCEPT !.toggled = ~@]
    BY <1>2 DEF MenuEntries
  <2>2. /\ e.kind = list[i].kind /\ e.toggled = ~list[i].toggled /\ e.initial = list[i].initial
        /\ e.entries = list[i].entries
    BY <1>2, <2>1 DEF MenuEntries
  <2>3. new = [list EXCEPT ![i] = e]
    BY <1>0, <1>1, <1>2, <1>5, <2>1 DEF Turned
  <2>4. /\ new \in Seq(MenuEntries) /\ Len(new) = Len(list) /\ new[i] = e
        /\ \A k \in 1 .. Len(list) : k # i => new[k] = list[k]
    BY <1>2, <2>3
  <2>5. PlacesOf(new) = PlacesOf(list)
    <3>1. \A k \in 1 .. Len(list) : Len(new[k].entries) = Len(list[k].entries)
      BY <2>2, <2>4
    <3>2. QED
      BY <2>4, <3>1 DEF PlacesOf
  <2>6. EntryAt(new, place).toggled = ~EntryAt(list, place).toggled
    BY <1>1, <1>5, <2>2, <2>4 DEF EntryAt
  <2>7. ASSUME NEW p \in PlacesOf(list)
        PROVE  /\ EntryAt(new, p).kind = EntryAt(list, p).kind
               /\ EntryAt(new, p).initial = EntryAt(list, p).initial
               /\ p # place => EntryAt(new, p).toggled = EntryAt(list, p).toggled
    <3>1. PICK k \in 1 .. Len(list), l \in Nat : p = <<k, l>> /\ l \in 0 .. Len(list[k].entries)
      BY PlaceOfList
    <3>2. CASE k # i
      BY <2>4, <3>1, <3>2 DEF EntryAt
    <3>3. CASE k = i /\ l = 0
      BY <1>1, <1>5, <2>2, <2>4, <3>1, <3>3 DEF EntryAt
    <3>4. CASE k = i /\ l # 0
      BY <2>2, <2>4, <3>1, <3>4 DEF EntryAt
    <3>5. QED
      BY <3>2, <3>3, <3>4
  <2>8. QED
    BY <2>4, <2>5, <2>6, <2>7
<1>6. CASE j # 0
  <2>1. PICK f \in Leaves : f = [below[j] EXCEPT !.toggled = ~@]
    BY <1>4, <1>6 DEF Leaves
  <2>2. f.kind = below[j].kind /\ f.toggled = ~below[j].toggled /\ f.initial = below[j].initial
    BY <1>4, <1>6, <2>1 DEF Leaves
  <2>3. PICK entered : entered = [below EXCEPT ![j] = f]
    OBVIOUS
  <2>4. /\ entered \in Seq(Leaves) /\ Len(entered) = Len(below) /\ entered[j] = f
        /\ \A k \in 1 .. Len(below) : k # j => entered[k] = below[k]
    BY <1>4, <1>6, <2>3, Replaced
  <2>5. PICK e \in MenuEntries : e = [list[i] EXCEPT !.entries = entered]
    BY <1>2, <2>4 DEF MenuEntries
  <2>6. /\ e.kind = list[i].kind /\ e.toggled = list[i].toggled /\ e.initial = list[i].initial
        /\ e.entries = entered
    BY <1>2, <2>5 DEF MenuEntries
  <2>7. new = [list EXCEPT ![i] = e]
    BY <1>0, <1>1, <1>2, <1>3, <1>6, <2>1, <2>3, <2>5 DEF Turned
  <2>8. /\ new \in Seq(MenuEntries) /\ Len(new) = Len(list) /\ new[i] = e
        /\ \A k \in 1 .. Len(list) : k # i => new[k] = list[k]
    BY <1>2, <2>7
  <2>9. PlacesOf(new) = PlacesOf(list)
    <3>1. \A k \in 1 .. Len(list) : Len(new[k].entries) = Len(list[k].entries)
      BY <1>3, <2>4, <2>6, <2>8
    <3>2. QED
      BY <2>8, <3>1 DEF PlacesOf
  <2>10. EntryAt(new, place).toggled = ~EntryAt(list, place).toggled
    BY <1>1, <1>3, <1>6, <2>2, <2>4, <2>6, <2>8 DEF EntryAt
  <2>11. ASSUME NEW p \in PlacesOf(list)
         PROVE  /\ EntryAt(new, p).kind = EntryAt(list, p).kind
                /\ EntryAt(new, p).initial = EntryAt(list, p).initial
                /\ p # place => EntryAt(new, p).toggled = EntryAt(list, p).toggled
    <3>1. PICK k \in 1 .. Len(list), l \in Nat : p = <<k, l>> /\ l \in 0 .. Len(list[k].entries)
      BY PlaceOfList
    <3>2. CASE k # i
      BY <2>8, <3>1, <3>2 DEF EntryAt
    <3>3. CASE k = i /\ l = 0
      BY <2>6, <2>8, <3>1, <3>3 DEF EntryAt
    <3>4. CASE k = i /\ l # 0 /\ l # j
      <4>1. l \in 1 .. Len(below)
        BY <1>3, <1>4, <3>1, <3>4
      <4>2. entered[l] = below[l]
        BY <2>4, <3>4, <4>1
      <4>3. EntryAt(new, p) = entered[l] /\ EntryAt(list, p) = below[l]
        BY <1>3, <2>6, <2>8, <3>1, <3>4 DEF EntryAt
      <4>4. QED
        BY <4>2, <4>3
    <3>5. CASE k = i /\ l = j
      <4>1. EntryAt(new, p) = f /\ EntryAt(list, p) = below[j] /\ p = place
        BY <1>1, <1>3, <1>6, <2>4, <2>6, <2>8, <3>1, <3>5 DEF EntryAt
      <4>2. QED
        BY <2>2, <4>1
    <3>6. QED
      BY <3>2, <3>3, <3>4, <3>5
  <2>12. QED
    BY <2>8, <2>9, <2>10, <2>11
<1>7. QED
  BY <1>1, <1>5, <1>6

-----------------------------------------------------------------------------
\* What a toggle was told last, or began with.
LastTold(place) ==
  IF CallsOf(place) = {} THEN EntryAt(entries, place).initial
  ELSE callbacks[Max(CallsOf(place))].flag

CallbackType == [meant : Nat \X Nat, called : Nat \X Nat, flag : BOOLEAN]

\* The menu shows the entries as they are, the ids are those of a single construct(), and
\* each toggle is as its callback was told.
MenuInv ==
  /\ entries \in Seq(MenuEntries) /\ IsFiniteSet(PlacesOf(entries))
  /\ last_id \in Nat /\ callbacks \in Seq(CallbackType)
  /\ \E id \in Nat : menu = construct(entries, id)
  /\ \A n \in DOMAIN callbacks : callbacks[n].called = callbacks[n].meant
  /\ \A place \in PlacesOf(entries) :
       EntryAt(entries, place).kind = "toggle" => EntryAt(entries, place).toggled = LastTold(place)

(* A set of numbers up to a limit has a greatest element, and Max is it. *)
LEMMA MaxOfNumbers ==
  ASSUME NEW n \in Nat, NEW T \in SUBSET (1 .. n), T # {}
  PROVE  Max(T) \in T /\ \A y \in T : Max(T) >= y
<1> DEFINE U == {n - y : y \in T}
<1>1. /\ \A y \in T : y \in Nat /\ y <= n /\ n - y \in Nat
      /\ U \in SUBSET Nat /\ U # {}
  <2>1. \A y \in T : y \in 1 .. n
    OBVIOUS
  <2>2. \A y \in T : y \in Nat /\ y <= n /\ n - y \in Nat
    BY <2>1
  <2>3. QED
    BY <2>2
<1>2. PICK u \in U : \A y \in U : u <= y
  <2> HIDE DEF U
  <2>1. QED
    BY <1>1, MinOfNumbers
<1>3. PICK x \in T : u = n - x
  BY <1>2
<1>4. ASSUME NEW y \in T PROVE x >= y
  <2>1. n - y \in U
    OBVIOUS
  <2>2. n - x <= n - y /\ x \in Nat /\ y \in Nat
    BY <1>1, <1>2, <1>3, <2>1
  <2>3. QED
    BY <2>2
<1>5. QED
  BY <1>4 DEF Max

LEMMA MaxIsLast ==
  ASSUME NEW n \in Nat, NEW T \in SUBSET (1 .. n), n \in T
  PROVE  Max(T) = n
<1>1. Max(T) \in T /\ Max(T) >= n
  BY MaxOfNumbers
<1>2. PICK m : m = Max(T)
  OBVIOUS
<1>3. m \in 1 .. n /\ m >= n
  BY <1>1, <1>2
<1>4. QED
  BY <1>2, <1>3

LEMMA EntryType ==
  ASSUME NEW list \in Seq(MenuEntries), NEW place \in PlacesOf(list)
  PROVE  EntryAt(list, place).toggled \in BOOLEAN /\ EntryAt(list, place).initial \in BOOLEAN
<1>1. /\ place[1] \in 1 .. Len(list) /\ place[2] \in 0 .. Len(list[place[1]].entries) /\ place[2] \in Nat
  BY PlaceOfList
<1>2. list[place[1]] \in MenuEntries
  BY <1>1
<1>3. CASE place[2] = 0
  BY <1>2, <1>3 DEF EntryAt, MenuEntries
<1>4. CASE place[2] # 0
  <2>1. list[place[1]].entries \in Seq(Leaves)
    BY <1>2 DEF MenuEntries
  <2>2. list[place[1]].entries[place[2]] \in Leaves
    BY <1>1, <1>4, <2>1
  <2>3. QED
    BY <1>4, <2>2 DEF EntryAt, Leaves
<1>5. QED
  BY <1>3, <1>4

(* The items of a menu, and the entries they are made of. *)
LEMMA ItemsOfMenu ==
  ASSUME NEW list, NEW id, NEW item \in construct(list, id)
  PROVE  /\ item.place \in PlacesOf(list) /\ item.id = id + Number(list, item.place)
         /\ item = Item(item.id, item.place, EntryAt(list, item.place))
         /\ item.kind = EntryAt(list, item.place).kind
         /\ item.checked = (item.kind = "toggle" /\ EntryAt(list, item.place).toggled)
         /\ Choosable(item) => item.kind \notin {"label", "separator", "submenu"}
<1>1. PICK p \in PlacesOf(list) : item = Item(id + Number(list, p), p, EntryAt(list, p))
  BY DEF construct
<1>2. item.place = p /\ item.id = id + Number(list, p) /\ item.kind = EntryAt(list, p).kind
      /\ item.checked = (EntryAt(list, p).kind = "toggle" /\ EntryAt(list, p).toggled)
      /\ item.disabled = (EntryAt(list, p).kind = "label")
  BY <1>1 DEF Item
<1>3. item = Item(item.id, item.place, EntryAt(list, item.place))
  BY <1>1, <1>2
<1>4. Choosable(item) => item.kind \notin {"label", "separator", "submenu"}
  BY <1>2 DEF Choosable
<1>5. QED
  BY <1>2, <1>3, <1>4

(* The item that is found by an id is the one it was made for. *)
LEMMA FoundItem ==
  ASSUME MenuInv, NEW item \in menu, NEW found \in ItemsOf(item.id)
  PROVE  found = item
<1>1. PICK id \in Nat : menu = construct(entries, id)
  BY DEF MenuInv
<1>2. PICK list \in Seq(MenuEntries) : list = entries /\ IsFiniteSet(PlacesOf(list))
  BY DEF MenuInv
<1>3. found \in construct(list, id) /\ item \in construct(list, id) /\ found.id = item.id
  BY <1>1, <1>2 DEF ItemsOf
<1>4. /\ found.place \in PlacesOf(list) /\ found.id = id + Number(list, found.place)
      /\ item.place \in PlacesOf(list) /\ item.id = id + Number(list, item.place)
      /\ found = Item(found.id, found.place, EntryAt(list, found.place))
      /\ item = Item(item.id, item.place, EntryAt(list, item.place))
  BY <1>3, ItemsOfMenu
<1>5. found.place = item.place
  <2>1. PICK p \in PlacesOf(list), q \in PlacesOf(list) : p = found.place /\ q = item.place
    BY <1>4
  <2>2. id + Number(list, p) = id + Number(list, q)
    BY <1>3, <1>4, <2>1
  <2>3. p # q => Number(list, p) \in Nat /\ Number(list, q) \in Nat /\ Number(list, p) # Number(list, q)
    BY <1>2, NumbersDiffer
  <2>4. p = q
    BY <2>2, <2>3
  <2>5. QED
    BY <2>1, <2>4
<1>6. QED
  BY <1>3, <1>4, <1>5

LEMMA MenuShown == MenuInv => MenuCallsChosen
<1> SUFFICES ASSUME MenuInv, NEW item \in menu, item.kind = "toggle"
             PROVE  item.checked = LastTold(item.place)
  BY DEF MenuInv, MenuCallsChosen, LastTold
<1>1. PICK id \in Nat : menu = construct(entries, id)
  BY DEF MenuInv
<1>2. PICK list \in Seq(MenuEntries) : list = entries
  BY DEF MenuInv
<1>3. /\ item.place \in PlacesOf(list) /\ EntryAt(list, item.place).kind = "toggle"
      /\ item.checked = (item.kind = "toggle" /\ EntryAt(list, item.place).toggled)
  BY <1>1, <1>2, ItemsOfMenu
<1>4. EntryAt(list, item.place).toggled \in BOOLEAN
  BY <1>3, EntryType
<1>5. item.checked = EntryAt(list, item.place).toggled
  BY <1>3, <1>4
<1>6. QED
  BY <1>2, <1>3, <1>5 DEF MenuInv

(* An entry that is added was not called yet, and the others stay as they are. *)
LEMMA EntryAdded ==
  ASSUME MenuInv, callbacks = << >>, callbacks' = callbacks,
         NEW new \in Seq(MenuEntries), NEW place, PlacesOf(new) = PlacesOf(entries) \cup {place},
         EntryAt(new, place).toggled = EntryAt(new, place).initial,
         \A p \in PlacesOf(entries) :
           /\ EntryAt(new, p).kind = EntryAt(entries, p).kind
           /\ EntryAt(new, p).toggled = EntryAt(entries, p).toggled
           /\ EntryAt(new, p).initial = EntryAt(entries, p).initial,
         update(new)
  PROVE  MenuInv'
<1>1. entries' = new /\ menu' = construct(new, last_id) /\ last_id' = last_id + Cardinality(PlacesOf(new))
  BY DEF update
<1>2. IsFiniteSet(PlacesOf(new))
  BY FS_AddElement DEF MenuInv
<1>3. last_id \in Nat /\ last_id' \in Nat
  BY <1>1, <1>2, FS_CardinalityType DEF MenuInv
<1>4. \A p : CallsOf(p) = {} /\ CallsOf(p)' = {}
  BY DEF CallsOf
<1>5. ASSUME NEW p \in PlacesOf(new), EntryAt(new, p).kind = "toggle"
      PROVE  EntryAt(new, p).toggled = EntryAt(new, p).initial
  BY <1>4, <1>5 DEF MenuInv, LastTold
<1>6. \A p : LastTold(p)' = EntryAt(new, p).initial
  BY <1>1, <1>4 DEF LastTold
<1>7. /\ callbacks' \in Seq(CallbackType)
      /\ \A n \in DOMAIN callbacks' : callbacks'[n].called = callbacks'[n].meant
  BY DEF MenuInv
<1>8. QED
  BY <1>1, <1>2, <1>3, <1>5, <1>6, <1>7 DEF MenuInv

(* What a call changes of the calls of the entries. *)
LEMMA CallbackCalled ==
  ASSUME callbacks \in Seq(CallbackType), NEW c \in CallbackType, callbacks' = Append(callbacks, c)
  PROVE  /\ callbacks' \in Seq(CallbackType)
         /\ \A n \in DOMAIN callbacks' : (n \in DOMAIN callbacks /\ callbacks'[n] = callbacks[n]) \/ callbacks'[n] = c
         /\ \A p : p # c.called =>
              /\ CallsOf(p)' = CallsOf(p)
              /\ CallsOf(p) # {} => callbacks'[Max(CallsOf(p))] = callbacks[Max(CallsOf(p))]
         /\ CallsOf(c.called)' # {} /\ callbacks'[Max(CallsOf(c.called)')] = c
<1> DEFINE n == Len(callbacks)
<1>1. /\ n \in Nat /\ DOMAIN callbacks = 1 .. n /\ DOMAIN callbacks' = 1 .. n + 1
      /\ callbacks' \in Seq(CallbackType) /\ callbacks'[n + 1] = c
      /\ \A k \in 1 .. n : callbacks'[k] = callbacks[k]
  OBVIOUS
<1> HIDE DEF n
<1>2. \A k \in DOMAIN callbacks' : (k \in DOMAIN callbacks /\ callbacks'[k] = callbacks[k]) \/ callbacks'[k] = c
  BY <1>1
<1>3. ASSUME NEW p, p # c.called
      PROVE  /\ CallsOf(p)' = CallsOf(p)
             /\ CallsOf(p) # {} => callbacks'[Max(CallsOf(p))] = callbacks[Max(CallsOf(p))]
  <2>1. CallsOf(p)' = CallsOf(p)
    BY <1>1, <1>3 DEF CallsOf
  <2>2. PICK T \in SUBSET (1 .. n) : T = CallsOf(p)
    BY <1>1 DEF CallsOf
  <2>3. T # {} => Max(T) \in 1 .. n
    BY <1>1, MaxOfNumbers
  <2>4. QED
    BY <1>1, <2>1, <2>2, <2>3
<1>4. n + 1 \in CallsOf(c.called)' /\ CallsOf(c.called)' \subseteq 1 .. n + 1
  BY <1>1 DEF CallsOf
<1>5. Max(CallsOf(c.called)') = n + 1
  <2>1. PICK T \in SUBSET (1 .. n + 1) : T = CallsOf(c.called)'
    BY <1>4
  <2>2. Max(T) = n + 1
    BY <1>1, <1>4, <2>1, MaxIsLast
  <2>3. QED
    BY <2>1, <2>2
<1>6. QED
  BY <1>1, <1>2, <1>3, <1>4, <1>5

(* A button or toggle that is chosen is called, and the toggle turned. *)
LEMMA EntryCalled ==
  ASSUME MenuInv, ClickItem
  PROVE  MenuInv'
<1>1. PICK item \in menu, found \in menu :
        LET entry == EntryAt(entries, found.place)
            told(flag) == Append(callbacks, [meant |-> item.place, called |-> found.place, flag |-> flag])
        IN  /\ found \in ItemsOf(item.id)
            /\ \/ /\ entry.kind = "button" /\ callbacks' = told(FALSE)
                  /\ UNCHANGED <<entries, menu, last_id>>
               \/ /\ entry.kind = "toggle" /\ callbacks' = told(~entry.toggled)
                  /\ update(Turned(entries, found.place))
  BY DEF ClickItem, ItemsOf
<1>2. found = item
  BY <1>1, FoundItem
<1>3. PICK list \in Seq(MenuEntries), id \in Nat :
        list = entries /\ IsFiniteSet(PlacesOf(list)) /\ menu = construct(list, id)
  BY DEF MenuInv
<1>4. PICK place \in PlacesOf(list) : place = item.place
  BY <1>3, ItemsOfMenu
<1>5. EntryAt(list, place).toggled \in BOOLEAN /\ place \in Nat \X Nat
  BY EntryType, PlaceOfList
<1>6. /\ callbacks \in Seq(CallbackType) /\ last_id \in Nat
      /\ \A n \in DOMAIN callbacks : callbacks[n].called = callbacks[n].meant
      /\ \A p \in PlacesOf(list) : EntryAt(list, p).kind = "toggle" => EntryAt(list, p).toggled = LastTold(p)
  BY <1>3 DEF MenuInv
<1>7. PICK c \in CallbackType :
        /\ callbacks' = Append(callbacks, c) /\ c.called = place /\ c.meant = place
        /\ \/ /\ EntryAt(list, place).kind = "button"
              /\ UNCHANGED <<entries, menu, last_id>>
           \/ /\ EntryAt(list, place).kind = "toggle" /\ c.flag = ~EntryAt(list, place).toggled
              /\ update(Turned(list, place))
  <2>1. [meant |-> place, called |-> place, flag |-> FALSE] \in CallbackType
        /\ [meant |-> place, called |-> place, flag |-> ~EntryAt(list, place).toggled] \in CallbackType
    BY <1>5 DEF CallbackType
  <2>2. CASE EntryAt(list, place).kind = "button" /\ UNCHANGED <<entries, menu, last_id>>
              /\ callbacks' = Append(callbacks, [meant |-> place, called |-> place, flag |-> FALSE])
    BY <2>1, <2>2
  <2>3. CASE EntryAt(list, place).kind = "toggle" /\ update(Turned(list, place))
              /\ callbacks' = Append(callbacks, [meant |-> place, called |-> place,
                                                 flag |-> ~EntryAt(list, place).toggled])
    BY <2>1, <2>3
  <2>4. QED
    BY <1>1, <1>2, <1>3, <1>4, <2>2, <2>3
<1>8. /\ callbacks' \in Seq(CallbackType)
      /\ \A n \in DOMAIN callbacks' : callbacks'[n].called = callbacks'[n].meant
  BY <1>6, <1>7, CallbackCalled
<1>9. PICK new \in Seq(MenuEntries) :
        /\ new = entries' /\ PlacesOf(new) = PlacesOf(list)
        /\ last_id' \in Nat /\ \E base \in Nat : menu' = construct(new, base)
        /\ EntryAt(new, place).kind = "toggle" => EntryAt(new, place).toggled = c.flag
        /\ \A p \in PlacesOf(list) :
             /\ EntryAt(new, p).kind = EntryAt(list, p).kind
             /\ EntryAt(new, p).initial = EntryAt(list, p).initial
             /\ p # place => EntryAt(new, p).toggled = EntryAt(list, p).toggled
  <2>1. CASE EntryAt(list, place).kind = "button" /\ UNCHANGED <<entries, menu, last_id>>
    BY <1>3, <1>6, <2>1
  <2>2. CASE EntryAt(list, place).kind = "toggle" /\ update(Turned(list, place))
             /\ c.flag = ~EntryAt(list, place).toggled
    <3> DEFINE new == Turned(list, place)
    <3>1. new = Turned(list, place)
      OBVIOUS
    <3> HIDE DEF new
    <3>2. /\ new \in Seq(MenuEntries) /\ PlacesOf(new) = PlacesOf(list)
          /\ EntryAt(new, place).toggled = ~EntryAt(list, place).toggled
          /\ \A p \in PlacesOf(list) :
               /\ EntryAt(new, p).kind = EntryAt(list, p).kind
               /\ EntryAt(new, p).initial = EntryAt(list, p).initial
               /\ p # place => EntryAt(new, p).toggled = EntryAt(list, p).toggled
      BY TurnedEntry, Zenon DEF new
    <3>3. entries' = new /\ menu' = construct(new, last_id) /\ last_id' = last_id + Cardinality(PlacesOf(new))
      BY <2>2, <3>1 DEF update
    <3>4. Cardinality(PlacesOf(new)) \in Nat
      BY <1>3, <3>2, FS_CardinalityType
    <3>5. QED
      BY <1>6, <2>2, <3>2, <3>3, <3>4
  <2>3. QED
    BY <1>7, <2>1, <2>2
<1>10. ASSUME NEW p \in PlacesOf(list), EntryAt(new, p).kind = "toggle"
       PROVE  EntryAt(new, p).toggled = LastTold(p)'
  <2>1. CASE p = place
    <3>1. CallsOf(place)' # {} /\ callbacks'[Max(CallsOf(place)')] = c
      BY <1>6, <1>7, CallbackCalled
    <3>2. LastTold(place)' = c.flag
      BY <3>1 DEF LastTold
    <3>3. LastTold(p)' = c.flag
      BY <2>1, <3>2
    <3>4. QED
      BY <1>9, <1>10, <2>1, <3>3
  <2>2. CASE p # place
    <3>1. /\ CallsOf(p)' = CallsOf(p)
          /\ CallsOf(p) # {} => callbacks'[Max(CallsOf(p))] = callbacks[Max(CallsOf(p))]
      BY <1>6, <1>7, <2>2, CallbackCalled
    <3>2. LastTold(p)' = LastTold(p)
      BY <1>3, <1>9, <3>1 DEF LastTold
    <3>3. QED
      BY <1>6, <1>9, <1>10, <2>2, <3>2
  <2>3. QED
    BY <2>1, <2>2
<1>11. QED
  BY <1>3, <1>8, <1>9, <1>10 DEF MenuInv

LEMMA MenuStart == MenuInit => MenuInv
<1> SUFFICES ASSUME MenuInit PROVE MenuInv
  OBVIOUS
<1>1. entries = << >> /\ menu = {} /\ last_id = 0 /\ callbacks = << >>
  BY DEF MenuInit
<1>2. PlacesOf(entries) = {}
  BY <1>1 DEF PlacesOf
<1>3. menu = construct(entries, 0)
  BY <1>1, <1>2 DEF construct
<1>4. IsFiniteSet({})
  BY FS_EmptySet
<1>5. entries \in Seq(MenuEntries) /\ callbacks \in Seq(CallbackType) /\ last_id \in Nat
      /\ DOMAIN callbacks = {}
  BY <1>1
<1>6. QED
  BY <1>2, <1>3, <1>4, <1>5 DEF MenuInv

LEMMA MenuStep ==
  ASSUME MenuInv, MenuNext
  PROVE  MenuInv'
<1>1. PICK list \in Seq(MenuEntries) : list = entries
  BY DEF MenuInv
<1>2. ASSUME NEW kind \in Kinds \cup {"submenu"}, NEW state \in BOOLEAN
      PROVE  /\ Entry(kind, state) \in MenuEntries /\ Entry(kind, state).entries = << >>
             /\ kind \in Kinds => Entry(kind, state) \in Leaves
             /\ Entry(kind, state).toggled = Entry(kind, state).initial
  BY DEF Entry, MenuEntries, Leaves
<1>3. CASE AddEntry
  <2>1. PICK kind \in Kinds \cup {"submenu"}, state \in BOOLEAN : update(Append(entries, Entry(kind, state)))
    BY <1>3 DEF AddEntry
  <2>2. PICK e \in MenuEntries : e = Entry(kind, state) /\ e.entries = << >> /\ e.toggled = e.initial
    BY <1>2
  <2> DEFINE new == Append(list, e)
             place == <<Len(list) + 1, 0>>
  <2>3. /\ new \in Seq(MenuEntries) /\ PlacesOf(new) = PlacesOf(list) \cup {place} /\ EntryAt(new, place) = e
        /\ \A p \in PlacesOf(list) : EntryAt(new, p) = EntryAt(list, p)
    BY <2>2, AppendedEntry, Zenon
  <2> HIDE DEF place
  <2>4. callbacks = << >> /\ callbacks' = callbacks /\ update(new)
    BY <1>1, <1>3, <2>1, <2>2 DEF AddEntry
  <2>5. QED
    BY <1>1, <2>2, <2>3, <2>4, EntryAdded
<1>4. CASE AddSubmenuEntry
  <2>1. PICK kind \in Kinds, state \in BOOLEAN :
          update([entries EXCEPT ![Len(entries)].entries = Append(@, Entry(kind, state))])
    BY <1>4 DEF AddSubmenuEntry
  <2>2. PICK e \in Leaves : e = Entry(kind, state) /\ e.toggled = e.initial
    BY <1>2
  <2> DEFINE new   == [list EXCEPT ![Len(list)].entries = Append(@, e)]
             place == <<Len(list), Len(list[Len(list)].entries) + 1>>
  <2>3. /\ new \in Seq(MenuEntries) /\ PlacesOf(new) = PlacesOf(list) \cup {place} /\ EntryAt(new, place) = e
        /\ \A p \in PlacesOf(list) :
             /\ EntryAt(new, p).kind = EntryAt(list, p).kind
             /\ EntryAt(new, p).toggled = EntryAt(list, p).toggled
             /\ EntryAt(new, p).initial = EntryAt(list, p).initial
    <3>1. list # << >>
      BY <1>1, <1>4 DEF AddSubmenuEntry
    <3>2. QED
      BY <3>1, AppendedToSubmenu, Zenon
  <2> HIDE DEF place
  <2>4. callbacks = << >> /\ callbacks' = callbacks /\ update(new)
    BY <1>1, <1>4, <2>1, <2>2 DEF AddSubmenuEntry
  <2>5. QED
    BY <1>1, <2>2, <2>3, <2>4, EntryAdded
<1>5. CASE ClickItem
  BY <1>5, EntryCalled
<1>6. QED
  BY <1>3, <1>4, <1>5 DEF MenuNext

(* The entry of the menu that is called is the one the user meant, and a toggle is shown *)
(* as its callback was told last: for every menu, however often it was made anew.        *)
THEOREM MenuCallsEntries == Spec => []MenuCallsChosen
<1>1. Init => MenuInv
  BY MenuStart DEF Init
<1>2. MenuInv /\ [Next]_vars => MenuInv'
  <2> SUFFICES ASSUME MenuInv, [Next]_vars PROVE MenuInv'
    OBVIOUS
  <2>1. CASE UseMenu
    BY <2>1, MenuStep DEF UseMenu
  <2>2. CASE UNCHANGED menu_vars
    BY <2>2 DEF menu_vars, MenuInv, LastTold, CallsOf
  <2>3. UseMenu \/ UNCHANGED menu_vars
    BY DEF Next, vars, Call, Count, Compute, MakeRectangle, CompareRectangles, MatchChoices,
           OpenPages, PrintRange, CiteNames, PrintEnumerator, CaptureScreen
  <2>4. QED
    BY <2>1, <2>2, <2>3
<1>3. MenuInv => MenuCallsChosen
  BY MenuShown
<1>4. QED
  BY <1>1, <1>2, <1>3, PTL DEF Spec

-----------------------------------------------------------------------------
(* Arithmetic.                                                               *)

(* The limits of a type of 2 * h values. *)
LEMMA Limits ==
  ASSUME NEW T \in Types
  PROVE  \E h \in Nat \ {0} :
           /\ T.signed \in BOOLEAN /\ 2 ^ T.bits = 2 * h
           /\ Math!min(T) = IF T.signed THEN -h ELSE 0
           /\ Math!max(T) = IF T.signed THEN h - 1 ELSE 2 * h - 1
<1>1. /\ T.signed \in BOOLEAN /\ 2 ^ (T.bits - 1) \in Nat \ {0} /\ 2 ^ T.bits = 2 * 2 ^ (T.bits - 1)
  BY TypesAssumption
<1>2. PICK h \in Nat \ {0} : h = 2 ^ (T.bits - 1)
  BY <1>1
<1>3. /\ Math!min(T) = IF T.signed THEN -h ELSE 0
      /\ Math!max(T) = IF T.signed THEN h - 1 ELSE 2 * h - 1
  BY <1>1, <1>2, Zenon DEF Math!min, Math!max
<1>4. QED
  BY <1>1, <1>2, <1>3

(* Zero is a value of each type, and so are its limits. *)
LEMMA LimitsAround ==
  ASSUME NEW T \in Types
  PROVE  /\ Math!min(T) \in Int /\ Math!max(T) \in Int /\ Math!min(T) <= 0 /\ 0 <= Math!max(T)
         /\ Math!max(T) - Math!min(T) + 1 = 2 ^ T.bits
         /\ \A n : n \in Math!ValuesOf(T) <=> n \in Int /\ Math!min(T) <= n /\ n <= Math!max(T)
<1>1. PICK h \in Nat \ {0} :
        /\ T.signed \in BOOLEAN /\ 2 ^ T.bits = 2 * h
        /\ Math!min(T) = IF T.signed THEN -h ELSE 0
        /\ Math!max(T) = IF T.signed THEN h - 1 ELSE 2 * h - 1
  BY Limits
<1>2. PICK l \in Int, m \in Int : l = Math!min(T) /\ m = Math!max(T) /\ l <= 0 /\ 0 <= m /\ m - l + 1 = 2 * h
  BY <1>1
<1>3. \A n : n \in l .. m <=> n \in Int /\ l <= n /\ n <= m
  OBVIOUS
<1>4. QED
  BY <1>1, <1>2, <1>3 DEF Math!ValuesOf

(* A value of the type is not changed when it is converted to it. *)
LEMMA NotWrapped ==
  ASSUME NEW T \in Types, NEW n \in Math!ValuesOf(T)
  PROVE  Math!Wrapped(T, n) = n
<1>1. PICK l \in Int, p \in Nat \ {0} :
        l = Math!min(T) /\ p = 2 ^ T.bits /\ n \in Int /\ l <= n /\ n - l < p
  <2>1. PICK l \in Int, m \in Int : l = Math!min(T) /\ m = Math!max(T) /\ m - l + 1 = 2 ^ T.bits
                                  /\ l <= 0 /\ 0 <= m /\ n \in Int /\ l <= n /\ n <= m
    BY LimitsAround
  <2>2. m - l + 1 \in Nat \ {0} /\ n - l < m - l + 1
    BY <2>1
  <2>3. QED
    BY <2>1, <2>2
<1>2. (n - l) % p = n - l
  <2>1. PICK k \in Nat : k = n - l /\ k < p
    BY <1>1
  <2>2. k % p = k
    BY <2>1
  <2>3. QED
    BY <2>1, <2>2
<1>3. Math!Wrapped(T, n) = ((n - l) % p) + l
  BY <1>1 DEF Math!Wrapped
<1>4. QED
  BY <1>1, <1>2, <1>3

\* A result is the number it is to be, or the error that fits.
Fits(T, n, e) ==
  /\ n > Math!max(T) => e = Math!Unexpected("overflow")
  /\ n < Math!min(T) => e = Math!Unexpected("underflow")
  /\ n \in Math!ValuesOf(T) => e = Math!Expected(n)

(* A guard that sees what does not fit. *)
LEMMA GuardedFits ==
  ASSUME NEW T \in Types, NEW n \in Int, NEW over, NEW under,
         over <=> n > Math!max(T), under <=> n < Math!min(T)
  PROVE  Fits(T, n, Math!Guarded(T, over, under, n))
<1>1. /\ Math!min(T) \in Int /\ Math!max(T) \in Int /\ Math!min(T) <= 0 /\ 0 <= Math!max(T)
      /\ n \in Math!ValuesOf(T) => Math!min(T) <= n /\ n <= Math!max(T) /\ Math!Wrapped(T, n) = n
  BY LimitsAround, NotWrapped
<1>2. /\ n > Math!max(T) => ~(n < Math!min(T))
      /\ n \in Math!ValuesOf(T) => ~(n > Math!max(T)) /\ ~(n < Math!min(T))
  BY <1>1
<1>3. QED
  BY <1>1, <1>2 DEF Fits, Math!Guarded

(* Sums and differences. *)
LEMMA AddFits ==
  ASSUME NEW T \in Types, NEW m \in Math!ValuesOf(T), NEW n \in Math!ValuesOf(T)
  PROVE  Fits(T, m + n, Math!add(T, m, n)) /\ Fits(T, m - n, Math!subtract(T, m, n))
<1>1. PICK l \in Int, h \in Int :
        /\ l = Math!min(T) /\ h = Math!max(T) /\ l <= 0 /\ 0 <= h
        /\ m \in Int /\ l <= m /\ m <= h /\ n \in Int /\ l <= n /\ n <= h
  BY LimitsAround
<1>2. (n > 0 /\ m > h - n <=> m + n > h) /\ (n < 0 /\ m < l - n <=> m + n < l)
  BY <1>1
<1>3. (n < 0 /\ m > h + n <=> m - n > h) /\ (n > 0 /\ m < l + n <=> m - n < l)
  BY <1>1
<1>4. m + n \in Int /\ m - n \in Int
  BY <1>1
<1>5. Fits(T, m + n, Math!Guarded(T, n > 0 /\ m > Math!max(T) - n, n < 0 /\ m < Math!min(T) - n, m + n))
  BY <1>1, <1>2, <1>4, GuardedFits
<1>6. Fits(T, m - n, Math!Guarded(T, n < 0 /\ m > Math!max(T) + n, n > 0 /\ m < Math!min(T) + n, m - n))
  BY <1>1, <1>3, <1>4, GuardedFits
<1>7. QED
  BY <1>5, <1>6 DEF Math!add, Math!subtract

(* A quotient that is rounded down is reached by a number if its product is. *)
LEMMA Multiples ==
  ASSUME NEW a \in Nat, NEW b \in Nat \ {0}, NEW x \in Nat
  PROVE  a \div b \in Nat /\ (x <= a \div b <=> x * b <= a)
<1>1. PICK q \in Nat, r \in Nat : q = a \div b /\ a = q * b + r /\ r < b
  <2>1. a \div b \in Nat /\ a % b \in Nat /\ a = (a \div b) * b + (a % b) /\ a % b < b
    OBVIOUS
  <2>2. QED
    BY <2>1
<1>2. ASSUME x <= q PROVE x * b <= a
  <2>1. PICK k \in Nat : q = x + k
    <3>1. q - x \in Nat /\ q = x + (q - x)
      BY <1>2
    <3>2. QED
      BY <3>1
  <2>2. q * b = x * b + k * b /\ k * b \in Nat /\ x * b \in Nat
    BY <2>1
  <2>3. QED
    BY <1>1, <2>2
<1>3. ASSUME x > q PROVE x * b > a
  <2>1. PICK k \in Nat : x = q + 1 + k
    <3>1. x - q - 1 \in Nat /\ x = q + 1 + (x - q - 1)
      BY <1>3
    <3>2. QED
      BY <3>1
  <2>2. x * b = q * b + b + k * b /\ k * b \in Nat /\ q * b \in Nat
    BY <2>1
  <2>3. QED
    BY <1>1, <2>2
<1>4. QED
  BY <1>1, <1>2, <1>3

\* a and b are m and n without their signs.
Unsigned(m, n, a, b) ==
  /\ a = Math!abs(m) /\ b = Math!abs(n) /\ (m = a \/ m = -a) /\ (n = b \/ n = -b)
  /\ a * b \in Nat \ {0} /\ Math!abs(m * n) = a * b
  /\ Math!sign(m) * Math!sign(n) = 1 => m * n = a * b
  /\ Math!sign(m) * Math!sign(n) # 1 => m * n = -(a * b)
  /\ Math!sign(m) \in {-1, 1} /\ Math!sign(n) \in {-1, 1}
  /\ Math!sign(m * n) = Math!sign(m) * Math!sign(n)
  /\ m = Math!sign(m) * a

(* A product, and the sign and the absolute value of it. *)
LEMMA SignOfProduct ==
  ASSUME NEW m \in Int, NEW n \in Int, m # 0, n # 0
  PROVE  \E a, b \in Nat \ {0} : Unsigned(m, n, a, b)
<1>1. PICK a \in Nat \ {0}, s \in {-1, 1} :
        a = Math!abs(m) /\ s = Math!sign(m) /\ (s = 1 => m = a) /\ (s = -1 => m = -a)
  BY DEF Math!abs, Math!sign
<1>2. PICK b \in Nat \ {0}, t \in {-1, 1} :
        b = Math!abs(n) /\ t = Math!sign(n) /\ (t = 1 => n = b) /\ (t = -1 => n = -b)
  BY DEF Math!abs, Math!sign
<1>3. PICK p \in Nat \ {0} : p = a * b
  <2>1. a * b \in Nat /\ a * b # 0
    OBVIOUS
  <2>2. QED
    BY <2>1
<1>4. /\ s * t = 1 => m * n = p
      /\ s * t # 1 => m * n = -p
      /\ s * t = IF s = t THEN 1 ELSE -1
  <2>1. /\ a * b = p /\ (-a) * b = -p /\ a * (-b) = -p /\ (-a) * (-b) = p
    BY <1>3
  <2>2. s * t = IF s = t THEN 1 ELSE -1
    OBVIOUS
  <2>3. CASE s = 1 /\ t = 1
    BY <1>1, <1>2, <2>1, <2>2, <2>3
  <2>4. CASE s = 1 /\ t = -1
    BY <1>1, <1>2, <2>1, <2>2, <2>4
  <2>5. CASE s = -1 /\ t = 1
    BY <1>1, <1>2, <2>1, <2>2, <2>5
  <2>6. CASE s = -1 /\ t = -1
    BY <1>1, <1>2, <2>1, <2>2, <2>6
  <2>7. QED
    BY <2>3, <2>4, <2>5, <2>6
<1>5. PICK r \in Int : r = m * n
  OBVIOUS
<1>6. Math!abs(m * n) = p /\ Math!sign(m * n) = s * t
  BY <1>4, <1>5 DEF Math!abs, Math!sign
<1>7. m = s * a
  BY <1>1
<1>8. Unsigned(m, n, a, b)
  BY <1>1, <1>2, <1>3, <1>4, <1>6, <1>7 DEF Unsigned
<1>9. QED
  BY <1>8

(* A product of two numbers above zero: it is refused if it does not fit, but for one *)
(* that would fit were the first of them smaller by one.                              *)
LEMMA UnsignedFits ==
  ASSUME NEW T \in Types, NEW m \in Math!ValuesOf(T), NEW n \in Math!ValuesOf(T), ~T.signed
  PROVE  Fits(T, m * n, Math!multiply(T, m, n)) \/ Math!NextToLimit(T, "multiply", m, n)
<1>1. PICK h \in Nat : h = Math!max(T) /\ Math!min(T) = 0 /\ m \in Nat /\ n \in Nat
  <2>1. Math!min(T) = 0
    BY Limits
  <2>2. QED
    BY <2>1, LimitsAround
<1>2. Math!multiply(T, m, n) = Math!MultiplyUnsigned(T, m, n)
  BY DEF Math!multiply
<1>3. CASE m = 0 \/ n = 0
  <2>1. Math!multiply(T, m, n) = Math!Expected(0)
    BY <1>2, <1>3, Zenon DEF Math!MultiplyUnsigned
  <2>2. m * n = 0
    BY <1>1, <1>3
  <2>3. QED
    BY <1>1, <2>1, <2>2 DEF Fits
<1>4. CASE m # 0 /\ n # 0
  <2>1. PICK q \in Nat : q = h \div n /\ \A x \in Nat : x <= q <=> x * n <= h
    <3>1. h \div n \in Nat /\ \A x \in Nat : x <= h \div n <=> x * n <= h
      BY <1>1, <1>4, Multiples
    <3>2. QED
      BY <3>1
  <2>2. PICK over \in BOOLEAN : over <=> \/ h % n = 0 /\ m > q
                                        \/ m - 1 > q
    OBVIOUS
  <2>3. Math!multiply(T, m, n) = Math!Guarded(T, over, FALSE, m * n)
    BY <1>1, <1>2, <1>4, <2>1, <2>2 DEF Math!MultiplyUnsigned
  <2>4. (m <= q <=> m * n <= h) /\ (m - 1 <= q <=> (m - 1) * n <= h) /\ m - 1 \in Nat /\ m * n \in Nat
    <3>1. m - 1 \in Nat /\ m * n \in Nat
      BY <1>1, <1>4
    <3>2. QED
      BY <1>1, <2>1, <3>1
  <2>5. over => m * n > h
    BY <1>1, <2>2, <2>4
  <2>6. ~over /\ m * n > h => (m - 1) * n <= h
    BY <1>1, <2>2, <2>4
  <2>7. CASE over \/ m * n <= h
    <3>1. (over <=> m * n > Math!max(T)) /\ (FALSE <=> m * n < Math!min(T)) /\ m * n \in Int
      BY <1>1, <2>4, <2>5, <2>7
    <3>2. Fits(T, m * n, Math!Guarded(T, over, FALSE, m * n))
      BY <3>1, GuardedFits
    <3>3. QED
      BY <2>3, <3>2
  <2>8. CASE ~over /\ m * n > h
    <3>1. (m - 1) * n <= h /\ m * n > h
      BY <2>6, <2>8
    <3>2. Math!abs(m) = m /\ Math!abs(n) = n
      BY <1>1 DEF Math!abs
    <3>3. QED
      BY <1>1, <3>1, <3>2 DEF Math!NextToLimit
  <2>9. QED
    BY <1>1, <2>4, <2>7, <2>8
<1>5. QED
  BY <1>3, <1>4

(* A product of signed numbers: as above, but for one that is refused although it fits, *)
(* being so low that it would not, were the first of them larger by one, and for those  *)
(* with the largest value, the test of which wraps around.                              *)
LEMMA SignedFits ==
  ASSUME NEW T \in Types, NEW m \in Math!ValuesOf(T), NEW n \in Math!ValuesOf(T), T.signed
  PROVE  \/ Fits(T, m * n, Math!multiply(T, m, n))
         \/ Math!NextToLimit(T, "multiply", m, n) \/ Math!IncrementWraps(T, "multiply", m, n)
<1>1. PICK h \in Nat \ {0} :
        /\ Math!max(T) = h - 1 /\ Math!min(T) = -h
        /\ m \in Int /\ n \in Int /\ -h <= m /\ m <= h - 1 /\ -h <= n /\ n <= h - 1
  <2>1. PICK h \in Nat \ {0} : Math!max(T) = h - 1 /\ Math!min(T) = -h
    BY Limits
  <2>2. QED
    BY <2>1, LimitsAround
<1>2. Math!multiply(T, m, n) = Math!MultiplySigned(T, m, n)
  BY DEF Math!multiply
<1>3. CASE m = 0 \/ n = 0
  <2>1. Math!multiply(T, m, n) = Math!Expected(0)
    BY <1>2, <1>3, Zenon DEF Math!MultiplySigned
  <2>2. m * n = 0
    BY <1>1, <1>3
  <2>3. QED
    BY <1>1, <2>1, <2>2 DEF Fits
<1>4. CASE m # 0 /\ n # 0
  <2>0. PICK a \in Nat \ {0}, b \in Nat \ {0} : Unsigned(m, n, a, b)
    BY <1>1, <1>4, SignOfProduct
  <2>1. /\ a = Math!abs(m) /\ b = Math!abs(n) /\ (m = a \/ m = -a) /\ (n = b \/ n = -b)
        /\ a * b \in Nat \ {0}
        /\ Math!sign(m) * Math!sign(n) = 1 => m * n = a * b
        /\ Math!sign(m) * Math!sign(n) # 1 => m * n = -(a * b)
    BY <2>0 DEF Unsigned
  <2>2. PICK up \in BOOLEAN : up <=> Math!sign(m) * Math!sign(n) = 1
    OBVIOUS
  <2>3. PICK p \in Nat \ {0} : p = a * b /\ (up => m * n = p) /\ (~up => m * n = -p) /\ m * n \in Int
    BY <1>1, <2>1, <2>2
  <2>4. CASE (m = -h /\ n # 1) \/ (m # -h /\ n = -h /\ m # 1)
    <3>1. Math!multiply(T, m, n) = Math!Guarded(T, up, ~up, m * n)
      BY <1>1, <1>2, <1>4, <2>2, <2>4, Zenon DEF Math!MultiplySigned
    <3>2. p >= h /\ (~up => p >= 2 * h)
      <4>1. CASE m = -h /\ n # 1
        <5>1. a = h /\ p = h * b
          BY <1>1, <2>1, <2>3, <4>1
        <5>2. ~up => b >= 2
          <6>1. ASSUME b = 1 PROVE up
            <7>1. n = -1
              BY <2>1, <4>1, <6>1
            <7>2. Math!sign(m) = -1 /\ Math!sign(n) = -1
              BY <1>1, <4>1, <7>1 DEF Math!sign
            <7>3. QED
              BY <2>2, <7>2
          <6>2. QED
            BY <6>1
        <5>3. b >= 1
          OBVIOUS
        <5>4. ASSUME NEW c \in Nat, b >= c PROVE h * b >= h * c
          <6>1. PICK k \in Nat : b = c + k
            <7>1. b - c \in Nat /\ b = c + (b - c)
              BY <5>4
            <7>2. QED
              BY <7>1
          <6>2. h * b = h * c + h * k /\ h * k \in Nat /\ h * c \in Nat
            BY <6>1
          <6>3. QED
            BY <6>2
        <5>5. h * b >= h * 1 /\ (~up => h * b >= h * 2)
          BY <5>2, <5>3, <5>4
        <5>6. QED
          BY <5>1, <5>5
      <4>2. CASE n = -h /\ m # -h /\ m # 1
        <5>1. b = h /\ p = a * h
          BY <1>1, <2>1, <2>3, <4>2
        <5>2. ~up => a >= 2
          <6>1. ASSUME a = 1 PROVE up
            <7>1. m = -1
              BY <2>1, <4>2, <6>1
            <7>2. Math!sign(m) = -1 /\ Math!sign(n) = -1
              BY <1>1, <4>2, <7>1 DEF Math!sign
            <7>3. QED
              BY <2>2, <7>2
          <6>2. QED
            BY <6>1
        <5>3. a >= 1
          OBVIOUS
        <5>4. ASSUME NEW c \in Nat, a >= c PROVE a * h >= c * h
          <6>1. PICK k \in Nat : a = c + k
            <7>1. a - c \in Nat /\ a = c + (a - c)
              BY <5>4
            <7>2. QED
              BY <7>1
          <6>2. a * h = c * h + k * h /\ k * h \in Nat /\ c * h \in Nat
            BY <6>1
          <6>3. QED
            BY <6>2
        <5>5. a * h >= 1 * h /\ (~up => a * h >= 2 * h)
          BY <5>2, <5>3, <5>4
        <5>6. QED
          BY <5>1, <5>5
      <4>3. QED
        BY <2>4, <4>1, <4>2
    <3>3. (up <=> m * n > Math!max(T)) /\ (~up <=> m * n < Math!min(T))
      BY <1>1, <2>3, <3>2
    <3>4. QED
      BY <2>3, <3>1, <3>3, GuardedFits
  <2>5. CASE m # -h /\ n # -h /\ a > 1 /\ b > 1
    <3>1. PICK q \in Nat : q = (h - 1) \div b /\ \A x \in Nat : x <= q <=> x * b <= h - 1
      <4>1. h - 1 \in Nat
        OBVIOUS
      <4>2. (h - 1) \div b \in Nat /\ \A x \in Nat : x <= (h - 1) \div b <=> x * b <= h - 1
        BY <4>1, Multiples
      <4>3. QED
        BY <4>2
    <3>2. PICK r \in Nat : r = h \div b /\ \A x \in Nat : x <= r <=> x * b <= h
      <4>1. h \div b \in Nat /\ \A x \in Nat : x <= h \div b <=> x * b <= h
        BY Multiples
      <4>2. QED
        BY <4>1
    <3>3. Math!abs(Math!Quotient(Math!min(T), Math!abs(n))) = r
      <4>1. /\ Math!sign(-h) = -1 /\ Math!sign(b) = 1 /\ Math!abs(-h) = h /\ Math!abs(b) = b
        BY DEF Math!sign, Math!abs
      <4>2. Math!Quotient(-h, b) = -1 * 1 * r
        BY <3>2, <4>1 DEF Math!Quotient
      <4>3. Math!abs(-1 * 1 * r) = r
        BY DEF Math!abs
      <4>4. QED
        BY <1>1, <2>1, <4>2, <4>3
    <3>4. PICK over \in BOOLEAN :
            over <=> up /\ (IF Math!Divides(n, h - 1) THEN a ELSE a - 1) > q
      OBVIOUS
    <3>5. PICK under \in BOOLEAN :
            under <=> ~up /\ (IF Math!Divides(n, -h) THEN a ELSE Math!Wrapped(T, a + 1)) > r
      OBVIOUS
    <3>6. Math!multiply(T, m, n) = Math!Guarded(T, over, under, m * n)
      <4>1. m # 0 /\ n # 0 /\ m # Math!min(T) /\ n # Math!min(T) /\ Math!abs(m) > 1 /\ Math!abs(n) > 1
        BY <1>1, <1>4, <2>1, <2>5
      <4>2. /\ over <=> up /\ (IF Math!Divides(n, Math!max(T)) THEN Math!abs(m) ELSE Math!abs(m) - 1)
                                > Math!max(T) \div Math!abs(n)
            /\ under <=> ~up /\ (IF Math!Divides(n, Math!min(T)) THEN Math!abs(m)
                                      ELSE Math!Wrapped(T, Math!abs(m) + 1))
                                > Math!abs(Math!Quotient(Math!min(T), Math!abs(n)))
        BY <1>1, <2>1, <3>1, <3>3, <3>4, <3>5
      <4>3. QED
        BY <1>2, <2>2, <4>1, <4>2 DEF Math!MultiplySigned
    <3>7. /\ a <= q <=> p <= h - 1
          /\ a - 1 <= q <=> (a - 1) * b <= h - 1
          /\ a <= r <=> p <= h
          /\ a + 1 <= r <=> (a + 1) * b <= h
      BY <2>3, <3>1, <3>2
    <3>8. over => up /\ p > h - 1
      BY <3>4, <3>7
    <3>9. CASE a = h - 1 /\ ~up /\ ~Math!Divides(n, -h)
      <4>1. m * n < 0
        BY <2>3, <3>9
      <4>2. QED
        BY <1>1, <2>1, <2>5, <3>9, <4>1 DEF Math!IncrementWraps
    <3>10. CASE a # h - 1 \/ up \/ Math!Divides(n, -h)
      <4>1. under <=> ~up /\ (IF Math!Divides(n, -h) THEN a ELSE a + 1) > r
        <5>1. ASSUME a # h - 1 PROVE Math!Wrapped(T, a + 1) = a + 1
          <6>1. a + 1 \in Int /\ -h <= a + 1 /\ a + 1 <= h - 1
            BY <1>1, <2>1, <2>5, <5>1
          <6>2. a + 1 \in Math!ValuesOf(T)
            BY <1>1, <6>1, LimitsAround
          <6>3. QED
            BY <6>2, NotWrapped
        <5>2. QED
          BY <3>5, <3>10, <5>1
      <4>2. ~up /\ p > h => under
        BY <4>1, <3>7
      <4>3. CASE up /\ ~over /\ p > h - 1
        <5>1. (a - 1) * b <= h - 1
          BY <3>4, <3>7, <4>3
        <5>2. QED
          BY <1>1, <2>1, <2>3, <4>3, <5>1 DEF Math!NextToLimit
      <4>4. CASE under /\ p <= h
        <5>1. (a + 1) * b > h /\ m * n < 0 /\ ~(m * n > h - 1)
          <6>1. ~up /\ a + 1 > r
            BY <4>1, <3>7, <4>4
          <6>2. (a + 1) * b \in Nat
            OBVIOUS
          <6>3. QED
            BY <2>3, <3>7, <6>1, <6>2
        <5>2. (a + 1) * b > -Math!min(T)
          BY <1>1, <5>1
        <5>3. m * n \in Int /\ Math!min(T) <= m * n
          BY <1>1, <2>3, <4>4, <5>1
        <5>4. QED
          BY <1>1, <2>1, <5>1, <5>2, <5>3 DEF Math!NextToLimit
      <4>5. CASE (over \/ ~up \/ p <= h - 1) /\ (~under \/ p > h)
        <5>1. ~up => ~over
          BY <3>4
        <5>2. up => ~under
          BY <3>5
        <5>3. (over <=> m * n > Math!max(T)) /\ (under <=> m * n < Math!min(T))
          BY <1>1, <2>3, <3>8, <4>2, <4>5, <5>1, <5>2
        <5>4. QED
          BY <2>3, <3>6, <5>3, GuardedFits
      <4>6. QED
        BY <4>3, <4>4, <4>5
    <3>11. QED
      BY <3>9, <3>10
  <2>6. CASE \/ m = -h /\ n = 1
             \/ n = -h /\ m = 1
             \/ m # -h /\ n # -h /\ (a = 1 \/ b = 1)
    <3>1. Math!multiply(T, m, n) = Math!Expected(Math!Wrapped(T, m * n))
      <4>1. m # 0 /\ n # 0 /\ ~((m = Math!min(T) /\ n # 1) \/ (m # Math!min(T) /\ n = Math!min(T) /\ m # 1))
            /\ ~(m # Math!min(T) /\ n # Math!min(T) /\ Math!abs(m) > 1 /\ Math!abs(n) > 1)
        BY <1>1, <1>4, <2>1, <2>6
      <4>2. QED
        BY <1>2, <4>1, Zenon DEF Math!MultiplySigned
    <3>2. -h <= m * n /\ m * n <= h - 1
      <4>1. CASE n = 1 \/ m = 1
        BY <1>1, <4>1
      <4>2. CASE n = -1 /\ m # -h
        BY <1>1, <4>2
      <4>3. CASE m = -1 /\ n # -h
        BY <1>1, <4>3
      <4>4. QED
        BY <2>1, <2>6, <4>1, <4>2, <4>3
    <3>3. m * n \in Math!ValuesOf(T) /\ ~(m * n > Math!max(T)) /\ ~(m * n < Math!min(T))
      BY <1>1, <2>3, <3>2, LimitsAround
    <3>4. QED
      BY <3>1, <3>3, NotWrapped DEF Fits
  <2>7. QED
    BY <2>1, <2>4, <2>5, <2>6
<1>5. QED
  BY <1>3, <1>4

(* A quotient, rounded to zero. *)
LEMMA DivideFits ==
  ASSUME NEW T \in Types, NEW m \in Math!ValuesOf(T), NEW n \in Math!ValuesOf(T), n # 0
  PROVE  /\ Fits(T, Math!Quotient(m, n), Math!divide(T, m, n)) /\ Math!Quotient(m, n) \in Int
<1>1. /\ m \in Int /\ n \in Int /\ Math!min(T) <= m /\ m <= Math!max(T) /\ Math!min(T) <= n /\ n <= Math!max(T)
      /\ 0 \in Math!ValuesOf(T) /\ Math!min(T) \in Int /\ Math!max(T) \in Int /\ Math!min(T) <= 0 /\ 0 <= Math!max(T)
  BY LimitsAround
<1>2. CASE m = 0
  <2>1. Math!Quotient(m, n) = 0
    <3>1. Math!sign(m) = 0 /\ Math!sign(n) \in Int /\ Math!abs(m) = 0 /\ Math!abs(n) \in Nat \ {0}
      BY <1>1, <1>2 DEF Math!sign, Math!abs
    <3>2. 0 \div Math!abs(n) \in Int
      BY <3>1
    <3>3. QED
      BY <3>1, <3>2 DEF Math!Quotient
  <2>2. Math!divide(T, m, n) = Math!Expected(0)
    BY <1>2, Zenon DEF Math!divide
  <2>3. QED
    BY <1>1, <2>1, <2>2 DEF Fits
<1>3. CASE m # 0
  <2>0. PICK a \in Nat \ {0}, b \in Nat \ {0} : Unsigned(m, n, a, b)
    BY <1>1, <1>3, SignOfProduct
  <2>1. /\ a = Math!abs(m) /\ b = Math!abs(n) /\ (m = a \/ m = -a) /\ (n = b \/ n = -b)
        /\ Math!sign(m) \in {-1, 1} /\ Math!sign(n) \in {-1, 1}
    BY <2>0 DEF Unsigned
  <2>2. PICK q \in Nat : q = a \div b /\ q * b <= a /\ q <= a /\ (b >= 2 => 2 * q <= a) /\ (b = 1 => q = a)
    <3>1. PICK q \in Nat : q = a \div b /\ q * b <= a /\ (b = 1 => a <= q)
      <4>1. a \div b \in Nat /\ \A x \in Nat : x <= a \div b <=> x * b <= a
        BY Multiples
      <4>2. b = 1 => a * b <= a
        OBVIOUS
      <4>3. (a \div b) * b <= a
        BY <4>1
      <4>4. b = 1 => a <= a \div b
        BY <4>1, <4>2
      <4>5. QED
        BY <4>1, <4>3, <4>4
    <3>2. ASSUME NEW c \in Nat, b >= c PROVE q * b >= q * c
      <4>1. PICK k \in Nat : b = c + k
        <5>1. b - c \in Nat /\ b = c + (b - c)
          BY <3>2
        <5>2. QED
          BY <5>1
      <4>2. q * b = q * c + q * k /\ q * k \in Nat /\ q * c \in Nat
        BY <4>1
      <4>3. QED
        BY <4>2
    <3>3. b >= 1 /\ q * b >= q * 1 /\ (b >= 2 => q * b >= q * 2)
      BY <3>2
    <3>4. q * b \in Nat
      OBVIOUS
    <3>5. QED
      BY <3>1, <3>3, <3>4
  <2>3. PICK s \in {-1, 1}, t \in {-1, 1} :
          /\ s = Math!sign(m) /\ t = Math!sign(n)
          /\ Math!Quotient(m, n) = (s * t) * q
          /\ (m = a <=> s = 1) /\ (n = b <=> t = 1)
    <3>1. Math!Quotient(m, n) = Math!sign(m) * Math!sign(n) * q
      BY <2>1, <2>2 DEF Math!Quotient
    <3>2. (m = a <=> Math!sign(m) = 1) /\ (n = b <=> Math!sign(n) = 1)
      BY <1>1, <1>3, <2>1 DEF Math!sign
    <3>3. QED
      BY <2>1, <3>1, <3>2
  <2>4. PICK z \in Int : z = Math!Quotient(m, n) /\ (s = t => z = q) /\ (s # t => z = -q)
    <3>1. (s = t => (s * t) * q = q) /\ (s # t => (s * t) * q = -q)
      OBVIOUS
    <3>2. QED
      BY <2>3, <3>1
  <2>5. PICK over \in BOOLEAN : over <=> T.signed /\ m = Math!min(T) /\ n = -1
    OBVIOUS
  <2>6. Math!divide(T, m, n) = Math!Guarded(T, over, FALSE, z)
    BY <1>3, <2>4, <2>5 DEF Math!divide
  <2>7. (over <=> z > Math!max(T)) /\ ~(z < Math!min(T))
    <3>1. PICK h \in Nat \ {0} :
            /\ T.signed \in BOOLEAN
            /\ Math!min(T) = IF T.signed THEN -h ELSE 0
            /\ Math!max(T) = IF T.signed THEN h - 1 ELSE 2 * h - 1
      BY Limits
    <3>2. CASE T.signed
      <4>1. a <= h /\ (a = h => m = -h)
        BY <1>1, <2>1, <3>1, <3>2
      <4>2. CASE m = -h /\ n = -1
        <5>1. a = h /\ b = 1 /\ s = -1 /\ t = -1
          BY <1>1, <2>1, <2>3, <4>2
        <5>2. QED
          BY <2>2, <2>4, <2>5, <3>1, <3>2, <4>2, <5>1
      <4>3. CASE m = -h /\ n # -1
        <5>1. a = h /\ s = -1 /\ (b = 1 => t = 1)
          BY <1>1, <2>1, <2>3, <4>3
        <5>2. (b >= 2 => q <= h - 1) /\ (b = 1 => z = -h) /\ q <= h
          BY <2>2, <2>4, <5>1
        <5>3. b >= 2 \/ b = 1
          OBVIOUS
        <5>4. QED
          BY <2>4, <2>5, <3>1, <3>2, <4>3, <5>2, <5>3
      <4>4. CASE m # -h
        <5>1. q <= h - 1
          BY <2>2, <4>1, <4>4
        <5>2. QED
          BY <2>4, <2>5, <3>1, <3>2, <4>4, <5>1
      <4>5. QED
        BY <4>2, <4>3, <4>4
    <3>3. CASE ~T.signed
      <4>1. m = a /\ n = b /\ s = 1 /\ t = 1
        BY <1>1, <2>1, <2>3, <3>1, <3>3
      <4>2. QED
        BY <1>1, <2>2, <2>4, <2>5, <3>1, <3>3, <4>1
    <3>4. QED
      BY <3>2, <3>3
  <2>8. Fits(T, z, Math!Guarded(T, over, FALSE, z))
    BY <2>7, GuardedFits
  <2>9. QED
    BY <2>4, <2>6, <2>8
<1>4. QED
  BY <1>2, <1>3

(* A product divided by one of its factors is the other one. *)
LEMMA QuotientOfProduct ==
  ASSUME NEW m \in Int, NEW n \in Int \ {0}
  PROVE  Math!Quotient(m * n, n) = m
<1>1. CASE m = 0
  <2>1. m * n = 0
    BY <1>1
  <2>2. Math!sign(0) = 0 /\ Math!sign(n) \in Int /\ Math!abs(0) = 0 /\ Math!abs(n) \in Nat \ {0}
    BY DEF Math!sign, Math!abs
  <2>3. 0 \div Math!abs(n) \in Int
    BY <2>2
  <2>4. QED
    BY <1>1, <2>1, <2>2, <2>3 DEF Math!Quotient
<1>2. CASE m # 0
  <2>0. PICK a \in Nat \ {0}, b \in Nat \ {0} : Unsigned(m, n, a, b)
    BY <1>2, SignOfProduct
  <2>1. /\ b = Math!abs(n) /\ Math!abs(m * n) = a * b /\ a * b \in Nat \ {0}
        /\ Math!sign(m) \in {-1, 1} /\ Math!sign(n) \in {-1, 1}
        /\ Math!sign(m * n) = Math!sign(m) * Math!sign(n)
        /\ m = Math!sign(m) * a
    BY <2>0 DEF Unsigned
  <2>2. (a * b) \div b = a
    <3>1. PICK q \in Nat : q = (a * b) \div b /\ \A x \in Nat : x <= q <=> x * b <= a * b
      <4>1. (a * b) \div b \in Nat /\ \A x \in Nat : x <= (a * b) \div b <=> x * b <= a * b
        BY <2>1, Multiples
      <4>2. QED
        BY <4>1
    <3>2. a <= q
      BY <2>1, <3>1
    <3>3. ~(a + 1 <= q)
      <4>1. (a + 1) * b = a * b + b /\ a + 1 \in Nat
        OBVIOUS
      <4>2. ~((a + 1) * b <= a * b)
        BY <2>1, <4>1
      <4>3. QED
        BY <3>1, <4>1, <4>2
    <3>4. QED
      BY <3>1, <3>2, <3>3
  <2>3. PICK s \in {-1, 1}, t \in {-1, 1} : s = Math!sign(m) /\ t = Math!sign(n)
    BY <2>1
  <2>4. Math!Quotient(m * n, n) = ((s * t) * t) * a
    BY <2>1, <2>2, <2>3 DEF Math!Quotient
  <2>5. (s * t) * t = s
    OBVIOUS
  <2>6. QED
    BY <2>1, <2>3, <2>4, <2>5
<1>3. QED
  BY <1>1, <1>2

(* What fits is what an operation promises. *)
LEMMA FitsProtected ==
  ASSUME NEW T \in Types, NEW operation \in Math!Operations, NEW m, NEW n,
         Math!Exact(operation, m, n) \in Int, ~(operation = "divide" /\ n = 0),
         Fits(T, Math!Exact(operation, m, n), Math!Computed(T, operation, m, n))
  PROVE  Math!Protected(T, operation, m, n)
<1>1. PICK exact \in Int : exact = Math!Exact(operation, m, n)
  OBVIOUS
<1> DEFINE e == Math!Computed(T, operation, m, n)
<1>2. /\ exact > Math!max(T) => e.error = "overflow"
      /\ exact < Math!min(T) => e.error = "underflow"
      /\ exact \in Math!ValuesOf(T) => e = Math!Expected(exact)
  BY <1>1 DEF Fits, Math!Unexpected
<1>3. /\ e.error = "overflow" => Math!clamp(T, e) = {Math!max(T)}
      /\ e.error = "underflow" => Math!clamp(T, e) = {Math!min(T)}
  BY DEF Math!clamp, Math!has_value
<1>4. exact > Math!max(T) \/ exact < Math!min(T) \/ exact \in Math!ValuesOf(T)
  BY LimitsAround
<1>5. QED
  BY <1>1, <1>2, <1>3, <1>4, Zenon DEF Math!Protected

(* What fits can be undone if the opposite operation does so with the exact result. *)
LEMMA FitsUndone ==
  ASSUME NEW T \in Types, NEW operation \in {"add", "subtract", "multiply"}, NEW m \in Int, NEW n,
         NEW exact \in Int, NEW e, e = Math!Computed(T, operation, m, n), Fits(T, exact, e),
         operation # "multiply" \/ n # 0,
         exact \in Math!ValuesOf(T) => Math!Computed(T, Math!UndoneBy[operation], exact, n) = Math!Expected(m)
  PROVE  Math!Undone(T, operation, m, n)
<1>1. ~Math!has_value(e) \/ (exact \in Math!ValuesOf(T) /\ e = Math!Expected(exact))
  <2>1. exact > Math!max(T) \/ exact < Math!min(T) \/ exact \in Math!ValuesOf(T)
    BY LimitsAround
  <2>2. QED
    BY <2>1 DEF Fits, Math!Unexpected, Math!has_value
<1>2. PICK back : back = Math!AndThen(T, Math!UndoneBy[operation], e, Math!Expected(n))
  OBVIOUS
<1>3. CASE ~Math!has_value(e)
  <2>1. back = e
    BY <1>2, <1>3 DEF Math!AndThen
  <2>2. QED
    BY <1>2, <1>3, <2>1 DEF Math!Undone
<1>4. CASE exact \in Math!ValuesOf(T) /\ e = Math!Expected(exact)
  <2>1. Math!has_value(e) /\ e.value = exact /\ Math!has_value(Math!Expected(n)) /\ Math!Expected(n).value = n
    BY <1>4 DEF Math!Expected, Math!has_value
  <2>2. back = Math!Expected(m)
    BY <1>2, <1>4, <2>1 DEF Math!AndThen
  <2>3. QED
    BY <1>2, <2>1, <2>2 DEF Math!Undone
<1>5. QED
  BY <1>1, <1>3, <1>4

(* Each operation. *)
LEMMA OperationProtected ==
  ASSUME NEW T \in Types, NEW operation \in Math!Operations,
         NEW m \in Math!ValuesOf(T), NEW n \in Math!ValuesOf(T)
  PROVE  \/ Math!Protected(T, operation, m, n) /\ Math!Undone(T, operation, m, n)
         \/ Math!NextToLimit(T, operation, m, n) \/ Math!IncrementWraps(T, operation, m, n)
<1>1. m \in Int /\ n \in Int /\ Math!max(T) \in Int /\ Math!min(T) \in Int
  BY LimitsAround
<1>2. CASE operation = "add"
  <2>1. Math!Exact(operation, m, n) = m + n /\ Math!Computed(T, operation, m, n) = Math!add(T, m, n)
    BY <1>2 DEF Math!Exact, Math!Computed
  <2>2. Fits(T, m + n, Math!add(T, m, n)) /\ m + n \in Int
    BY <1>1, AddFits
  <2>3. Math!Protected(T, operation, m, n)
    BY <1>2, <2>1, <2>2, FitsProtected
  <2>4. ASSUME m + n \in Math!ValuesOf(T) PROVE Math!subtract(T, m + n, n) = Math!Expected(m)
    <3>1. Fits(T, (m + n) - n, Math!subtract(T, m + n, n))
      BY <2>4, AddFits
    <3>2. (m + n) - n = m
      BY <1>1
    <3>3. QED
      BY <3>1, <3>2 DEF Fits
  <2>5. Math!UndoneBy[operation] = "subtract"
    BY <1>2 DEF Math!UndoneBy
  <2>6. m + n \in Math!ValuesOf(T) => Math!Computed(T, Math!UndoneBy[operation], m + n, n) = Math!Expected(m)
    BY <2>4, <2>5 DEF Math!Computed
  <2>7. Math!Undone(T, operation, m, n)
    BY <1>1, <1>2, <2>1, <2>2, <2>6, FitsUndone
  <2>8. QED
    BY <2>3, <2>7
<1>3. CASE operation = "subtract"
  <2>1. Math!Exact(operation, m, n) = m - n /\ Math!Computed(T, operation, m, n) = Math!subtract(T, m, n)
    BY <1>3 DEF Math!Exact, Math!Computed
  <2>2. Fits(T, m - n, Math!subtract(T, m, n)) /\ m - n \in Int
    BY <1>1, AddFits
  <2>3. Math!Protected(T, operation, m, n)
    BY <1>3, <2>1, <2>2, FitsProtected
  <2>4. ASSUME m - n \in Math!ValuesOf(T) PROVE Math!add(T, m - n, n) = Math!Expected(m)
    <3>1. Fits(T, (m - n) + n, Math!add(T, m - n, n))
      BY <2>4, AddFits
    <3>2. (m - n) + n = m
      BY <1>1
    <3>3. QED
      BY <3>1, <3>2 DEF Fits
  <2>5. Math!UndoneBy[operation] = "add"
    BY <1>3 DEF Math!UndoneBy
  <2>6. m - n \in Math!ValuesOf(T) => Math!Computed(T, Math!UndoneBy[operation], m - n, n) = Math!Expected(m)
    BY <2>4, <2>5 DEF Math!Computed
  <2>7. Math!Undone(T, operation, m, n)
    BY <1>1, <1>3, <2>1, <2>2, <2>6, FitsUndone
  <2>8. QED
    BY <2>3, <2>7
<1>4. CASE /\ operation = "multiply"
           /\ ~Math!NextToLimit(T, operation, m, n) /\ ~Math!IncrementWraps(T, operation, m, n)
  <2>1. Math!Exact(operation, m, n) = m * n /\ Math!Computed(T, operation, m, n) = Math!multiply(T, m, n)
    BY <1>4 DEF Math!Exact, Math!Computed
  <2>2. Fits(T, m * n, Math!multiply(T, m, n)) /\ m * n \in Int
    BY <1>1, <1>4, SignedFits, UnsignedFits
  <2>3. Math!Protected(T, operation, m, n)
    BY <1>4, <2>1, <2>2, FitsProtected
  <2>4. Math!UndoneBy[operation] = "divide"
    BY <1>4 DEF Math!UndoneBy
  <2>5. CASE n = 0
    <3>1. Math!Undone(T, operation, m, n)
      BY <1>4, <2>5 DEF Math!Undone
    <3>2. QED
      BY <2>3, <3>1
  <2>6. CASE n # 0
    <3>1. ASSUME m * n \in Math!ValuesOf(T) PROVE Math!divide(T, m * n, n) = Math!Expected(m)
      <4>1. Fits(T, Math!Quotient(m * n, n), Math!divide(T, m * n, n))
        BY <2>6, <3>1, DivideFits
      <4>2. Math!Quotient(m * n, n) = m
        BY <1>1, <2>6, QuotientOfProduct
      <4>3. QED
        BY <4>1, <4>2 DEF Fits
    <3>2. m * n \in Math!ValuesOf(T) => Math!Computed(T, Math!UndoneBy[operation], m * n, n) = Math!Expected(m)
      BY <2>4, <3>1 DEF Math!Computed
    <3>3. Math!Undone(T, operation, m, n)
      BY <1>1, <1>4, <2>1, <2>2, <2>6, <3>2, FitsUndone
    <3>4. QED
      BY <2>3, <3>3
  <2>7. QED
    BY <2>3, <2>5, <2>6
<1>5. CASE operation = "divide"
  <2>1. Math!Undone(T, operation, m, n)
    BY <1>5 DEF Math!Undone, Math!UndoneBy
  <2>2. /\ Math!Exact(operation, m, n) = Math!Quotient(m, n)
        /\ Math!Computed(T, operation, m, n) = Math!divide(T, m, n)
    BY <1>5 DEF Math!Exact, Math!Computed
  <2>3. CASE n = 0
    <3>1. PICK e : e = Math!divide(T, m, n)
      OBVIOUS
    <3>2. e.error = IF m = 0 THEN "undefined" ELSE IF m > 0 THEN "overflow" ELSE "underflow"
      BY <2>3, <3>1 DEF Math!divide, Math!Unexpected
    <3>3. Math!clamp(T, e) = IF m = 0 THEN {} ELSE IF m > 0 THEN {Math!max(T)} ELSE {Math!min(T)}
      BY <3>2 DEF Math!clamp, Math!has_value
    <3>4. Math!Protected(T, operation, m, n)
      BY <1>5, <2>2, <2>3, <3>1, <3>3 DEF Math!Protected
    <3>5. QED
      BY <2>1, <3>4
  <2>4. CASE n # 0
    <3>1. Fits(T, Math!Quotient(m, n), Math!divide(T, m, n)) /\ Math!Quotient(m, n) \in Int
      BY <2>4, DivideFits
    <3>2. Math!Protected(T, operation, m, n)
      BY <1>5, <2>2, <2>4, <3>1, FitsProtected
    <3>3. QED
      BY <2>1, <3>2
  <2>5. QED
    BY <2>3, <2>4
<1>6. QED
  BY <1>2, <1>3, <1>4, <1>5 DEF Math!Operations

\* An operation is called with values of a type.
ComputeInv ==
  call.of = "arithmetic" =>
    /\ call.type \in Types /\ call.operation \in Math!Operations
    /\ call.m \in Math!ValuesOf(call.type) /\ call.n \in Math!ValuesOf(call.type)

(* For integers of every width each operation gives the exact result or the error that  *)
(* says where it would be, but for the products next to a limit and those of the largest *)
(* absolute value that multiply() is wrong about.                                        *)
THEOREM OperationsProtected == Spec => []ArithmeticProtected
<1>1. Init => ComputeInv
  BY DEF Init, ComputeInv
<1>2. ComputeInv /\ [Next]_vars => ComputeInv'
  <2> SUFFICES ASSUME ComputeInv, [Next]_vars PROVE ComputeInv'
    OBVIOUS
  <2>1. CASE Compute
    <3>1. PICK T \in Types, operation \in Math!Operations : \E m, n \in Math!ValuesOf(T) :
            call' = [of |-> "arithmetic", type |-> T, operation |-> operation, m |-> m, n |-> n]
      BY <2>1 DEF Compute, Call
    <3>2. PICK m \in Math!ValuesOf(T), n \in Math!ValuesOf(T) :
            call' = [of |-> "arithmetic", type |-> T, operation |-> operation, m |-> m, n |-> n]
      BY <3>1
    <3>3. QED
      BY <3>2 DEF ComputeInv
  <2>2. CASE UNCHANGED call
    BY <2>2 DEF ComputeInv
  <2>3. CASE OpenPages \/ MakeRectangle \/ CompareRectangles \/ MatchChoices
    BY <2>3 DEF OpenPages, MakeRectangle, CompareRectangles, MatchChoices, Call, ComputeInv
  <2>4. CASE PrintEnumerator \/ CaptureScreen
    BY <2>4 DEF PrintEnumerator, CaptureScreen, Call, ComputeInv
  <2>5. CASE PrintRange \/ CiteNames
    BY <2>5, CitationCalled DEF ComputeInv
  <2>6. QED
    BY <2>1, <2>2, <2>3, <2>4, <2>5 DEF Next, vars, Count, UseMenu
<1>3. ComputeInv => ArithmeticProtected
  BY OperationProtected DEF ComputeInv, ArithmeticProtected
<1>4. QED
  BY <1>1, <1>2, <1>3, PTL DEF Spec

-----------------------------------------------------------------------------
(* Pictures.                                                                 *)

(* Where a number is among the rows of d numbers each. *)
LEMMA RowOf ==
  ASSUME NEW n \in Nat, NEW d \in Nat \ {0}
  PROVE  /\ n \div d \in Nat /\ n % d \in Nat /\ n = (n \div d) * d + (n % d) /\ n % d < d
         /\ \A h, b \in Nat : b = h * d /\ n < b => n \div d < h
<1>1. n \div d \in Nat /\ n % d \in Nat /\ n = (n \div d) * d + (n % d) /\ n % d < d
  OBVIOUS
<1>2. ASSUME NEW h \in Nat, NEW b \in Nat, b = h * d, n < b PROVE n \div d < h
  <2>1. ~(h <= n \div d)
    <3>1. h <= n \div d <=> h * d <= n
      BY Multiples
    <3>2. QED
      BY <1>2, <3>1
  <2>2. PICK q \in Nat : q = n \div d
    BY <1>1
  <2>3. QED
    BY <2>1, <2>2
<1>3. QED
  BY <1>1, <1>2

\* n is in the row a of d numbers, at the place r.
Placed(n, a, d, r) == n = a * d + r /\ r < d

(* The row and the place of a number in it are the only ones there are. *)
LEMMA AtPlace ==
  ASSUME NEW a \in Nat, NEW d \in Nat \ {0}, NEW r \in Nat, NEW n \in Nat, Placed(n, a, d, r)
  PROVE  n \div d = a /\ n % d = r
<1>a. n = a * d + r /\ r < d
  BY DEF Placed
<1>1. PICK p \in Nat : p = a * d
  OBVIOUS
<1>2. PICK q \in Nat, s \in Nat : q = n \div d /\ s = n % d /\ n = q * d + s
  BY RowOf
<1>3. q = a
  <2>1. \A x \in Nat : x <= q <=> x * d <= n
    BY <1>2, Multiples
  <2>2. a * d <= n /\ (a + 1) * d > n
    <3>1. (a + 1) * d = p + d
      BY <1>1
    <3>2. QED
      BY <1>a, <1>1, <3>1
  <2>3. a <= q /\ ~(a + 1 <= q)
    <3>1. a + 1 \in Nat /\ (a + 1) * d \in Nat
      OBVIOUS
    <3>2. a <= q
      BY <2>1, <2>2
    <3>3. a + 1 <= q <=> (a + 1) * d <= n
      BY <2>1, <3>1
    <3>4. QED
      BY <2>2, <3>1, <3>2, <3>3
  <2>4. QED
    BY <2>3
<1>4. s = r
  BY <1>a, <1>1, <1>2, <1>3
<1>5. QED
  BY <1>2, <1>3, <1>4

(* A place in one of h rows is before their end. *)
LEMMA BeforeEnd ==
  ASSUME NEW a \in Nat, NEW d \in Nat \ {0}, NEW r \in Nat, NEW n \in Nat, Placed(n, a, d, r),
         NEW h \in Nat, a < h, NEW b \in Nat, b = h * d
  PROVE  n < b
<1>1. PICK k \in Nat : h = a + 1 + k
  <2>1. h - a - 1 \in Nat /\ h = a + 1 + (h - a - 1)
    OBVIOUS
  <2>2. QED
    BY <2>1
<1>2. PICK p \in Nat, l \in Nat : p = a * d /\ l = k * d
  <2>1. a * d \in Nat /\ k * d \in Nat
    OBVIOUS
  <2>2. QED
    BY <2>1
<1>3. b = p + d + l
  BY <1>1, <1>2
<1>4. n = p + r /\ r < d
  BY <1>2 DEF Placed
<1>5. QED
  BY <1>2, <1>3, <1>4

\* The rows of the device fill their words.
NoPadding(w, n) == Screen!RowBytes(w, n) = w * n

\* The row y of h rows is the row u from the last one on.
FromEnd(u, y, h) == u + y + 1 = h

\* The byte i is the one of the colour k of a pixel.
HasByte(bytes, i, x, y, k) == bytes[i] = <<x, y, Screen!Colours[k + 1]>>

\* i is the place of the byte k of the pixel x in the row u of w pixels of n bytes.
AtByte(i, u, w, x, n, k) == i = (u * w + x) * n + k

(* The byte of a colour of a pixel, where the rows of the device are not padded. *)
LEMMA ByteOfPixel ==
  ASSUME NEW w \in Nat \ {0}, NEW h \in Nat \ {0}, NEW n \in Nat, n >= 3, NEW left \in Nat,
         NoPadding(w, n),
         NEW x \in Nat, x < w, NEW y \in Nat, NEW u \in Nat, FromEnd(u, y, h), NEW k \in 0 .. 2,
         NEW i \in Nat, AtByte(i, u, w, x, n, k)
  PROVE  HasByte(Screen!DeviceBytes(w, h, n, left), i, x, y, k)
<1>a. i = (u * w + x) * n + k
  BY DEF AtByte
<1>1. PICK row \in Nat \ {0} : row = w * n
  <2>1. w * n \in Nat /\ w * n # 0
    OBVIOUS
  <2>2. QED
    BY <2>1
<1>2. u < h /\ h - 1 - u = y
  BY DEF FromEnd
<1>3. PICK r \in Nat : r = x * n + k
  <2>1. x * n + k \in Nat
    OBVIOUS
  <2>2. QED
    BY <2>1
<1>4. r < row /\ r \div n = x /\ r % n = k
  <2>1. k \in Nat /\ k < n /\ n \in Nat \ {0}
    OBVIOUS
  <2>2. Placed(r, x, n, k)
    BY <1>3, <2>1 DEF Placed
  <2>3. r < row /\ r \div n = x /\ r % n = k
    BY <1>1, <2>1, <2>2, AtPlace, BeforeEnd
  <2>4. QED
    BY <2>3
<1>5. Placed(i, u, row, r)
  <2>1. (u * w + x) * n = u * (w * n) + x * n
    OBVIOUS
  <2>2. u * (w * n) \in Nat /\ x * n \in Nat
    OBVIOUS
  <2>3. QED
    BY <1>a, <1>1, <1>3, <1>4, <2>1, <2>2 DEF Placed
<1>6. i \div row = u /\ i % row = r
  BY <1>5, AtPlace
<1>7. PICK b \in Nat : b = row * h /\ b = h * row
  OBVIOUS
<1>8. i < b
  BY <1>2, <1>5, <1>7, BeforeEnd
<1>9. i \in 0 .. row * h + left - 1 /\ i < row * h
  BY <1>7, <1>8
<1>10. Screen!RowBytes(w, n) = row
  BY <1>1 DEF NoPadding
<1>11. Screen!DeviceBytes(w, h, n, left)[i] =
         IF i < row * h /\ (i % row) \div n < w
           THEN <<(i % row) \div n, h - 1 - i \div row, Screen!Colours[((i % row) % n) + 1]>>
         ELSE Screen!padding
  BY <1>9, <1>10 DEF Screen!DeviceBytes
<1>12. QED
  BY <1>2, <1>4, <1>6, <1>9, <1>11 DEF HasByte

(* The picture is upright. *)
LEMMA CapturedPixel ==
  ASSUME NEW w \in Nat \ {0}, NEW h \in Nat \ {0}, NEW n \in Nat, n >= 3, NEW left \in Nat,
         NoPadding(w, n),
         NEW x \in Nat, x < w, NEW y \in Nat, y < h, NEW index \in Nat, index = y * w + x
  PROVE  /\ index \in 0 .. w * h - 1
         /\ Screen!capture(w, h, n, Screen!DeviceBytes(w, h, n, left)).data[index] = Screen!PixelAt(x, y)
<1> DEFINE bytes == Screen!DeviceBytes(w, h, n, left)
<1>0. Placed(index, y, w, x)
  BY DEF Placed
<1>1. index \div w = y /\ index % w = x
  BY <1>0, AtPlace
<1>2. index \in 0 .. w * h - 1
  <2>1. PICK b \in Nat : b = w * h /\ b = h * w
    OBVIOUS
  <2>2. index < b
    BY <1>0, <2>1, BeforeEnd
  <2>3. QED
    BY <2>1, <2>2
<1>3. PICK u \in Nat : u = h - 1 - y /\ FromEnd(u, y, h)
  <2>1. h - 1 - y \in Nat /\ FromEnd(h - 1 - y, y, h)
    BY DEF FromEnd
  <2>2. QED
    BY <2>1
<1>4. PICK i \in Nat : i = (u * w + x) * n
  <2>1. (u * w + x) * n \in Nat
    OBVIOUS
  <2>2. QED
    BY <2>1
<1>5. ASSUME NEW k \in 0 .. 2 PROVE bytes[i + k] = <<x, y, Screen!Colours[k + 1]>>
  <2>1. PICK j \in Nat : j = i + k /\ AtByte(j, u, w, x, n, k)
    <3>1. i + k \in Nat /\ i + k = (u * w + x) * n + k
      BY <1>4
    <3>2. QED
      BY <3>1 DEF AtByte
  <2>2. bytes[j] = <<x, y, Screen!Colours[k + 1]>>
    <3>1. FromEnd(u, y, h) /\ AtByte(j, u, w, x, n, k) /\ NoPadding(w, n) /\ x < w /\ n >= 3
      BY <1>3, <2>1
    <3>2. HasByte(Screen!DeviceBytes(w, h, n, left), j, x, y, k)
      BY <3>1, ByteOfPixel
    <3>3. QED
      BY <3>2 DEF bytes, HasByte
  <2>3. QED
    BY <2>1, <2>2
<1> HIDE DEF bytes
<1>6. Screen!Pixel(bytes, i) = Screen!PixelAt(x, y)
  <2>1. Screen!Colours[1] = "blue" /\ Screen!Colours[2] = "green" /\ Screen!Colours[3] = "red"
    BY DEF Screen!Colours
  <2>2. i + 0 = i /\ 0 + 1 = 1 /\ 1 + 1 = 2 /\ 2 + 1 = 3 /\ 0 \in 0 .. 2 /\ 1 \in 0 .. 2 /\ 2 \in 0 .. 2
    OBVIOUS
  <2>3. bytes[i] = <<x, y, "blue">> /\ bytes[i + 1] = <<x, y, "green">> /\ bytes[i + 2] = <<x, y, "red">>
    BY <1>5, <2>1, <2>2, Zenon
  <2>4. QED
    BY <2>3, Zenon DEF Screen!Pixel, Screen!PixelAt
<1>7. Screen!capture(w, h, n, bytes).data[index] = Screen!Pixel(bytes, i)
  <2>1. Screen!capture(w, h, n, bytes).data =
          [k \in 0 .. w * h - 1 |-> Screen!Pixel(bytes, ((h - 1 - k \div w) * w + (k % w)) * n)]
    BY DEF Screen!capture, Screen!Plane
  <2>2. Screen!capture(w, h, n, bytes).data[index]
          = Screen!Pixel(bytes, ((h - 1 - index \div w) * w + (index % w)) * n)
    BY <1>2, <2>1, Zenon
  <2>3. QED
    BY <1>1, <1>3, <1>4, <2>2
<1>8. QED
  BY <1>2, <1>6, <1>7 DEF bytes

\* A plane that has each pixel at its place.
Shows(plane, w, h) ==
  /\ plane.width = w /\ plane.height = h /\ DOMAIN plane.data = 0 .. w * h - 1
  /\ \A x, y \in Nat : x < w /\ y < h => plane.data[y * w + x] = Screen!PixelAt(x, y)

(* What is captured has each pixel at its place. *)
LEMMA CaptureShows ==
  ASSUME NEW w \in Nat \ {0}, NEW h \in Nat \ {0}, NEW n \in Nat, n >= 3, NEW left \in Nat, NoPadding(w, n)
  PROVE  Shows(Screen!capture(w, h, n, Screen!DeviceBytes(w, h, n, left)), w, h)
<1> DEFINE plane == Screen!capture(w, h, n, Screen!DeviceBytes(w, h, n, left))
<1>1. plane.width = w /\ plane.height = h /\ DOMAIN plane.data = 0 .. w * h - 1
  BY DEF Screen!capture, Screen!Plane
<1>2. ASSUME NEW x \in Nat, NEW y \in Nat, x < w, y < h PROVE plane.data[y * w + x] = Screen!PixelAt(x, y)
  <2>1. PICK index \in Nat : index = y * w + x
    <3>1. y * w + x \in Nat
      OBVIOUS
    <3>2. QED
      BY <3>1
  <2>2. plane.data[index] = Screen!PixelAt(x, y)
    BY <1>2, <2>1, CapturedPixel
  <2>3. QED
    BY <2>1, <2>2
<1> HIDE DEF plane
<1>3. QED
  BY <1>1, <1>2 DEF Shows, plane

(* Tesseract sees it so, whatever the object had before. *)
LEMMA SeenUpright ==
  ASSUME NEW w \in Nat \ {0}, NEW h \in Nat \ {0}, NEW plane,
         Shows(plane, w, h), NEW data
  PROVE  Screen!Upright(Screen!update(Screen!pix(data), plane))
<1> DEFINE before == Screen!pix(data)
           object == Screen!update(before, plane)
<1>0. /\ plane.width = w /\ plane.height = h /\ DOMAIN plane.data = 0 .. w * h - 1
      /\ \A x, y \in Nat : x < w /\ y < h => plane.data[y * w + x] = Screen!PixelAt(x, y)
  BY DEF Shows
<1>1. object = [before EXCEPT !.data = plane, !.pix = Screen!forward_as_pix(plane)]
  BY <1>0 DEF Screen!update
<1>2. before = [data |-> data, pix |-> Screen!forward_as_pix(data), thrown |-> FALSE]
  BY DEF Screen!pix
<1>3. object.pix = Screen!forward_as_pix(plane) /\ object.thrown = FALSE
  <2> HIDE DEF object, before
  <2>1. QED
    BY <1>1, <1>2
<1>4. /\ object.pix.width = w /\ object.pix.height = h
      /\ object.pix.words_of_line = w /\ object.pix.data = plane.data
  BY <1>0, <1>3 DEF Screen!forward_as_pix
<1> HIDE DEF object
<1>5. ASSUME NEW x \in 0 .. w - 1, NEW y \in 0 .. h - 1
      PROVE  Screen!SeenAt(object.pix, x, y)
               = [red |-> Screen!alpha, green |-> <<x, y, "blue">>, blue |-> <<x, y, "green">>]
  <2>1. Screen!pixel[4] = "alpha" /\ Screen!pixel[3] = "blue" /\ Screen!pixel[2] = "green"
    BY DEF Screen!pixel
  <2>2. object.pix.data[y * object.pix.words_of_line + x] = Screen!PixelAt(x, y)
    <3>1. x \in Nat /\ y \in Nat /\ x < w /\ y < h
      OBVIOUS
    <3>2. QED
      BY <1>0, <1>4, <3>1
  <2>3. /\ Screen!PixelAt(x, y)["alpha"] = Screen!alpha /\ Screen!PixelAt(x, y)["blue"] = <<x, y, "blue">>
        /\ Screen!PixelAt(x, y)["green"] = <<x, y, "green">>
    BY DEF Screen!PixelAt
  <2>4. QED
    BY <2>1, <2>2, <2>3 DEF Screen!SeenAt
<1>6. QED
  <2>1. \A x \in 0 .. object.pix.width - 1, y \in 0 .. object.pix.height - 1 :
          Screen!SeenAt(object.pix, x, y)
            = [red |-> Screen!alpha, green |-> <<x, y, "blue">>, blue |-> <<x, y, "green">>]
    BY <1>4, <1>5, Zenon
  <2>2. ~object.thrown
    BY <1>3
  <2>3. Screen!Upright(object)
    BY <2>1, <2>2, Zenon DEF Screen!Upright
  <2>4. QED
    BY <2>3 DEF object

(* The rows of the file are as long as those of Windows. *)
LEMMA RowSize ==
  ASSUME NEW w \in Nat
  PROVE  Screen!row_size(w) = Screen!RowBytes(w, 3) /\ Screen!row_size(w) \in Nat /\ w * 3 <= Screen!row_size(w)
<1>1. PICK q \in Nat, r \in Nat : w = 4 * q + r /\ r < 4 /\ r = w % 4
  <2>1. w \div 4 \in Nat /\ w % 4 \in Nat /\ w = 4 * (w \div 4) + (w % 4) /\ w % 4 < 4
    OBVIOUS
  <2>2. QED
    BY <2>1
<1>2. ((w * 3 + 3) \div 4) * 4 = w * 3 + r
  BY <1>1
<1>3. QED
  BY <1>1, <1>2 DEF Screen!row_size, Screen!RowBytes

(* The file is the bitmap of Windows. *)
LEMMA FileShows ==
  ASSUME NEW w \in Nat \ {0}, NEW h \in Nat \ {0}, NEW plane, Shows(plane, w, h)
  PROVE  Screen!bitmap(plane) = Screen!DeviceBytes(w, h, 3, 0)
<1>1. /\ plane.width = w /\ plane.height = h
      /\ \A x, y \in Nat : x < w /\ y < h => plane.data[y * w + x] = Screen!PixelAt(x, y)
  BY DEF Shows
<1>2. PICK row \in Nat \ {0} : row = Screen!row_size(w) /\ row = Screen!RowBytes(w, 3) /\ w * 3 <= row
  <2>1. Screen!row_size(w) = Screen!RowBytes(w, 3) /\ Screen!row_size(w) \in Nat /\ w * 3 <= Screen!row_size(w)
    BY RowSize
  <2>2. QED
    BY <2>1
<1>3. PICK b \in Nat : b = row * h /\ b = h * row
  OBVIOUS
<1> DEFINE ours(i) ==
             LET y == h - 1 - i \div row  k == i % row
             IN  IF k < w * 3 THEN plane.data[w * y + k \div 3][Screen!Colours[(k % 3) + 1]] ELSE Screen!padding
           theirs(i) ==
             LET x == (i % row) \div 3  y == h - 1 - i \div row
             IN  IF i < b /\ x < w THEN <<x, y, Screen!Colours[((i % row) % 3) + 1]>> ELSE Screen!padding
<1>4. Screen!bitmap(plane) = [i \in 0 .. b - 1 |-> ours(i)]
  BY <1>1, <1>2, <1>3 DEF Screen!bitmap
<1>5. Screen!DeviceBytes(w, h, 3, 0) = [i \in 0 .. b - 1 |-> theirs(i)]
  <2>1. row * h + 0 - 1 = b - 1
    BY <1>3
  <2>2. QED
    BY <1>2, <1>3, <2>1 DEF Screen!DeviceBytes
<1>6. ASSUME NEW i \in 0 .. b - 1 PROVE ours(i) = theirs(i)
  <2>1. PICK u \in Nat, k \in Nat : u = i \div row /\ k = i % row /\ u < h
    <3>1. i \in Nat /\ i < b
      OBVIOUS
    <3>2. i \div row \in Nat /\ i % row \in Nat
      BY <3>1, RowOf
    <3>3. i \div row < h
      BY <1>3, <3>1, RowOf
    <3>4. QED
      BY <3>2, <3>3
  <2>2. PICK x \in Nat, c \in Nat : x = k \div 3 /\ c = k % 3 /\ k = x * 3 + c /\ c < 3
    <3>1. k \div 3 \in Nat /\ k % 3 \in Nat /\ k = (k \div 3) * 3 + (k % 3) /\ k % 3 < 3
      OBVIOUS
    <3>2. QED
      BY <3>1
  <2>3. PICK y \in Nat : y = h - 1 - u /\ y < h
    <3>1. h - 1 - u \in Nat /\ h - 1 - u < h
      BY <2>1
    <3>2. QED
      BY <3>1
  <2>4. i < b /\ (k < w * 3 <=> x < w)
    BY <2>2
  <2>5. ours(i) = IF k < w * 3 THEN plane.data[w * y + x][Screen!Colours[c + 1]] ELSE Screen!padding
    BY <2>1, <2>2, <2>3
  <2>6. theirs(i) = IF i < b /\ x < w THEN <<x, y, Screen!Colours[c + 1]>> ELSE Screen!padding
    BY <2>1, <2>2, <2>3
  <2>7. ASSUME x < w PROVE plane.data[w * y + x][Screen!Colours[c + 1]] = <<x, y, Screen!Colours[c + 1]>>
    <3>1. plane.data[w * y + x] = Screen!PixelAt(x, y)
      <4>1. plane.data[y * w + x] = Screen!PixelAt(x, y)
        BY <1>1, <2>3, <2>7
      <4>2. y * w = w * y
        OBVIOUS
      <4>3. QED
        BY <4>1, <4>2
    <3>2. PICK colour \in {"red", "green", "blue"} : colour = Screen!Colours[c + 1]
      <4>1. Screen!Colours[1] = "blue" /\ Screen!Colours[2] = "green" /\ Screen!Colours[3] = "red"
        BY DEF Screen!Colours
      <4>2. c + 1 = 1 \/ c + 1 = 2 \/ c + 1 = 3
        BY <2>2
      <4>3. QED
        BY <4>1, <4>2
    <3>3. Screen!PixelAt(x, y)[colour] = <<x, y, colour>>
      BY DEF Screen!PixelAt
    <3>4. QED
      BY <3>1, <3>2, <3>3
  <2> HIDE DEF ours, theirs
  <2>8. QED
    BY <2>4, <2>5, <2>6, <2>7
<1> HIDE DEF ours, theirs
<1>7. QED
  BY <1>4, <1>5, <1>6

(* The file is as long as it says, and there is one if all went well. *)
LEMMA SavedShown ==
  ASSUME NEW w \in Nat \ {0}, NEW h \in Nat \ {0}, NEW plane, Shows(plane, w, h), NEW extension, NEW opens \in BOOLEAN
  PROVE  Screen!SavedAsShown(plane, extension, opens)
<1>1. plane.width = w /\ plane.height = h
  BY DEF Shows
<1> DEFINE saved == Screen!save_as_bitmap(plane, extension, opens)
<1>2. CASE extension # ".bmp" \/ ~opens
  <2>1. saved = [success |-> FALSE, file |-> Screen!NoFile]
    BY <1>2 DEF Screen!save_as_bitmap
  <2> HIDE DEF saved
  <2>2. saved.success = FALSE /\ saved.file.written = FALSE
    BY <2>1 DEF Screen!NoFile
  <2>3. QED
    BY <2>2 DEF saved, Screen!SavedAsShown
<1>3. CASE extension = ".bmp" /\ opens /\ plane.data = << >>
  <2>1. saved = [success |-> TRUE, file |-> Screen!EmptyFile]
    BY <1>3 DEF Screen!save_as_bitmap
  <2> HIDE DEF saved
  <2>2. saved.success = TRUE /\ saved.file.written = TRUE /\ saved.file.empty = TRUE
    BY <2>1 DEF Screen!EmptyFile
  <2>3. QED
    BY <2>2 DEF saved, Screen!SavedAsShown
<1>4. CASE extension = ".bmp" /\ opens /\ plane.data # << >>
  <2>1. saved = [success |-> TRUE,
                 file |-> [written |-> TRUE, empty |-> FALSE, bmp_offset |-> Screen!bmp_offset,
                           file_size |-> Screen!bmp_offset + Screen!row_size(plane.width) * plane.height,
                           width |-> plane.width, height |-> plane.height, bits_per_pixel |-> 24,
                           bitmap |-> Screen!bitmap(plane)]]
    BY <1>4 DEF Screen!save_as_bitmap
  <2> HIDE DEF saved
  <2>2. /\ saved.success = TRUE /\ saved.file.written = TRUE /\ saved.file.bmp_offset = Screen!bmp_offset
        /\ saved.file.file_size = Screen!bmp_offset + Screen!row_size(w) * h
        /\ saved.file.width = w /\ saved.file.height = h /\ saved.file.bits_per_pixel = 24
        /\ saved.file.bitmap = Screen!bitmap(plane)
    BY <1>1, <2>1
  <2>3. Screen!bmp_offset = 54
    BY DEF Screen!bmp_offset, Screen!bmp_file_magic, Screen!bmp_file_header, Screen!bmp_file_dib_info
  <2>4. 24 \div 8 = 3
    OBVIOUS
  <2>5. saved.file.bitmap = Screen!DeviceBytes(saved.file.width, saved.file.height, saved.file.bits_per_pixel \div 8, 0)
    BY <2>2, <2>4, FileShows
  <2>6. saved.file.file_size = 54 + Screen!RowBytes(plane.width, 3) * plane.height
    BY <1>1, <2>2, <2>3, RowSize
  <2>7. QED
    BY <2>2, <2>3, <2>5, <2>6 DEF saved, Screen!SavedAsShown
<1>5. QED
  BY <1>2, <1>3, <1>4

\* A picture is taken of an area that is not empty.
CaptureInv ==
  call.of = "picture" =>
    /\ call.width \in Nat \ {0} /\ call.height \in Nat \ {0} /\ call.byte_count \in Nat /\ call.byte_count >= 3
    /\ call.left \in Nat /\ call.opens \in BOOLEAN

(* What is captured begins with the upper line, and the picture is upright for every size of it. *)
THEOREM PicturesUpright == Spec => []PictureUpright
<1>1. Init => CaptureInv
  BY DEF Init, CaptureInv
<1>2. CaptureInv /\ [Next]_vars => CaptureInv'
  <2> SUFFICES ASSUME CaptureInv, [Next]_vars PROVE CaptureInv'
    OBVIOUS
  <2>1. CASE CaptureScreen
    <3>1. PICK width \in Sizes, height \in Sizes, n \in ByteCounts, left \in {0, 5},
               extension \in {".bmp", ".png"}, opens \in BOOLEAN :
            call' = [of |-> "picture", width |-> width, height |-> height, byte_count |-> n, left |-> left,
                     extension |-> extension, opens |-> opens]
      BY <2>1 DEF CaptureScreen, Call
    <3>2. QED
      BY <3>1, PicturesAssumption DEF CaptureInv
  <2>2. CASE UNCHANGED call
    BY <2>2 DEF CaptureInv
  <2>3. CASE OpenPages \/ MakeRectangle \/ CompareRectangles \/ MatchChoices
    BY <2>3 DEF OpenPages, MakeRectangle, CompareRectangles, MatchChoices, Call, CaptureInv
  <2>4. CASE PrintEnumerator \/ Compute
    BY <2>4 DEF PrintEnumerator, Compute, Call, CaptureInv
  <2>5. CASE PrintRange \/ CiteNames
    BY <2>5, CitationCalled DEF CaptureInv
  <2>6. QED
    BY <2>1, <2>2, <2>3, <2>4, <2>5 DEF Next, vars, Count, UseMenu
<1>3. CaptureInv => PictureUpright
  <2> SUFFICES ASSUME CaptureInv, call.of = "picture" PROVE PictureUpright
    BY DEF PictureUpright
  <2>1. PICK w \in Nat \ {0}, h \in Nat \ {0}, n \in Nat, left \in Nat :
          w = call.width /\ h = call.height /\ n = call.byte_count /\ left = call.left /\ n >= 3
    BY DEF CaptureInv
  <2> DEFINE plane == Screen!capture(w, h, n, Screen!DeviceBytes(w, h, n, left))
  <2>2. ASSUME NoPadding(w, n)
        PROVE  /\ Screen!UpperLineFirst(plane)
               /\ \A before \in {Screen!pix(Screen!Plane(0, 0, << >>)), Screen!pix(plane)} :
                    Screen!Upright(Screen!update(before, plane))
               /\ Screen!SavedAsShown(plane, call.extension, call.opens)
    <3>1. Shows(plane, w, h)
      BY <2>1, <2>2, CaptureShows
    <3> HIDE DEF plane
    <3>2. \A data : Screen!Upright(Screen!update(Screen!pix(data), plane))
      BY <3>1, SeenUpright
    <3>3. Screen!SavedAsShown(plane, call.extension, call.opens)
      BY <3>1, SavedShown DEF CaptureInv
    <3>4. Screen!UpperLineFirst(plane)
      <4>1. plane.width = w /\ plane.height = h
            /\ \A x, y \in Nat : x < w /\ y < h => plane.data[y * w + x] = Screen!PixelAt(x, y)
        BY <3>1 DEF Shows
      <4>2. \A x \in 0 .. w - 1 : x \in Nat /\ x < w
        OBVIOUS
      <4>3. \A y \in 0 .. h - 1 : y \in Nat /\ y < h
        OBVIOUS
      <4>4. QED
        BY <4>1, <4>2, <4>3, Zenon DEF Screen!UpperLineFirst
    <3>5. QED
      BY <3>2, <3>3, <3>4
  <2>3. QED
    BY <2>1, <2>2, Zenon DEF PictureUpright, NoPadding, Captured, RowsAreFull
<1>4. QED
  BY <1>1, <1>2, <1>3, PTL DEF Spec

-----------------------------------------------------------------------------
(* Rectangles.                                                               *)

(* What is made without a test is a value of the type. *)
LEMMA WrappedInType ==
  ASSUME NEW T \in Types, NEW n \in Int
  PROVE  Math!Wrapped(T, n) \in Math!ValuesOf(T)
<1>1. PICK l \in Int, m \in Int, p \in Nat \ {0} :
        l = Math!min(T) /\ m = Math!max(T) /\ p = 2 ^ T.bits /\ m - l + 1 = p
  <2>1. PICK l \in Int, m \in Int : l = Math!min(T) /\ m = Math!max(T) /\ m - l + 1 = 2 ^ T.bits /\ l <= 0 /\ 0 <= m
    BY LimitsAround
  <2>2. m - l + 1 \in Nat \ {0}
    BY <2>1
  <2>3. QED
    BY <2>1, <2>2
<1>2. PICK k \in Nat : k = (n - l) % p /\ k < p
  <2>1. (n - l) % p \in Nat /\ (n - l) % p < p
    BY <1>1
  <2>2. QED
    BY <2>1
<1>3. Math!Wrapped(T, n) = k + l
  BY <1>1, <1>2 DEF Math!Wrapped
<1>4. k + l \in l .. m
  BY <1>1, <1>2
<1>5. QED
  BY <1>1, <1>3, <1>4 DEF Math!ValuesOf

(* A result is what the product is in the type. *)
LEMMA ProductInType ==
  ASSUME NEW T \in Types, NEW m \in Math!ValuesOf(T), NEW n \in Math!ValuesOf(T), NEW k,
         Math!multiply(T, m, n) = Math!Expected(k)
  PROVE  k \in Math!ValuesOf(T) /\ k = Math!Wrapped(T, m * n)
<1>1. PICK p : p = m * n
  OBVIOUS
<1>2. m \in Int /\ n \in Int /\ p \in Int /\ 0 \in Math!ValuesOf(T)
  BY <1>1, LimitsAround
<1>3. Math!Wrapped(T, p) \in Math!ValuesOf(T)
  BY <1>2, WrappedInType
<1>4. \A over, under : Math!Guarded(T, over, under, p) = Math!Expected(k) => k = Math!Wrapped(T, p)
  <2> SUFFICES ASSUME NEW over, NEW under, Math!Guarded(T, over, under, p) = Math!Expected(k)
               PROVE  k = Math!Wrapped(T, p)
    OBVIOUS
  <2>1. Math!Guarded(T, over, under, p).error = "none" /\ Math!Guarded(T, over, under, p).value = k
    BY DEF Math!Expected
  <2>2. Math!Guarded(T, over, under, p) = Math!Expected(Math!Wrapped(T, p))
    BY <2>1 DEF Math!Guarded, Math!Unexpected
  <2>3. QED
    BY <1>3, <2>1, <2>2 DEF Math!Expected
<1>5. \A i : Math!Expected(i) = Math!Expected(k) => i = k
  BY DEF Math!Expected
<1>6. m = 0 \/ n = 0 => Math!Wrapped(T, p) = 0
  <2>1. m = 0 \/ n = 0 => p = 0
    BY <1>1, <1>2
  <2>2. QED
    BY <1>2, <2>1, NotWrapped
<1>7. CASE T.signed
  <2>1. Math!multiply(T, m, n) = Math!MultiplySigned(T, m, n)
    BY <1>7 DEF Math!multiply
  <2>2. \/ (m = 0 \/ n = 0) /\ Math!MultiplySigned(T, m, n) = Math!Expected(0)
        \/ Math!MultiplySigned(T, m, n) = Math!Expected(Math!Wrapped(T, p))
        \/ \E over, under : Math!MultiplySigned(T, m, n) = Math!Guarded(T, over, under, p)
    BY <1>1, Zenon DEF Math!MultiplySigned
  <2>3. k = Math!Wrapped(T, p)
    BY <1>4, <1>5, <1>6, <2>1, <2>2
  <2>4. QED
    BY <1>1, <1>3, <2>3
<1>8. CASE ~T.signed
  <2>1. Math!multiply(T, m, n) = Math!MultiplyUnsigned(T, m, n)
    BY <1>8 DEF Math!multiply
  <2>2. \/ (m = 0 \/ n = 0) /\ Math!MultiplyUnsigned(T, m, n) = Math!Expected(0)
        \/ \E over, under : Math!MultiplyUnsigned(T, m, n) = Math!Guarded(T, over, under, p)
    BY <1>1, Zenon DEF Math!MultiplyUnsigned
  <2>3. k = Math!Wrapped(T, p)
    BY <1>4, <1>5, <1>6, <2>1, <2>2
  <2>4. QED
    BY <1>1, <1>3, <2>3
<1>9. QED
  BY <1>7, <1>8

(* A product of no negative numbers is computed only if it fits. *)
LEMMA AreaComputed ==
  ASSUME NEW T \in Types, NEW m \in Math!ValuesOf(T), NEW n \in Math!ValuesOf(T), m >= 0, n >= 0,
         NEW p \in Nat, p = m * n
  PROVE  Math!multiply(T, m, n) = Math!Expected(p) <=> p <= Math!max(T)
<1>1. Math!max(T) \in Int /\ Math!min(T) \in Int /\ Math!min(T) <= 0 /\ m \in Int /\ n \in Int
  BY LimitsAround
<1>2. ASSUME p <= Math!max(T) PROVE Math!multiply(T, m, n) = Math!Expected(p)
  <2>1. ~Math!NextToLimit(T, "multiply", m, n) /\ ~Math!IncrementWraps(T, "multiply", m, n)
    <3>1. ~(p > Math!max(T)) /\ ~(p < 0)
      BY <1>1, <1>2
    <3>2. QED
      BY <3>1 DEF Math!NextToLimit, Math!IncrementWraps
  <2>2. Fits(T, p, Math!multiply(T, m, n))
    <3>1. T.signed \in BOOLEAN
      BY TypesAssumption
    <3>2. Fits(T, m * n, Math!multiply(T, m, n))
      BY <2>1, <3>1, SignedFits, UnsignedFits
    <3>3. QED
      BY <3>2
  <2>3. p \in Math!ValuesOf(T)
    BY <1>1, <1>2, LimitsAround
  <2>4. QED
    BY <2>2, <2>3 DEF Fits
<1>3. ASSUME Math!multiply(T, m, n) = Math!Expected(p) PROVE p <= Math!max(T)
  <2>1. p \in Math!ValuesOf(T)
    BY <1>3, ProductInType
  <2>2. QED
    BY <2>1, LimitsAround
<1>4. QED
  BY <1>2, <1>3

(* The value behind the last one. *)
LEMMA Behind ==
  ASSUME NEW T \in Types, NEW m \in Math!ValuesOf(T)
  PROVE  /\ Math!has_value(Math!add(T, m, 1)) <=> m < Math!max(T)
         /\ m < Math!max(T) => Math!add(T, m, 1).value = m + 1
<1>1. PICK l \in Int, h \in Int : l = Math!min(T) /\ h = Math!max(T) /\ m \in Int /\ l <= m /\ m <= h
  BY LimitsAround
<1>2. Math!add(T, m, 1) = Math!Guarded(T, 1 > 0 /\ m > h - 1, 1 < 0 /\ m < l - 1, m + 1)
  BY <1>1 DEF Math!add
<1>3. (1 > 0 /\ m > h - 1 <=> ~(m < h)) /\ ~(1 < 0 /\ m < l - 1)
  BY <1>1
<1>4. m < h => Math!Wrapped(T, m + 1) = m + 1
  <2> SUFFICES ASSUME m < h PROVE Math!Wrapped(T, m + 1) = m + 1
    OBVIOUS
  <2>1. m + 1 \in Int /\ l <= m + 1 /\ m + 1 <= h
    BY <1>1
  <2>2. m + 1 \in Math!ValuesOf(T)
    BY <1>1, <2>1, LimitsAround
  <2>3. QED
    BY <2>2, NotWrapped
<1>5. QED
  BY <1>1, <1>2, <1>3, <1>4 DEF Math!Guarded, Math!has_value, Math!Unexpected, Math!Expected

\* The range from m to the value before n.
RangeOf(m, n) == [begin |-> m, end |-> n]

LEMMA Ranged ==
  ASSUME NEW T \in Types, NEW m \in Math!ValuesOf(T), NEW n \in Math!ValuesOf(T), m <= n
  PROVE  /\ m < Math!max(T) /\ n - m <= Math!max(T) => Math!value_range(T, m, n) = RangeOf(m, n)
         /\ ~(m < Math!max(T)) => Math!value_range(T, m, n) = Math!Thrown
         /\ Math!value_range(T, m, n) \in {RangeOf(m, n), Math!Thrown}
<1>1. PICK l \in Int, h \in Int : l = Math!min(T) /\ h = Math!max(T) /\ l <= 0 /\ 0 <= h
                                  /\ m \in Int /\ l <= m /\ m <= h /\ n \in Int /\ l <= n /\ n <= h
  BY LimitsAround
<1>2. Math!Smallest(m, n) = m /\ Math!Largest(m, n) = n
  BY <1>1 DEF Math!Smallest, Math!Largest
<1>3. Math!value_range(T, m, n) =
        IF Math!has_value(Math!subtract(T, n, m)) /\ Math!has_value(Math!add(T, m, 1)) THEN RangeOf(m, n) ELSE Math!Thrown
  BY <1>2 DEF Math!value_range, RangeOf
<1>4. Math!has_value(Math!add(T, m, 1)) <=> m < h
  BY <1>1, Behind
<1>5. ASSUME n - m <= h PROVE Math!has_value(Math!subtract(T, n, m))
  <2>1. n - m \in Math!ValuesOf(T)
    BY <1>1, <1>5, LimitsAround
  <2>2. Fits(T, n - m, Math!subtract(T, n, m))
    BY AddFits
  <2>3. QED
    BY <2>1, <2>2 DEF Fits, Math!has_value, Math!Expected
<1>6. QED
  BY <1>1, <1>3, <1>4, <1>5

\* The rectangle from a to the value before b, and from c to the one before d.
RectOf(a, b, c, d) == [x |-> RangeOf(a, b), y |-> RangeOf(c, d)]

(* The parts of what is made, none of which is what a constructor that throws returns. *)
LEMMA Parts ==
  ASSUME NEW a, NEW b, NEW c, NEW d
  PROVE  /\ RangeOf(a, b).begin = a /\ RangeOf(a, b).end = b /\ RangeOf(a, b) # Math!Thrown
         /\ RectOf(a, b, c, d).x = RangeOf(a, b) /\ RectOf(a, b, c, d).y = RangeOf(c, d)
         /\ RectOf(a, b, c, d) # Math!Thrown /\ Math!Made(RectOf(a, b, c, d))
<1>1. "begin" \in DOMAIN RangeOf(a, b) /\ "x" \in DOMAIN RectOf(a, b, c, d)
  BY DEF RangeOf, RectOf
<1>2. "begin" \notin DOMAIN Math!Thrown /\ "x" \notin DOMAIN Math!Thrown /\ "x" \notin DOMAIN Math!Undefined
  BY DEF Math!Thrown, Math!Undefined
<1>3. RangeOf(a, b).begin = a /\ RangeOf(a, b).end = b
  BY DEF RangeOf
<1>4. RectOf(a, b, c, d).x = RangeOf(a, b) /\ RectOf(a, b, c, d).y = RangeOf(c, d)
  BY DEF RectOf
<1>5. QED
  BY <1>1, <1>2, <1>3, <1>4 DEF Math!Made

\* What fits into the type.
Fitting(T, x, y, p) == x < Math!max(T) /\ y < Math!max(T) /\ p <= Math!max(T)

(* There is a rectangle if there is a range on each axis. *)
LEMMA SidesOf ==
  ASSUME NEW along
  PROVE  Math!Sides(along) = IF along["x"] = Math!Thrown \/ along["y"] = Math!Thrown THEN Math!Thrown ELSE along
<1>1. (\E axis \in Math!Axes : Math!Throws(along[axis])) <=> along["x"] = Math!Thrown \/ along["y"] = Math!Thrown
  BY DEF Math!Axes, Math!Throws
<1>2. QED
  BY <1>1 DEF Math!Sides

(* With ends that fit, a rectangle is made as it was asked for if all of it fits, and *)
(* otherwise not at all.                                                             *)
LEMMA RectMade ==
  ASSUME NEW T \in Types, NEW x \in Math!ValuesOf(T), NEW y \in Math!ValuesOf(T),
         NEW w \in Math!ValuesOf(T), NEW h \in Math!ValuesOf(T), w >= 0, h >= 0,
         x + w \in Math!ValuesOf(T), y + h \in Math!ValuesOf(T),
         NEW p \in Nat, p = w * h, NEW from, from["x"] = x, from["y"] = y
  PROVE  /\ Fitting(T, x, y, p) => Math!rect(T, from, w, h) = RectOf(x, x + w, y, y + h)
         /\ ~Fitting(T, x, y, p) => ~Math!Made(Math!rect(T, from, w, h))
<1>1. x \in Int /\ y \in Int /\ w \in Int /\ h \in Int /\ Math!max(T) \in Int /\ w <= Math!max(T) /\ h <= Math!max(T)
  BY LimitsAround
<1>2. ASSUME NEW m \in Math!ValuesOf(T), NEW n \in Math!ValuesOf(T), m + n \in Math!ValuesOf(T)
      PROVE  Math!value_or(Math!add(T, m, n), 0) = m + n
  <2>1. Fits(T, m + n, Math!add(T, m, n))
    BY AddFits
  <2>2. QED
    BY <1>2, <2>1 DEF Fits, Math!value_or, Math!has_value, Math!Expected
<1>3. PICK m, n : m = Math!value_range(T, x, x + w) /\ n = Math!value_range(T, y, y + h)
  OBVIOUS
<1>4. PICK r : r = Math!Sides([x |-> m, y |-> n])
  OBVIOUS
<1>5. Math!rect(T, from, w, h) =
        IF Math!Throws(r) THEN Math!Thrown
        ELSE IF Math!multiply(T, w, h) = Math!Expected(Math!size(r.x) * Math!size(r.y)) THEN r ELSE Math!Undefined
  <2>1. /\ Math!value_range(T, Math!axis_value(from, "x"), Math!value_or(Math!add(T, Math!axis_value(from, "x"), w), 0)) = m
        /\ Math!value_range(T, Math!axis_value(from, "y"), Math!value_or(Math!add(T, Math!axis_value(from, "y"), h), 0)) = n
    BY <1>2, <1>3 DEF Math!axis_value
  <2>2. QED
    BY <1>4, <2>1, Zenon DEF Math!rect
<1>6. /\ x < Math!max(T) => m = RangeOf(x, x + w)
      /\ ~(x < Math!max(T)) => m = Math!Thrown
      /\ y < Math!max(T) => n = RangeOf(y, y + h)
      /\ ~(y < Math!max(T)) => n = Math!Thrown
  <2>1. x <= x + w /\ (x + w) - x = w /\ y <= y + h /\ (y + h) - y = h
    BY <1>1
  <2>2. QED
    BY <1>1, <1>3, <2>1, Ranged
<1>7. CASE ~(x < Math!max(T)) \/ ~(y < Math!max(T))
  <2>1. r = Math!Thrown
    <3>1. PICK along : along = [x |-> m, y |-> n]
      OBVIOUS
    <3>2. along["x"] = m /\ along["y"] = n
      BY <3>1
    <3>3. QED
      BY <1>4, <1>6, <1>7, <3>1, <3>2, SidesOf
  <2>2. Math!rect(T, from, w, h) = Math!Thrown
    BY <1>5, <2>1 DEF Math!Throws
  <2>3. ~Fitting(T, x, y, p) /\ ~Math!Made(Math!rect(T, from, w, h))
    BY <1>7, <2>2 DEF Fitting, Math!Made
  <2>4. QED
    BY <2>3
<1>8. CASE x < Math!max(T) /\ y < Math!max(T)
  <2>1. r = RectOf(x, x + w, y, y + h)
    <3>1. m # Math!Thrown /\ n # Math!Thrown
      <4>1. m = RangeOf(x, x + w) /\ n = RangeOf(y, y + h)
        BY <1>6, <1>8
      <4>2. RangeOf(x, x + w) # Math!Thrown /\ RangeOf(y, y + h) # Math!Thrown
        BY Parts, ZenonT(40)
      <4>3. QED
        BY <4>1, <4>2, Zenon
    <3>2. PICK along : along = [x |-> m, y |-> n]
      OBVIOUS
    <3>3. along["x"] = m /\ along["y"] = n
      BY <3>2
    <3>4. r = along
      BY <1>4, <3>1, <3>2, <3>3, SidesOf
    <3>5. QED
      BY <1>6, <1>8, <3>2, <3>4 DEF RectOf
  <2>2. Math!size(r.x) = w /\ Math!size(r.y) = h
    <3>1. /\ r.x.begin = x /\ r.x.end = x + w /\ r.y.begin = y /\ r.y.end = y + h
      BY <2>1, Parts
    <3>2. (x + w) - x = w /\ (y + h) - y = h
      BY <1>1
    <3>3. QED
      BY <3>1, <3>2 DEF Math!size
  <2>3. r # Math!Thrown
    BY <2>1, Parts
  <2>4. Math!multiply(T, w, h) = Math!Expected(p) <=> p <= Math!max(T)
    BY AreaComputed
  <2>5. QED
    BY <1>5, <1>8, <2>1, <2>2, <2>3, <2>4 DEF Fitting, Math!Throws, Math!Made
<1>9. QED
  BY <1>7, <1>8

(* Whatever was asked for: what is made lies between the point and the two ends, and has *)
(* the area that multiply() computes.                                                    *)
LEMMA RectSides ==
  ASSUME NEW T \in Types, NEW x \in Math!ValuesOf(T), NEW y \in Math!ValuesOf(T),
         NEW w \in Math!ValuesOf(T), NEW h \in Math!ValuesOf(T),
         NEW from, from["x"] = x, from["y"] = y, Math!Made(Math!rect(T, from, w, h))
  PROVE  \E a, b, c, d \in Math!ValuesOf(T) :
           /\ Math!rect(T, from, w, h) = RectOf(a, b, c, d) /\ a <= b /\ c <= d
           /\ Math!Between(RangeOf(a, b), x, Math!EndOf(T, x, w))
           /\ Math!Between(RangeOf(c, d), y, Math!EndOf(T, y, h))
           /\ Math!multiply(T, w, h) = Math!Expected((b - a) * (d - c))
<1>1. ASSUME NEW m \in Math!ValuesOf(T), NEW n \in Math!ValuesOf(T)
      PROVE  /\ Math!EndOf(T, m, n) \in Math!ValuesOf(T)
             /\ Math!value_or(Math!add(T, m, n), 0) = Math!EndOf(T, m, n)
  <2>1. Fits(T, m + n, Math!add(T, m, n)) /\ 0 \in Math!ValuesOf(T)
    BY AddFits, LimitsAround
  <2>2. m + n > Math!max(T) \/ m + n < Math!min(T) \/ m + n \in Math!ValuesOf(T)
    BY LimitsAround
  <2>3. QED
    BY <2>1, <2>2 DEF Fits, Math!value_or, Math!has_value, Math!Expected, Math!Unexpected, Math!EndOf
<1>2. ASSUME NEW m \in Math!ValuesOf(T), NEW n \in Math!ValuesOf(T), Math!value_range(T, m, n) # Math!Thrown
      PROVE  \E a, b \in Math!ValuesOf(T) :
               /\ Math!value_range(T, m, n) = RangeOf(a, b) /\ a <= b
               /\ Math!Between(RangeOf(a, b), m, n)
  <2>1. m \in Int /\ n \in Int
    BY LimitsAround
  <2>2. PICK a \in Math!ValuesOf(T), b \in Math!ValuesOf(T) :
          a = Math!Smallest(m, n) /\ b = Math!Largest(m, n) /\ a <= b
    BY <2>1 DEF Math!Smallest, Math!Largest
  <2>3. Math!value_range(T, m, n) = RangeOf(a, b)
    BY <1>2, <2>2 DEF Math!value_range, RangeOf
  <2>4. Math!Between(RangeOf(a, b), m, n)
    BY <2>2, Parts DEF Math!Between
  <2>5. QED
    BY <2>2, <2>3, <2>4
<1>3. PICK m, n : /\ m = Math!value_range(T, x, Math!EndOf(T, x, w))
                  /\ n = Math!value_range(T, y, Math!EndOf(T, y, h))
  OBVIOUS
<1>4. PICK r, along : along = [x |-> m, y |-> n] /\ r = Math!Sides([x |-> m, y |-> n])
  OBVIOUS
<1>5. Math!rect(T, from, w, h) =
        IF Math!Throws(r) THEN Math!Thrown
        ELSE IF Math!multiply(T, w, h) = Math!Expected(Math!size(r.x) * Math!size(r.y)) THEN r ELSE Math!Undefined
  <2>1. /\ Math!value_range(T, Math!axis_value(from, "x"), Math!value_or(Math!add(T, Math!axis_value(from, "x"), w), 0)) = m
        /\ Math!value_range(T, Math!axis_value(from, "y"), Math!value_or(Math!add(T, Math!axis_value(from, "y"), h), 0)) = n
    BY <1>1, <1>3 DEF Math!axis_value
  <2>2. QED
    BY <1>4, <2>1, Zenon DEF Math!rect
<1>6. /\ Math!rect(T, from, w, h) = r /\ r # Math!Thrown
      /\ Math!multiply(T, w, h) = Math!Expected(Math!size(r.x) * Math!size(r.y))
  BY <1>5 DEF Math!Made, Math!Throws
<1>7. m # Math!Thrown /\ n # Math!Thrown /\ r = along
  <2>1. along["x"] = m /\ along["y"] = n
    BY <1>4
  <2>2. QED
    BY <1>4, <1>6, <2>1, SidesOf
<1>8. PICK a \in Math!ValuesOf(T), b \in Math!ValuesOf(T) :
        m = RangeOf(a, b) /\ a <= b /\ Math!Between(RangeOf(a, b), x, Math!EndOf(T, x, w))
  BY <1>1, <1>2, <1>3, <1>7
<1>9. PICK c \in Math!ValuesOf(T), d \in Math!ValuesOf(T) :
        n = RangeOf(c, d) /\ c <= d /\ Math!Between(RangeOf(c, d), y, Math!EndOf(T, y, h))
  BY <1>1, <1>2, <1>3, <1>7
<1>10. r = RectOf(a, b, c, d)
  BY <1>4, <1>7, <1>8, <1>9 DEF RectOf
<1>11. Math!size(r.x) = b - a /\ Math!size(r.y) = d - c
  BY <1>10, Parts DEF Math!size
<1>12. QED
  BY <1>6, <1>8, <1>9, <1>10, <1>11

(* The points of a rectangle, and their number. *)
LEMMA PointsOf ==
  ASSUME NEW a \in Int, NEW b \in Int, NEW c \in Int, NEW d \in Int, NEW p
  PROVE  p \in Math!Points(RectOf(a, b, c, d)) <=>
           \E x, y \in Int : p = Math!Point(x, y) /\ a <= x /\ x < b /\ c <= y /\ y < d
<1>1. Math!Points(RectOf(a, b, c, d)) = {Math!Point(x, y) : x \in a .. b - 1, y \in c .. d - 1}
  BY Parts DEF Math!Points
<1>2. \A x : x \in a .. b - 1 <=> x \in Int /\ a <= x /\ x < b
  OBVIOUS
<1>3. \A y : y \in c .. d - 1 <=> y \in Int /\ c <= y /\ y < d
  OBVIOUS
<1>4. QED
  BY <1>1, <1>2, <1>3

(* There are as many points as width times height. *)
LEMMA NumberOfPoints ==
  ASSUME NEW a \in Int, NEW b \in Int, NEW c \in Int, NEW d \in Int, a <= b, c <= d
  PROVE  Cardinality(Math!Points(RectOf(a, b, c, d))) = (b - a) * (d - c)
<1> DEFINE S == a .. b - 1
           T == c .. d - 1
           P == Math!Points(RectOf(a, b, c, d))
           f == [q \in S \X T |-> Math!Point(q[1], q[2])]
<1>1. P = {Math!Point(x, y) : x \in S, y \in T}
  BY Parts DEF Math!Points
<1>2. IsFiniteSet(S) /\ Cardinality(S) = b - a /\ IsFiniteSet(T) /\ Cardinality(T) = d - c
  <2>1. IsFiniteSet(S) /\ Cardinality(S) = IF a > b - 1 THEN 0 ELSE (b - 1) - a + 1
    BY FS_Interval
  <2>2. IsFiniteSet(T) /\ Cardinality(T) = IF c > d - 1 THEN 0 ELSE (d - 1) - c + 1
    BY FS_Interval
  <2>3. QED
    BY <2>1, <2>2
<1> HIDE DEF S, T, P
<1>3. f \in [S \X T -> P]
  BY <1>1
<1>4. \A q, r \in S \X T : f[q] = f[r] => q = r
  BY DEF Math!Point
<1>5. \A p \in P : \E q \in S \X T : f[q] = p
  <2> SUFFICES ASSUME NEW p \in P PROVE \E q \in S \X T : f[q] = p
    OBVIOUS
  <2>1. PICK x \in S, y \in T : p = Math!Point(x, y)
    BY <1>1
  <2>2. <<x, y>> \in S \X T /\ f[<<x, y>>] = p
    BY <2>1
  <2>3. QED
    BY <2>2
<1> HIDE DEF f
<1>6. ExistsBijection(S \X T, P)
  BY <1>3, <1>4, <1>5 DEF ExistsBijection, Bijection, Injection, Surjection, IsInjective
<1>7. QED
  <2>1. IsFiniteSet(S \X T) /\ Cardinality(S \X T) = Cardinality(S) * Cardinality(T)
    BY <1>2, FS_Product
  <2>2. Cardinality(P) = Cardinality(S \X T)
    BY <1>6, <2>1, FS_Bijection
  <2>3. QED
    BY <1>2, <2>1, <2>2 DEF P

(* A point is contained if it is on each axis. *)
LEMMA ContainsPoint ==
  ASSUME NEW a \in Int, NEW b \in Int, NEW c \in Int, NEW d \in Int,
         NEW r, r["x"] = RangeOf(a, b), r["y"] = RangeOf(c, d),
         NEW p, p["x"] \in Int, p["y"] \in Int
  PROVE  Math!contains_point(r, p) <=> a <= p["x"] /\ p["x"] < b /\ c <= p["y"] /\ p["y"] < d
<1>1. PICK x \in Int, y \in Int : x = p["x"] /\ y = p["y"]
  OBVIOUS
<1>2. Math!contains_point(r, p) <=> Math!within(RangeOf(a, b), x) /\ Math!within(RangeOf(c, d), y)
  BY <1>1 DEF Math!contains_point, Math!axis_value, Math!Axes
<1>3. \A m, n, v \in Int : Math!within(RangeOf(m, n), v) <=> m <= v /\ v < n
  <2> SUFFICES ASSUME NEW m \in Int, NEW n \in Int, NEW v \in Int
               PROVE  Math!within(RangeOf(m, n), v) <=> m <= v /\ v < n
    OBVIOUS
  <2>1. Math!within(RangeOf(m, n), v) <=> m # n /\ m <= v /\ v < n
    BY Parts DEF Math!within, Math!empty
  <2>2. m <= v /\ v < n => m # n
    OBVIOUS
  <2>3. QED
    BY <2>1, <2>2
<1>4. QED
  BY <1>1, <1>2, <1>3

(* The coordinates of a point. *)
LEMMA PointParts ==
  ASSUME NEW x, NEW y
  PROVE  Math!Point(x, y)["x"] = x /\ Math!Point(x, y)["y"] = y
BY DEF Math!Point

(* Points differ if their coordinates do. *)
LEMMA SamePoint ==
  ASSUME NEW x, NEW y, NEW m, NEW n, Math!Point(x, y) = Math!Point(m, n)
  PROVE  x = m /\ y = n
<1>1. PICK p : p = Math!Point(x, y)
  OBVIOUS
<1>2. p["x"] = x /\ p["y"] = y /\ p["x"] = m /\ p["y"] = n
  BY <1>1, PointParts
<1>3. QED
  BY <1>2

(* The middle of a range. *)
LEMMA Halved ==
  ASSUME NEW a \in Int, NEW b \in Int, a <= b
  PROVE  /\ a + (b - a) \div 2 \in Int
         /\ a < b => a <= a + (b - a) \div 2 /\ a + (b - a) \div 2 < b
         /\ \A v \in Int : a <= v /\ v < b =>
              /\ 2 * ((a + (b - a) \div 2) - v) <= b - a
              /\ 2 * (v - (a + (b - a) \div 2)) <= b - a
<1>1. PICK n \in Nat, k \in Nat, r \in Nat : n = b - a /\ k = n \div 2 /\ n = 2 * k + r /\ r < 2
  <2>1. PICK n \in Nat : n = b - a
    <3>1. b - a \in Nat
      OBVIOUS
    <3>2. QED
      BY <3>1
  <2>2. n \div 2 \in Nat /\ n % 2 \in Nat /\ n = 2 * (n \div 2) + (n % 2) /\ n % 2 < 2
    OBVIOUS
  <2>3. QED
    BY <2>1, <2>2
<1>2. b = a + 2 * k + r /\ a + (b - a) \div 2 = a + k
  BY <1>1
<1>3. QED
  BY <1>1, <1>2

(* The points are counted as any set is. *)
LEMMA CountedAlike == ASSUME NEW S PROVE Math!Cardinality(S) = Cardinality(S)
BY DEF Cardinality, Math!Cardinality

(* The constructor. *)
LEMMA RectangleMade ==
  ASSUME NEW T \in Types, NEW x \in Math!ValuesOf(T), NEW y \in Math!ValuesOf(T),
         NEW w \in Math!ValuesOf(T), NEW h \in Math!ValuesOf(T)
  PROVE  Math!MadeAsAsked(T, x, y, w, h)
<1> DEFINE r == Math!rect(T, Math!Point(x, y), w, h)
<1>1. /\ x \in Int /\ y \in Int /\ w \in Int /\ h \in Int /\ Math!max(T) \in Int
      /\ x <= Math!max(T) /\ y <= Math!max(T)
  BY LimitsAround
<1>2. ASSUME Math!Made(r)
      PROVE  /\ Math!Between(r.x, x, Math!EndOf(T, x, w)) /\ Math!Between(r.y, y, Math!EndOf(T, y, h))
             /\ Math!Cardinality(Math!Points(r)) = Math!Wrapped(T, w * h)
             /\ Math!area(T, r) = Math!Cardinality(Math!Points(r))
             /\ Math!Points(r) # {} => Math!contains_point(r, Math!center(r))
  <2>1. PICK a \in Math!ValuesOf(T), b \in Math!ValuesOf(T), c \in Math!ValuesOf(T), d \in Math!ValuesOf(T) :
          /\ r = RectOf(a, b, c, d) /\ a <= b /\ c <= d
          /\ Math!Between(RangeOf(a, b), x, Math!EndOf(T, x, w))
          /\ Math!Between(RangeOf(c, d), y, Math!EndOf(T, y, h))
          /\ Math!multiply(T, w, h) = Math!Expected((b - a) * (d - c))
    BY <1>2, RectSides, PointParts
  <2> HIDE DEF r
  <2>2. a \in Int /\ b \in Int /\ c \in Int /\ d \in Int
    BY LimitsAround
  <2>3. /\ r.x = RangeOf(a, b) /\ r.y = RangeOf(c, d) /\ r["x"] = RangeOf(a, b) /\ r["y"] = RangeOf(c, d)
        /\ r.x.begin = a /\ r.x.end = b /\ r.y.begin = c /\ r.y.end = d
    BY <2>1, Parts
  <2>4. PICK p \in Nat : p = (b - a) * (d - c) /\ p = (d - c) * (b - a)
    <3>1. b - a \in Nat /\ d - c \in Nat
      BY <2>1, <2>2
    <3>2. (b - a) * (d - c) \in Nat /\ (b - a) * (d - c) = (d - c) * (b - a)
      BY <3>1
    <3>3. QED
      BY <3>2
  <2>5. p \in Math!ValuesOf(T) /\ p = Math!Wrapped(T, w * h)
    BY <2>1, <2>4, ProductInType
  <2>6. Math!horizontal_range(r) = b - a /\ Math!vertical_range(r) = d - c
    BY <2>3 DEF Math!horizontal_range, Math!vertical_range, Math!size
  <2>7. Math!area(T, r) = p
    <3>1. Math!area(T, r) = Math!Wrapped(T, p)
      BY <2>4, <2>6 DEF Math!area
    <3>2. QED
      BY <2>5, <3>1, NotWrapped
  <2>8. Math!Cardinality(Math!Points(r)) = p
    BY CountedAlike, <2>1, <2>2, <2>4, NumberOfPoints
  <2>9. ASSUME Math!Points(r) # {} PROVE Math!contains_point(r, Math!center(r))
    <3>1. a < b /\ c < d
      <4>1. PICK q : q \in Math!Points(r)
        BY <2>9
      <4>2. PICK m \in Int, n \in Int : a <= m /\ m < b /\ c <= n /\ n < d
        BY <2>1, <2>2, <4>1, PointsOf
      <4>3. QED
        BY <2>2, <4>2
    <3>2. PICK m \in Int, n \in Int : /\ m = a + (b - a) \div 2 /\ a <= m /\ m < b
                                     /\ n = c + (d - c) \div 2 /\ c <= n /\ n < d
      BY <2>2, <3>1, Halved
    <3>3. Math!center(r) = Math!Point(m, n)
      BY <2>3, <2>6, <3>2 DEF Math!center
    <3>4. QED
      BY <2>2, <2>3, <3>2, <3>3, PointParts, ContainsPoint
  <2>10. QED
    BY <2>1, <2>3, <2>5, <2>7, <2>8, <2>9
<1>3. ASSUME w >= 0, h >= 0, x + w \in Math!ValuesOf(T), y + h \in Math!ValuesOf(T)
      PROVE  Math!Made(r) <=> x < Math!max(T) /\ y < Math!max(T) /\ w * h <= Math!max(T)
  <2>1. PICK p \in Nat : p = w * h
    <3>1. w \in Nat /\ h \in Nat
      BY <1>1, <1>3
    <3>2. w * h \in Nat
      BY <3>1
    <3>3. QED
      BY <3>2
  <2>2. /\ Fitting(T, x, y, p) => r = RectOf(x, x + w, y, y + h)
        /\ ~Fitting(T, x, y, p) => ~Math!Made(r)
    BY <1>3, <2>1, RectMade, PointParts
  <2>3. Math!Made(r) <=> Fitting(T, x, y, p)
    BY <2>2, Parts
  <2>4. QED
    BY <2>1, <2>3 DEF Fitting
<1>4. Math!MadeAsAsked(T, x, y, w, h) <=>
        /\ Math!Made(r) =>
             /\ Math!Between(r.x, x, Math!EndOf(T, x, w)) /\ Math!Between(r.y, y, Math!EndOf(T, y, h))
             /\ Math!Cardinality(Math!Points(r)) = Math!Wrapped(T, w * h)
             /\ Math!area(T, r) = Math!Cardinality(Math!Points(r))
             /\ Math!Points(r) # {} => Math!contains_point(r, Math!center(r))
        /\ w >= 0 /\ h >= 0 /\ x + w \in Math!ValuesOf(T) /\ y + h \in Math!ValuesOf(T)
             => (Math!Made(r) <=> x < Math!max(T) /\ y < Math!max(T) /\ w * h <= Math!max(T))
  BY DEF Math!MadeAsAsked
<1>5. QED
  BY <1>2, <1>3, <1>4, Zenon

(* The window: its last column and row are inside. *)
LEMMA WindowMade ==
  ASSUME NEW T \in Types, NEW left \in Math!ValuesOf(T), NEW top \in Math!ValuesOf(T),
         NEW right \in Math!ValuesOf(T), NEW bottom \in Math!ValuesOf(T)
  PROVE  Math!WindowInside(T, left, top, right, bottom)
<1> DEFINE r == Math!window_at(T, left, top, right, bottom)
           first == Math!Point(left, bottom)
           second == Math!Point(right, top)
           last(axis) == Math!Largest(Math!axis_value(first, axis), Math!axis_value(second, axis))
           begin(axis) == Math!Smallest(Math!axis_value(first, axis), Math!axis_value(second, axis))
           along == [axis \in Math!Axes |-> Math!value_range(T, begin(axis), Math!add(T, last(axis), 1).value)]
<1>1. left \in Int /\ top \in Int /\ right \in Int /\ bottom \in Int
  BY LimitsAround
<1> SUFFICES ASSUME r # Math!Thrown, right > left, bottom > top
             PROVE  \A x \in left .. right - 1, y \in top .. bottom - 1 : Math!contains_point(r, Math!Point(x, y))
  BY Zenon DEF Math!WindowInside, Math!Throws
<1>2. last("x") = right /\ last("y") = bottom /\ begin("x") = left /\ begin("y") = top
  BY <1>1, PointParts DEF Math!axis_value, Math!Largest, Math!Smallest
<1>3. r = IF \E axis \in Math!Axes : ~Math!has_value(Math!add(T, last(axis), 1)) THEN Math!Thrown
          ELSE Math!Sides(along)
  BY DEF Math!window_at, Math!rect_between
<1>4. along["x"] = Math!value_range(T, left, Math!add(T, right, 1).value)
      /\ along["y"] = Math!value_range(T, top, Math!add(T, bottom, 1).value)
  <2>1. "x" \in Math!Axes /\ "y" \in Math!Axes
    BY DEF Math!Axes
  <2> HIDE DEF last, begin
  <2>2. QED
    BY <1>2, <2>1
<1>5. Math!has_value(Math!add(T, right, 1)) /\ Math!has_value(Math!add(T, bottom, 1)) /\ r = Math!Sides(along)
  <2> HIDE DEF last, along, r
  <2>1. \A axis \in Math!Axes : Math!has_value(Math!add(T, last(axis), 1))
    BY <1>3
  <2>2. Math!has_value(Math!add(T, last("x"), 1)) /\ Math!has_value(Math!add(T, last("y"), 1))
    BY <2>1 DEF Math!Axes
  <2>3. QED
    BY <1>2, <1>3, <2>1, <2>2
<1> HIDE DEF r, first, second, last, begin, along
<1>6. r = along /\ along["x"] # Math!Thrown /\ along["y"] # Math!Thrown
  BY <1>5, SidesOf
<1>7. PICK m \in Math!ValuesOf(T), n \in Math!ValuesOf(T) :
        /\ m = right + 1 /\ n = bottom + 1 /\ m = Math!add(T, right, 1).value /\ n = Math!add(T, bottom, 1).value
  <2>1. /\ right < Math!max(T) /\ Math!add(T, right, 1).value = right + 1
        /\ bottom < Math!max(T) /\ Math!add(T, bottom, 1).value = bottom + 1
    BY <1>5, Behind
  <2>2. right + 1 \in Math!ValuesOf(T) /\ bottom + 1 \in Math!ValuesOf(T)
    BY <2>1, LimitsAround
  <2>3. QED
    BY <2>1, <2>2
<1>8. r["x"] = RangeOf(left, m) /\ r["y"] = RangeOf(top, n)
  <2>1. left <= m /\ top <= n
    BY <1>1, <1>7
  <2>2. /\ Math!value_range(T, left, m) \in {RangeOf(left, m), Math!Thrown}
        /\ Math!value_range(T, top, n) \in {RangeOf(top, n), Math!Thrown}
    BY <2>1, Ranged
  <2>3. QED
    BY <1>4, <1>6, <1>7, <2>2
<1>9. ASSUME NEW x \in left .. right - 1, NEW y \in top .. bottom - 1
      PROVE  Math!contains_point(r, Math!Point(x, y))
  <2>1. m \in Int /\ n \in Int /\ x \in Int /\ y \in Int /\ left <= x /\ x < m /\ top <= y /\ y < n
    BY <1>1, <1>7
  <2>2. QED
    BY <1>1, <1>8, <2>1, PointParts, ContainsPoint
<1>10. QED
  BY <1>9

\* The sides of a rectangle on the screen.
OnScreen(a, b, c, d) ==
  a \in Coordinates /\ b \in Coordinates /\ c \in Coordinates /\ d \in Coordinates /\ a <= b /\ c <= d

(* On the screen all fits. *)
LEMMA ScreenFits ==
  ASSUME NEW a \in Coordinates, NEW b \in Coordinates
  PROVE  /\ a \in Int /\ b \in Int /\ Math!max(RectType) \in Int
         /\ a \in Math!ValuesOf(RectType) /\ a < Math!max(RectType)
         /\ a - b \in Math!ValuesOf(RectType) /\ a - b < Math!max(RectType)
         /\ \A c, d \in Coordinates : (a - b) * (c - d) <= Math!max(RectType)
<1>1. PICK h \in Nat \ {0} : Math!min(RectType) = -h /\ Math!max(RectType) = h - 1
  BY CoordinatesAssumption, Limits
<1>2. /\ a \in Math!ValuesOf(RectType) /\ b \in Math!ValuesOf(RectType) /\ a < Math!max(RectType)
      /\ a - b < Math!max(RectType) /\ b - a < Math!max(RectType)
      /\ \A c, d \in Coordinates : (a - b) * (c - d) <= Math!max(RectType)
  BY CoordinatesAssumption
<1>3. a \in Int /\ b \in Int
  BY <1>2, CoordinatesAssumption, LimitsAround
<1>4. -h <= a - b /\ a - b <= h - 1
  BY <1>1, <1>2, <1>3
<1>5. a - b \in Math!ValuesOf(RectType)
  BY <1>1, <1>3, <1>4, CoordinatesAssumption, LimitsAround
<1>6. QED
  BY <1>1, <1>2, <1>3, <1>5

(* What two ranges have in common. *)
LEMMA Common ==
  ASSUME NEW a \in Coordinates, NEW b \in Coordinates, a <= b,
         NEW e \in Coordinates, NEW f \in Coordinates, e <= f
  PROVE  /\ Math!overlaps(RangeOf(a, b), RangeOf(e, f)) =>
              \E m, n \in Coordinates :
                /\ m < n /\ Math!common(RectType, RangeOf(a, b), RangeOf(e, f)) = RangeOf(m, n)
                /\ \A v \in Int : m <= v /\ v < n <=> a <= v /\ v < b /\ e <= v /\ v < f
         /\ ~Math!overlaps(RangeOf(a, b), RangeOf(e, f)) =>
              \A v \in Int : ~(a <= v /\ v < b /\ e <= v /\ v < f)
<1>1. a \in Int /\ b \in Int /\ e \in Int /\ f \in Int
  BY ScreenFits
<1>2. Math!overlaps(RangeOf(a, b), RangeOf(e, f)) <=> a # b /\ e # f /\ b > e /\ f > a
  BY Parts DEF Math!overlaps, Math!empty
<1>3. ASSUME Math!overlaps(RangeOf(a, b), RangeOf(e, f))
      PROVE  \E m, n \in Coordinates :
                /\ m < n /\ Math!common(RectType, RangeOf(a, b), RangeOf(e, f)) = RangeOf(m, n)
                /\ \A v \in Int : m <= v /\ v < n <=> a <= v /\ v < b /\ e <= v /\ v < f
  <2>1. PICK m \in Coordinates : m = Math!Largest(e, a) /\ (m = e \/ m = a) /\ e <= m /\ a <= m
    BY <1>1 DEF Math!Largest
  <2>2. PICK n \in Coordinates : n = Math!Smallest(f, b) /\ (n = f \/ n = b) /\ n <= f /\ n <= b
    BY <1>1 DEF Math!Smallest
  <2>3. m < n /\ m \in Int /\ n \in Int
    BY <1>1, <1>2, <1>3, <2>1, <2>2
  <2>4. Math!common(RectType, RangeOf(a, b), RangeOf(e, f)) = Math!value_range(RectType, m, n)
    BY <2>1, <2>2, Parts DEF Math!common
  <2>5. Math!value_range(RectType, m, n) = RangeOf(m, n)
    <3>1. /\ m \in Math!ValuesOf(RectType) /\ n \in Math!ValuesOf(RectType) /\ Math!max(RectType) \in Int
          /\ m < Math!max(RectType) /\ n - m < Math!max(RectType)
      BY ScreenFits
    <3>2. m <= n /\ n - m <= Math!max(RectType)
      BY <2>3, <3>1
    <3>3. QED
      BY <3>1, <3>2, CoordinatesAssumption, Ranged
  <2>6. \A v \in Int : m <= v /\ v < n <=> a <= v /\ v < b /\ e <= v /\ v < f
    BY <1>1, <2>1, <2>2
  <2>7. QED
    BY <2>3, <2>4, <2>5, <2>6
<1>4. ASSUME ~Math!overlaps(RangeOf(a, b), RangeOf(e, f))
      PROVE  \A v \in Int : ~(a <= v /\ v < b /\ e <= v /\ v < f)
  BY <1>1, <1>2, <1>4
<1>5. QED
  BY <1>3, <1>4

(* The common part is the common points. *)
LEMMA OverlapAgrees ==
  ASSUME NEW a, NEW b, NEW c, NEW d, OnScreen(a, b, c, d),
         NEW e, NEW f, NEW g, NEW k, OnScreen(e, f, g, k),
         NEW r, r = RectOf(a, b, c, d), NEW s, s = RectOf(e, f, g, k)
  PROVE  /\ UNION {Math!Points(q) : q \in Math!overlap(RectType, r, s)} = Math!Points(r) \cap Math!Points(s)
         /\ Math!overlap(RectType, r, s) # {} <=> Math!Points(r) \cap Math!Points(s) # {}
<1>1. /\ a \in Coordinates /\ b \in Coordinates /\ c \in Coordinates /\ d \in Coordinates /\ a <= b /\ c <= d
      /\ e \in Coordinates /\ f \in Coordinates /\ g \in Coordinates /\ k \in Coordinates /\ e <= f /\ g <= k
  BY DEF OnScreen
<1>2. /\ a \in Int /\ b \in Int /\ c \in Int /\ d \in Int /\ e \in Int /\ f \in Int /\ g \in Int /\ k \in Int
  BY <1>1, ScreenFits
<1>3. r["x"] = RangeOf(a, b) /\ r["y"] = RangeOf(c, d) /\ s["x"] = RangeOf(e, f) /\ s["y"] = RangeOf(g, k)
  BY Parts
<1>4. \A p : p \in Math!Points(r) \cap Math!Points(s) <=>
        \E x, y \in Int : /\ p = Math!Point(x, y) /\ a <= x /\ x < b /\ c <= y /\ y < d
                          /\ e <= x /\ x < f /\ g <= y /\ y < k
  <2> TAKE p
  <2>1. p \in Math!Points(r) <=> \E x, y \in Int : p = Math!Point(x, y) /\ a <= x /\ x < b /\ c <= y /\ y < d
    BY <1>2, PointsOf
  <2>2. p \in Math!Points(s) <=> \E x, y \in Int : p = Math!Point(x, y) /\ e <= x /\ x < f /\ g <= y /\ y < k
    BY <1>2, PointsOf
  <2>3. \A x, y, m, n : Math!Point(x, y) = Math!Point(m, n) => x = m /\ y = n
    BY SamePoint
  <2>4. QED
    BY <2>1, <2>2, <2>3
<1>5. (\A axis \in Math!Axes : Math!overlaps(r[axis], s[axis]))
        <=> Math!overlaps(RangeOf(a, b), RangeOf(e, f)) /\ Math!overlaps(RangeOf(c, d), RangeOf(g, k))
  BY <1>3 DEF Math!Axes
<1>6. CASE Math!overlaps(RangeOf(a, b), RangeOf(e, f)) /\ Math!overlaps(RangeOf(c, d), RangeOf(g, k))
  <2>1. PICK i \in Coordinates, j \in Coordinates :
          /\ i < j /\ Math!common(RectType, r.x, s.x) = RangeOf(i, j)
          /\ \A v \in Int : i <= v /\ v < j <=> a <= v /\ v < b /\ e <= v /\ v < f
    BY <1>1, <1>3, <1>6, Common
  <2>2. PICK l \in Coordinates, m \in Coordinates :
          /\ l < m /\ Math!common(RectType, r.y, s.y) = RangeOf(l, m)
          /\ \A v \in Int : l <= v /\ v < m <=> c <= v /\ v < d /\ g <= v /\ v < k
    BY <1>1, <1>3, <1>6, Common, SMTT(30)
  <2>3. /\ i \in Int /\ j \in Int /\ l \in Int /\ m \in Int /\ Math!max(RectType) \in Int
        /\ i \in Math!ValuesOf(RectType) /\ i < Math!max(RectType) /\ j \in Math!ValuesOf(RectType)
        /\ l \in Math!ValuesOf(RectType) /\ l < Math!max(RectType) /\ m \in Math!ValuesOf(RectType)
        /\ j - i \in Math!ValuesOf(RectType) /\ m - l \in Math!ValuesOf(RectType)
        /\ (j - i) * (m - l) <= Math!max(RectType)
    BY ScreenFits
  <2>4. PICK w \in Nat, h \in Nat, p \in Nat :
          w = j - i /\ h = m - l /\ p = w * h /\ i + w = j /\ l + h = m /\ w >= 0 /\ h >= 0
    <3>1. PICK w \in Nat, h \in Nat : w = j - i /\ h = m - l
      <4>1. j - i \in Nat /\ m - l \in Nat
        BY <2>1, <2>2, <2>3
      <4>2. QED
        BY <4>1
    <3>2. i + w = j /\ l + h = m /\ w * h \in Nat
      BY <2>3, <3>1
    <3>3. QED
      BY <3>1, <3>2
  <2>5. Math!rect(RectType, Math!Point(i, l), w, h) = RectOf(i, j, l, m)
    <3>1. Fitting(RectType, i, l, p)
      BY <2>3, <2>4 DEF Fitting
    <3>2. QED
      BY <2>3, <2>4, <3>1, CoordinatesAssumption, PointParts, RectMade
  <2>6. Math!overlap(RectType, r, s) = {RectOf(i, j, l, m)}
    <3>1. /\ Math!size(RangeOf(i, j)) = w /\ Math!size(RangeOf(l, m)) = h
      <4>1. /\ RangeOf(i, j).begin = i /\ RangeOf(i, j).end = j
            /\ RangeOf(l, m).begin = l /\ RangeOf(l, m).end = m
        BY Parts
      <4>2. QED
        BY <2>4, <4>1 DEF Math!size
    <3>2. PICK x, y : x = Math!common(RectType, r.x, s.x) /\ y = Math!common(RectType, r.y, s.y)
      OBVIOUS
    <3>3. Math!overlap(RectType, r, s) = {Math!rect(RectType, Math!Point(x.begin, y.begin), Math!size(x), Math!size(y))}
      BY <1>5, <1>6, <3>2 DEF Math!overlap
    <3>4. x = RangeOf(i, j) /\ y = RangeOf(l, m)
      BY <2>1, <2>2, <3>2
    <3>5. x.begin = i /\ y.begin = l
      BY <3>4, Parts
    <3>6. QED
      BY <2>5, <3>1, <3>3, <3>4, <3>5
  <2>7. \A p1 : p1 \in Math!Points(RectOf(i, j, l, m)) <=> p1 \in Math!Points(r) \cap Math!Points(s)
    <3> TAKE p1
    <3>1. p1 \in Math!Points(RectOf(i, j, l, m)) <=>
            \E x, y \in Int : p1 = Math!Point(x, y) /\ i <= x /\ x < j /\ l <= y /\ y < m
      BY <2>3, PointsOf
    <3>2. \A x, y \in Int : i <= x /\ x < j /\ l <= y /\ y < m <=>
            a <= x /\ x < b /\ c <= y /\ y < d /\ e <= x /\ x < f /\ g <= y /\ y < k
      BY <2>1, <2>2
    <3>3. QED
      BY <1>4, <3>1, <3>2
  <2>8. Math!Point(i, l) \in Math!Points(RectOf(i, j, l, m))
    BY <2>1, <2>2, <2>3, PointsOf
  <2>9. Math!Points(RectOf(i, j, l, m)) = Math!Points(r) \cap Math!Points(s)
    BY <2>7
  <2>10. UNION {Math!Points(q) : q \in {RectOf(i, j, l, m)}} = Math!Points(RectOf(i, j, l, m))
    OBVIOUS
  <2>11. QED
    BY <2>6, <2>8, <2>9, <2>10
<1>7. CASE ~(Math!overlaps(RangeOf(a, b), RangeOf(e, f)) /\ Math!overlaps(RangeOf(c, d), RangeOf(g, k)))
  <2>1. Math!overlap(RectType, r, s) = {}
    BY <1>5, <1>7 DEF Math!overlap
  <2>2. \/ \A v \in Int : ~(a <= v /\ v < b /\ e <= v /\ v < f)
        \/ \A v \in Int : ~(c <= v /\ v < d /\ g <= v /\ v < k)
    BY <1>1, <1>7, Common
  <2>3. \A p : p \notin Math!Points(r) \cap Math!Points(s)
    BY <1>4, <2>2
  <2>4. Math!Points(r) \cap Math!Points(s) = {}
    BY <2>3
  <2>5. UNION {Math!Points(q) : q \in {}} = {}
    OBVIOUS
  <2>6. QED
    BY <2>1, <2>4, <2>5
<1>8. QED
  BY <1>6, <1>7

(* One rectangle contains another if it has its points, which has some. *)
LEMMA ContainsAgrees ==
  ASSUME NEW a, NEW b, NEW c, NEW d, OnScreen(a, b, c, d),
         NEW e, NEW f, NEW g, NEW k, OnScreen(e, f, g, k),
         NEW r, r = RectOf(a, b, c, d), NEW s, s = RectOf(e, f, g, k)
  PROVE  /\ Math!contains(r, s) <=> Math!Points(s) # {} /\ Math!Points(s) \subseteq Math!Points(r)
         /\ \A p \in Math!Points(s) : Math!contains_point(r, p) <=> p \in Math!Points(r)
<1>1. /\ a \in Int /\ b \in Int /\ c \in Int /\ d \in Int /\ e \in Int /\ f \in Int /\ g \in Int /\ k \in Int
      /\ a <= b /\ c <= d /\ e <= f /\ g <= k
  BY ScreenFits DEF OnScreen
<1>2. r["x"] = RangeOf(a, b) /\ r["y"] = RangeOf(c, d) /\ s["x"] = RangeOf(e, f) /\ s["y"] = RangeOf(g, k)
  BY Parts
<1>3. \A x, y \in Int :
        /\ Math!Point(x, y) \in Math!Points(r) <=> a <= x /\ x < b /\ c <= y /\ y < d
        /\ Math!Point(x, y) \in Math!Points(s) <=> e <= x /\ x < f /\ g <= y /\ y < k
        /\ Math!contains_point(r, Math!Point(x, y)) <=> a <= x /\ x < b /\ c <= y /\ y < d
  <2> SUFFICES ASSUME NEW x \in Int, NEW y \in Int
               PROVE  /\ Math!Point(x, y) \in Math!Points(r) <=> a <= x /\ x < b /\ c <= y /\ y < d
                      /\ Math!Point(x, y) \in Math!Points(s) <=> e <= x /\ x < f /\ g <= y /\ y < k
                      /\ Math!contains_point(r, Math!Point(x, y)) <=> a <= x /\ x < b /\ c <= y /\ y < d
    OBVIOUS
  <2>1. \A m, n : Math!Point(x, y) = Math!Point(m, n) => x = m /\ y = n
    BY SamePoint
  <2>2. Math!Point(x, y) \in Math!Points(r) <=> a <= x /\ x < b /\ c <= y /\ y < d
    BY <1>1, <2>1, PointsOf
  <2>3. Math!Point(x, y) \in Math!Points(s) <=> e <= x /\ x < f /\ g <= y /\ y < k
    BY <1>1, <2>1, PointsOf
  <2>4. Math!contains_point(r, Math!Point(x, y)) <=> a <= x /\ x < b /\ c <= y /\ y < d
    BY <1>1, <1>2, PointParts, ContainsPoint
  <2>5. QED
    BY <2>2, <2>3, <2>4
<1>4. \A p : p \in Math!Points(s) => \E x, y \in Int : p = Math!Point(x, y)
  BY <1>1, PointsOf
<1>5. Math!contains(r, s) <=> a # b /\ e # f /\ a <= e /\ f <= b /\ c # d /\ g # k /\ c <= g /\ k <= d
  <2>1. \A i, j, m, n : Math!covers(RangeOf(i, j), RangeOf(m, n)) <=> i # j /\ m # n /\ i <= m /\ n <= j
    <3> SUFFICES ASSUME NEW i, NEW j, NEW m, NEW n
                 PROVE  Math!covers(RangeOf(i, j), RangeOf(m, n)) <=> i # j /\ m # n /\ i <= m /\ n <= j
      OBVIOUS
    <3>1. /\ RangeOf(i, j).begin = i /\ RangeOf(i, j).end = j
          /\ RangeOf(m, n).begin = m /\ RangeOf(m, n).end = n
      BY Parts
    <3>2. QED
      BY <3>1, Zenon DEF Math!covers, Math!empty
  <2>2. Math!contains(r, s) <=> Math!covers(RangeOf(a, b), RangeOf(e, f)) /\ Math!covers(RangeOf(c, d), RangeOf(g, k))
    BY <1>2 DEF Math!contains, Math!Axes
  <2>3. QED
    BY <2>1, <2>2
<1>6. ASSUME Math!contains(r, s)
      PROVE  Math!Points(s) # {} /\ Math!Points(s) \subseteq Math!Points(r)
  <2>1. a <= e /\ f <= b /\ c <= g /\ k <= d /\ e < f /\ g < k
    BY <1>1, <1>5, <1>6
  <2>2. Math!Point(e, g) \in Math!Points(s)
    BY <1>1, <1>3, <2>1
  <2>3. ASSUME NEW p \in Math!Points(s) PROVE p \in Math!Points(r)
    <3>1. PICK x \in Int, y \in Int : p = Math!Point(x, y)
      BY <1>4
    <3>2. e <= x /\ x < f /\ g <= y /\ y < k
      BY <1>3, <2>3, <3>1
    <3>3. a <= x /\ x < b /\ c <= y /\ y < d
      BY <1>1, <2>1, <3>2
    <3>4. QED
      BY <1>3, <3>1, <3>3
  <2>4. QED
    BY <2>2, <2>3
<1>7. ASSUME Math!Points(s) # {}, Math!Points(s) \subseteq Math!Points(r)
      PROVE  Math!contains(r, s)
  <2>1. e < f /\ g < k
    <3>1. PICK p : p \in Math!Points(s)
      BY <1>7
    <3>2. PICK x \in Int, y \in Int : p = Math!Point(x, y)
      BY <1>4, <3>1
    <3>3. e <= x /\ x < f /\ g <= y /\ y < k
      BY <1>3, <3>1, <3>2
    <3>4. QED
      BY <1>1, <3>3
  <2>2. a <= e /\ c <= g
    <3>1. Math!Point(e, g) \in Math!Points(s)
      BY <1>1, <1>3, <2>1
    <3>2. QED
      BY <1>1, <1>3, <1>7, <3>1
  <2>3. f <= b /\ k <= d
    <3>1. PICK x \in Int, y \in Int : x = f - 1 /\ y = k - 1
      BY <1>1
    <3>2. Math!Point(x, y) \in Math!Points(s)
      BY <1>1, <1>3, <2>1, <3>1
    <3>3. x < b /\ y < d
      BY <1>3, <1>7, <3>2
    <3>4. QED
      BY <1>1, <3>1, <3>3
  <2>4. QED
    BY <1>1, <1>5, <2>1, <2>2, <2>3
<1>8. \A p \in Math!Points(s) : Math!contains_point(r, p) <=> p \in Math!Points(r)
  BY <1>3, <1>4
<1>9. QED
  BY <1>6, <1>7, <1>8

(* What is no more than half of w squares to no more than a quarter of its square. *)
LEMMA SquareOfHalf ==
  ASSUME NEW n \in Int, NEW w \in Nat, 2 * n <= w, 2 * (-n) <= w
  PROVE  Math!squared(n) \in Nat /\ Math!squared(w) \in Nat /\ 4 * Math!squared(n) <= Math!squared(w)
<1>1. PICK m \in Nat : (m = n \/ m = -n) /\ 2 * m <= w
  <2>1. CASE n >= 0
    BY <2>1
  <2>2. CASE n < 0
    <3>1. -n \in Nat /\ 2 * (-n) <= w
      BY <2>2
    <3>2. QED
      BY <3>1
  <2>3. QED
    BY <2>1, <2>2
<1>2. n * n = m * m
  <2>1. (-n) * (-n) = n * n
    OBVIOUS
  <2>2. QED
    BY <1>1, <2>1
<1>3. PICK k \in Nat : w = 2 * m + k
  <2>1. w - 2 * m \in Nat /\ w = 2 * m + (w - 2 * m)
    BY <1>1
  <2>2. QED
    BY <2>1
<1>4. w * w = 4 * (m * m) + 4 * (m * k) + k * k
  BY <1>3
<1>5. m * m \in Nat /\ m * k \in Nat /\ k * k \in Nat /\ w * w \in Nat
  OBVIOUS
<1>6. QED
  BY <1>2, <1>4, <1>5 DEF Math!squared

(* No point is farther from the center than half of the diagonal. *)
LEMMA CenteredInside ==
  ASSUME NEW a \in Int, NEW b \in Int, NEW c \in Int, NEW d \in Int, a <= b, c <= d,
         NEW r, r = RectOf(a, b, c, d)
  PROVE  Math!Centered(r)
<1> SUFFICES ASSUME NEW p \in Math!Points(r)
             PROVE  4 * Math!distance_squared(Math!center(r), p)
                      <= Math!squared(Math!horizontal_range(r)) + Math!squared(Math!vertical_range(r))
  BY DEF Math!Centered
<1>1. PICK x \in Int, y \in Int : p = Math!Point(x, y) /\ a <= x /\ x < b /\ c <= y /\ y < d
  BY PointsOf
<1>2. PICK w \in Nat, h \in Nat : w = b - a /\ h = d - c
  <2>1. b - a \in Nat /\ d - c \in Nat
    OBVIOUS
  <2>2. QED
    BY <2>1
<1>3. Math!horizontal_range(r) = w /\ Math!vertical_range(r) = h /\ r.x.begin = a /\ r.y.begin = c
  BY <1>2, Parts DEF Math!horizontal_range, Math!vertical_range, Math!size
<1>4. PICK m \in Int, n \in Int :
        /\ m = a + (b - a) \div 2 /\ 2 * (m - x) <= b - a /\ 2 * (x - m) <= b - a
        /\ n = c + (d - c) \div 2 /\ 2 * (n - y) <= d - c /\ 2 * (y - n) <= d - c
  BY <1>1, Halved
<1>5. Math!center(r) = Math!Point(m, n)
  BY <1>2, <1>3, <1>4 DEF Math!center
<1>6. PICK i \in Int, j \in Int : i = m - x /\ j = n - y
  OBVIOUS
<1>7. Math!distance_squared(Math!center(r), p) = Math!squared(i) + Math!squared(j)
  BY <1>1, <1>5, <1>6, PointParts DEF Math!distance_squared, Math!axis_value
<1>8. 2 * i <= w /\ 2 * (-i) <= w /\ 2 * j <= h /\ 2 * (-j) <= h
  BY <1>2, <1>4, <1>6
<1>9. /\ Math!squared(i) \in Nat /\ Math!squared(w) \in Nat /\ 4 * Math!squared(i) <= Math!squared(w)
      /\ Math!squared(j) \in Nat /\ Math!squared(h) \in Nat /\ 4 * Math!squared(j) <= Math!squared(h)
  BY <1>8, SquareOfHalf
<1>10. QED
  BY <1>3, <1>7, <1>9

(* A rectangle is the same one in the picture of another one. *)
LEMMA MovedInside ==
  ASSUME NEW a, NEW b, NEW c, NEW d, OnScreen(a, b, c, d),
         NEW e, NEW f, NEW g, NEW k, OnScreen(e, f, g, k),
         NEW r, r = RectOf(a, b, c, d), NEW s, s = RectOf(e, f, g, k)
  PROVE  Math!MovedAlong(RectType, r, s)
<1>1. /\ a \in Coordinates /\ b \in Coordinates /\ c \in Coordinates /\ d \in Coordinates /\ a <= b /\ c <= d
      /\ e \in Coordinates /\ f \in Coordinates /\ g \in Coordinates /\ k \in Coordinates
  BY DEF OnScreen
<1>2. /\ a \in Int /\ b \in Int /\ c \in Int /\ d \in Int /\ e \in Int /\ g \in Int
      /\ Math!max(RectType) \in Int /\ Math!min(RectType) \in Int /\ RectType \in Types
  BY <1>1, CoordinatesAssumption, ScreenFits, LimitsAround
<1>3. /\ a - e \in Math!ValuesOf(RectType) /\ b - e \in Math!ValuesOf(RectType) /\ b - a \in Math!ValuesOf(RectType)
      /\ c - g \in Math!ValuesOf(RectType) /\ d - g \in Math!ValuesOf(RectType) /\ d - c \in Math!ValuesOf(RectType)
      /\ a - e < Math!max(RectType) /\ c - g < Math!max(RectType) /\ (b - a) * (d - c) <= Math!max(RectType)
      /\ a \in Math!ValuesOf(RectType) /\ b \in Math!ValuesOf(RectType)
      /\ c \in Math!ValuesOf(RectType) /\ d \in Math!ValuesOf(RectType)
  BY <1>1, ScreenFits
<1>4. Math!origin(r) = Math!Point(a, c) /\ Math!origin(s) = Math!Point(e, g)
      /\ Math!horizontal_range(r) = b - a /\ Math!vertical_range(r) = d - c
  <2>1. /\ r.x.begin = a /\ r.x.end = b /\ r.y.begin = c /\ r.y.end = d /\ s.x.begin = e /\ s.y.begin = g
    BY Parts
  <2>2. QED
    BY <2>1 DEF Math!origin, Math!horizontal_range, Math!vertical_range, Math!size
<1>5. \A x, y, m, n : /\ Math!minus(RectType, Math!Point(x, y), Math!Point(m, n))["x"] = Math!Wrapped(RectType, x - m)
                      /\ Math!minus(RectType, Math!Point(x, y), Math!Point(m, n))["y"] = Math!Wrapped(RectType, y - n)
  BY PointParts, Zenon DEF Math!minus, Math!axis_value, Math!Axes
<1>6. PICK from : from = Math!minus(RectType, Math!origin(r), Math!origin(s))
                  /\ from["x"] = a - e /\ from["y"] = c - g
  <2>1. Math!Wrapped(RectType, a - e) = a - e /\ Math!Wrapped(RectType, c - g) = c - g
    BY <1>2, <1>3, NotWrapped
  <2>2. QED
    BY <1>4, <1>5, <2>1
<1>7. PICK w \in Nat, h \in Nat, p \in Nat : w = b - a /\ h = d - c /\ p = w * h
  <2>1. PICK w \in Nat, h \in Nat : w = b - a /\ h = d - c
    <3>1. b - a \in Nat /\ d - c \in Nat
      BY <1>1, <1>2
    <3>2. QED
      BY <3>1
  <2>2. w * h \in Nat
    OBVIOUS
  <2>3. QED
    BY <2>1, <2>2
<1>8. Math!rect(RectType, from, w, h) = RectOf(a - e, b - e, c - g, d - g)
  <2>1. PICK x \in Int, y \in Int, i \in Int, j \in Int :
          x = a - e /\ y = c - g /\ i = b - e /\ j = d - g /\ x + w = i /\ y + h = j
    BY <1>2, <1>7
  <2>2. Fitting(RectType, x, y, p)
    BY <1>3, <1>7, <2>1 DEF Fitting
  <2>3. Math!rect(RectType, from, w, h) = RectOf(x, x + w, y, y + h)
    <3>1. /\ x \in Math!ValuesOf(RectType) /\ y \in Math!ValuesOf(RectType)
          /\ w \in Math!ValuesOf(RectType) /\ h \in Math!ValuesOf(RectType) /\ w >= 0 /\ h >= 0
          /\ x + w \in Math!ValuesOf(RectType) /\ y + h \in Math!ValuesOf(RectType)
          /\ from["x"] = x /\ from["y"] = y
      BY <1>3, <1>6, <1>7, <2>1
    <3>2. QED
      BY <1>2, <1>7, <2>2, <3>1, RectMade
  <2>4. QED
    BY <2>1, <2>3
<1>9. ASSUME NEW q \in Math!Points(r)
      PROVE  LET m == Math!minus(RectType, q, Math!origin(s))
             IN  /\ Math!contains_point(Math!rect(RectType, from, w, h), m)
                 /\ Math!plus(RectType, m, Math!origin(s)) = q
  <2>1. PICK x \in Int, y \in Int : q = Math!Point(x, y) /\ a <= x /\ x < b /\ c <= y /\ y < d
    BY <1>2, PointsOf
  <2>2. PICK m : m = Math!minus(RectType, q, Math!origin(s))
    OBVIOUS
  <2>3. /\ x - e \in Math!ValuesOf(RectType) /\ y - g \in Math!ValuesOf(RectType)
        /\ x \in Math!ValuesOf(RectType) /\ y \in Math!ValuesOf(RectType)
    <3>1. /\ \A n \in Int : a - e <= n /\ n <= b - e => n \in Math!ValuesOf(RectType)
          /\ \A n \in Int : c - g <= n /\ n <= d - g => n \in Math!ValuesOf(RectType)
          /\ \A n \in Int : a <= n /\ n <= b => n \in Math!ValuesOf(RectType)
          /\ \A n \in Int : c <= n /\ n <= d => n \in Math!ValuesOf(RectType)
      <4>1. \A i, j \in Math!ValuesOf(RectType) : \A n \in Int : i <= n /\ n <= j => n \in Math!ValuesOf(RectType)
        <5>1. PICK i1 \in Int, j1 \in Int : i1 = Math!min(RectType) /\ j1 = Math!max(RectType)
          BY <1>2
        <5>2. QED
          BY <5>1 DEF Math!ValuesOf
      <4>2. QED
        BY <1>3, <4>1
    <3>2. /\ x - e \in Int /\ a - e <= x - e /\ x - e <= b - e /\ x <= b
          /\ y - g \in Int /\ c - g <= y - g /\ y - g <= d - g /\ y <= d
      BY <1>2, <2>1
    <3>3. QED
      BY <2>1, <3>1, <3>2
  <2>4. m["x"] = x - e /\ m["y"] = y - g
    <3>1. Math!Wrapped(RectType, x - e) = x - e /\ Math!Wrapped(RectType, y - g) = y - g
      BY <1>2, <2>3, NotWrapped
    <3>2. QED
      BY <1>4, <1>5, <2>1, <2>2, <3>1
  <2>5. Math!contains_point(RectOf(a - e, b - e, c - g, d - g), m)
    <3>1. PICK i \in Int, j \in Int, l \in Int, n \in Int : i = a - e /\ j = b - e /\ l = c - g /\ n = d - g
      BY <1>2
    <3>2. i <= m["x"] /\ m["x"] < j /\ l <= m["y"] /\ m["y"] < n /\ m["x"] \in Int /\ m["y"] \in Int
      BY <1>2, <2>1, <2>4, <3>1
    <3>3. RectOf(i, j, l, n)["x"] = RangeOf(i, j) /\ RectOf(i, j, l, n)["y"] = RangeOf(l, n)
      BY Parts
    <3>4. Math!contains_point(RectOf(i, j, l, n), m)
      BY <3>2, <3>3, ContainsPoint
    <3>5. QED
      BY <3>1, <3>4
  <2>6. Math!plus(RectType, m, Math!origin(s)) = q
    <3>1. (x - e) + e = x /\ (y - g) + g = y
      BY <1>2
    <3>2. Math!Wrapped(RectType, m["x"] + e) = x /\ Math!Wrapped(RectType, m["y"] + g) = y
      BY <1>2, <2>3, <2>4, <3>1, NotWrapped
    <3>3. Math!plus(RectType, m, Math!Point(e, g)) =
            [axis \in {"x", "y"} |-> Math!Wrapped(RectType, m[axis] + Math!Point(e, g)[axis])]
      BY DEF Math!plus, Math!axis_value, Math!Axes
    <3>4. PICK i : i = Math!plus(RectType, m, Math!Point(e, g))
      OBVIOUS
    <3>5. i = [axis \in {"x", "y"} |-> i[axis]] /\ i["x"] = x /\ i["y"] = y
      BY <3>2, <3>3, <3>4, PointParts
    <3>6. i = [x |-> x, y |-> y]
      BY <3>5
    <3>7. QED
      BY <1>4, <2>1, <3>4, <3>6 DEF Math!Point
  <2>7. QED
    BY <1>8, <2>2, <2>5, <2>6
<1>10. QED
  BY <1>4, <1>6, <1>7, <1>9, Zenon DEF Math!MovedAlong

\* A rectangle is made of values of the type, two of them are on the screen.
RectInv ==
  /\ call.of = "rectangle" =>
       /\ call.x \in Math!ValuesOf(RectType) /\ call.y \in Math!ValuesOf(RectType)
       /\ call.width \in Math!ValuesOf(RectType) /\ call.height \in Math!ValuesOf(RectType)
  /\ call.of = "rectangles" => call.r \in Rectangles /\ call.s \in Rectangles

(* A rectangle of the run has its sides among the coordinates. *)
LEMMA RectangleOnScreen ==
  ASSUME NEW r \in Rectangles
  PROVE  \E a, b, c, d \in Coordinates : OnScreen(a, b, c, d) /\ r = RectOf(a, b, c, d)
<1>1. PICK a \in Coordinates, b \in Coordinates, c \in Coordinates, d \in Coordinates : r = RectOf(a, b, c, d)
  BY DEF Rectangles, Within, RectOf, RangeOf
<1>2. r.x.begin = a /\ r.x.end = b /\ r.y.begin = c /\ r.y.end = d
  BY <1>1, Parts
<1>3. r.x.begin <= r.x.end /\ r.y.begin <= r.y.end
  BY DEF Rectangles
<1>4. OnScreen(a, b, c, d)
  BY <1>2, <1>3 DEF OnScreen
<1>5. QED
  BY <1>1, <1>4

(* All that is said of two rectangles on the screen. *)
LEMMA RectanglesAgree ==
  ASSUME NEW r \in Rectangles, NEW s \in Rectangles
  PROVE  Math!AgreesWithPoints(RectType, r, s)
<1>1. PICK a \in Coordinates, b \in Coordinates, c \in Coordinates, d \in Coordinates :
        OnScreen(a, b, c, d) /\ r = RectOf(a, b, c, d)
  BY RectangleOnScreen
<1>2. PICK e \in Coordinates, f \in Coordinates, g \in Coordinates, k \in Coordinates :
        OnScreen(e, f, g, k) /\ s = RectOf(e, f, g, k)
  BY RectangleOnScreen
<1>3. Math!Centered(r)
  <2>1. a \in Int /\ b \in Int /\ c \in Int /\ d \in Int
    BY ScreenFits
  <2>2. a <= b /\ c <= d
    BY <1>1 DEF OnScreen
  <2>3. QED
    BY <1>1, <2>1, <2>2, CenteredInside
<1>4. Math!MovedAlong(RectType, r, s)
  BY <1>1, <1>2, MovedInside
<1>5. /\ UNION {Math!Points(q) : q \in Math!overlap(RectType, r, s)} = Math!Points(r) \cap Math!Points(s)
      /\ Math!overlap(RectType, r, s) # {} <=> Math!Points(r) \cap Math!Points(s) # {}
  BY <1>1, <1>2, OverlapAgrees
<1>6. /\ Math!contains(r, s) <=> Math!Points(s) # {} /\ Math!Points(s) \subseteq Math!Points(r)
      /\ \A p \in Math!Points(s) : Math!contains_point(r, p) <=> p \in Math!Points(r)
  BY <1>1, <1>2, ContainsAgrees
<1>7. QED
  BY <1>3, <1>4, <1>5, <1>6, Zenon DEF Math!AgreesWithPoints

(* For integers of every width a rectangle that is made is the set of the points it was *)
(* asked for, but for an end that is no value, which is put at 0; contains(), overlap()  *)
(* and the center are true of the points.                                               *)
THEOREM RectanglesAreTheirPoints == Spec => []RectAgrees
<1>1. Init => RectInv
  BY DEF Init, RectInv
<1>2. RectInv /\ [Next]_vars => RectInv'
  <2> SUFFICES ASSUME RectInv, [Next]_vars PROVE RectInv'
    OBVIOUS
  <2>1. CASE MakeRectangle
    <3>1. PICK x \in Math!ValuesOf(RectType), y \in Math!ValuesOf(RectType),
               width \in Math!ValuesOf(RectType), height \in Math!ValuesOf(RectType) :
            call' = [of |-> "rectangle", x |-> x, y |-> y, width |-> width, height |-> height]
      BY <2>1 DEF MakeRectangle, Call
    <3>2. QED
      BY <3>1 DEF RectInv
  <2>2. CASE CompareRectangles
    <3>1. PICK r \in Rectangles, s \in Rectangles : call' = [of |-> "rectangles", r |-> r, s |-> s]
      BY <2>2 DEF CompareRectangles, Call
    <3>2. call'.of = "rectangles" /\ call'.r \in Rectangles /\ call'.s \in Rectangles
      BY <3>1
    <3>3. QED
      BY <3>2 DEF RectInv
  <2>3. CASE UNCHANGED call
    BY <2>3 DEF RectInv
  <2>4. CASE OpenPages \/ CaptureScreen \/ MatchChoices
    BY <2>4 DEF OpenPages, CaptureScreen, MatchChoices, Call, RectInv
  <2>5. CASE PrintEnumerator \/ Compute
    BY <2>5 DEF PrintEnumerator, Compute, Call, RectInv
  <2>6. CASE PrintRange \/ CiteNames
    BY <2>6, CitationCalled DEF RectInv
  <2>7. QED
    BY <2>1, <2>2, <2>3, <2>4, <2>5, <2>6 DEF Next, vars, Count, UseMenu
<1>3. RectInv => RectAgrees
  BY RectangleMade, WindowMade, RectanglesAgree, CoordinatesAssumption DEF RectInv, RectAgrees
<1>4. QED
  BY <1>1, <1>2, <1>3, PTL DEF Spec

-----------------------------------------------------------------------------
(* The choices for the name of a book                                        *)
Symbols == {s \in Seq(Nat) : s = << >> \/ s[1] \notin LaterBytes}

\* The choices of the characters of an image, of each at least one.
ChoiceList(list) == list \in Seq(Seq(Found)) /\ \A i \in 1 .. Len(list) : list[i] # << >>

\* What has been read of a name.
MatchesOf(list, name) ==
  [text : Seq(Nat), confidence : Nat, stopped : BOOLEAN, places : SUBSET (1 .. Len(list)),
   name : {name}, strings : [1 .. Len(list) -> Symbols]]

\* A character is passed by, or read as its k-th choice.
Passed(before, after) ==
  /\ after.text = before.text /\ after.confidence = before.confidence
  /\ after.strings = before.strings /\ after.places = before.places
Took(list, before, after, i, k) ==
  /\ k \in DOMAIN list[i] /\ starts_with(before.text, list[i][k].symbol)
  /\ \A l \in DOMAIN list[i] : starts_with(before.text, list[i][l].symbol) => l <= k
  /\ before.text = list[i][k].symbol \o after.text
  /\ after.confidence = before.confidence + list[i][k].confidence
  /\ after.strings = [before.strings EXCEPT ![i] = list[i][k].symbol]
  /\ after.places = before.places \cup {i}

(* A text that begins with a symbol is the symbol and the rest. *)
LEMMA RestOfText ==
  ASSUME NEW text \in Seq(Nat), NEW c \in Seq(Nat), starts_with(text, c)
  PROVE  From(text, Len(c) + 1) \in Seq(Nat) /\ text = c \o From(text, Len(c) + 1)
<1>1. Len(c) <= Len(text) /\ \A i \in 1 .. Len(c) : text[i] = c[i]
  <2>1. Len(c) <= Len(text) /\ SubSeq(c, 1, Len(c)) = SubSeq(text, 1, Len(c))
    BY DEF starts_with, IsPrefix
  <2>2. \A i \in 1 .. Len(c) : SubSeq(c, 1, Len(c))[i] = c[i] /\ SubSeq(text, 1, Len(c))[i] = text[i]
    BY <2>1
  <2>3. QED
    BY <2>1, <2>2
<1>2. PICK r : r = SubSeq(text, Len(c) + 1, Len(text))
  OBVIOUS
<1>3. r \in Seq(Nat) /\ Len(r) = Len(text) - Len(c) /\ \A i \in 1 .. Len(r) : r[i] = text[Len(c) + i]
  BY <1>1, <1>2
<1>4. c \o r \in Seq(Nat) /\ Len(c \o r) = Len(text)
  BY <1>1, <1>3
<1>5. ASSUME NEW i \in 1 .. Len(text) PROVE (c \o r)[i] = text[i]
  <2>1. CASE i <= Len(c)
    BY <1>1, <1>3, <2>1
  <2>2. CASE ~(i <= Len(c))
    <3>1. i - Len(c) \in 1 .. Len(r) /\ Len(c) + (i - Len(c)) = i
      BY <1>3, <2>2
    <3>2. (c \o r)[i] = r[i - Len(c)]
      BY <1>3, <1>4, <2>2
    <3>3. QED
      BY <1>3, <3>1, <3>2
  <2>3. QED
    BY <2>1, <2>2
<1>6. c \o r = text
  <2>1. PICK z \in Seq(Nat) : z = c \o r
    BY <1>4
  <2>2. Len(z) = Len(text) /\ \A i \in 1 .. Len(text) : z[i] = text[i]
    BY <1>4, <1>5, <2>1
  <2>3. z = text
    BY <2>2, SameSequence
  <2>4. QED
    BY <2>1, <2>3
<1>7. QED
  BY <1>2, <1>3, <1>6 DEF From

(* The last choice that fits is found, if one does. *)
LEMMA LastThatFits ==
  ASSUME NEW choices \in Seq(Found), NEW text
  PROVE  \/ find_chars_begin_match(choices, text) = {}
         \/ \E k \in DOMAIN choices :
              /\ find_chars_begin_match(choices, text) = {choices[k]}
              /\ starts_with(text, choices[k].symbol)
              /\ \A l \in DOMAIN choices : starts_with(text, choices[l].symbol) => l <= k
<1> DEFINE fits == {k \in DOMAIN choices : starts_with(text, choices[k].symbol)}
<1>1. SUFFICES ASSUME fits # {}
      PROVE  \E k \in DOMAIN choices :
              /\ find_chars_begin_match(choices, text) = {choices[k]}
              /\ starts_with(text, choices[k].symbol)
              /\ \A l \in DOMAIN choices : starts_with(text, choices[l].symbol) => l <= k
  BY DEF find_chars_begin_match
<1>2. Len(choices) \in Nat /\ fits \in SUBSET (1 .. Len(choices))
  OBVIOUS
<1>3. PICK k : k = Max(fits) /\ k \in fits /\ \A l \in fits : k >= l
  <2> HIDE DEF fits
  <2> QED
    BY <1>1, <1>2, MaxOfNumbers
<1>4. find_chars_begin_match(choices, text) = {choices[k]}
  BY <1>1, <1>3 DEF find_chars_begin_match
<1>5. \A l \in fits : l <= k
  BY <1>2, <1>3
<1>6. QED
  BY <1>3, <1>4, <1>5

(* One character more. *)
LEMMA NextPartIs ==
  ASSUME NEW list, ChoiceList(list), NEW name, NEW i \in 1 .. Len(list), NEW m \in MatchesOf(list, name)
  PROVE  /\ NextPart(list, m, i) \in MatchesOf(list, name)
         /\ Passed(m, NextPart(list, m, i)) \/ \E k : Took(list, m, NextPart(list, m, i), i, k)
<1> DEFINE fits == find_chars_begin_match(list[i], m.text)
           choice == CHOOSE c \in fits : TRUE
<1>0. list[i] \in Seq(Found) /\ m.text \in Seq(Nat)
  BY DEF ChoiceList, MatchesOf
<1>1. CASE m.text = << >> \/ m.stopped
  <2>1. NextPart(list, m, i) = m
    BY <1>1 DEF NextPart
  <2>2. QED
    BY <2>1 DEF Passed
<1>2. CASE ~(m.text = << >> \/ m.stopped) /\ fits = {}
  <2>1. NextPart(list, m, i) = [m EXCEPT !.stopped = TRUE]
    BY <1>2 DEF NextPart
  <2>2. QED
    BY <2>1 DEF Passed, MatchesOf
<1>3. CASE ~(m.text = << >> \/ m.stopped) /\ fits # {}
  <2>1. PICK k \in DOMAIN list[i] :
          /\ fits = {list[i][k]} /\ starts_with(m.text, list[i][k].symbol)
          /\ \A l \in DOMAIN list[i] : starts_with(m.text, list[i][l].symbol) => l <= k
    BY <1>0, <1>3, LastThatFits
  <2>2. choice = list[i][k]
    <3>1. \A x : (CHOOSE c \in {x} : TRUE) = x
      OBVIOUS
    <3>2. QED
      BY <2>1, <3>1
  <2>3. PICK c \in Found : c = list[i][k]
    BY <1>0, <2>1
  <2>4. c.symbol \in Symbols /\ c.symbol \in Seq(Nat) /\ c.confidence \in Nat
    BY DEF Found, Symbols
  <2>5. PICK r : r = From(m.text, Len(c.symbol) + 1) /\ r \in Seq(Nat) /\ m.text = c.symbol \o r
    <3>1. starts_with(m.text, c.symbol)
      BY <2>1, <2>3
    <3>2. From(m.text, Len(c.symbol) + 1) \in Seq(Nat) /\ m.text = c.symbol \o From(m.text, Len(c.symbol) + 1)
      BY <1>0, <2>4, <3>1, RestOfText
    <3>3. QED
      BY <3>2
  <2>6. PICK a : a = [m EXCEPT !.text = r, !.confidence = @ + c.confidence, !.strings[i] = c.symbol,
                              !.places = @ \cup {i}]
    OBVIOUS
  <2>7. NextPart(list, m, i) = a
    BY <1>3, <2>2, <2>3, <2>5, <2>6 DEF NextPart
  <2>8. /\ a.text = r /\ a.confidence = m.confidence + c.confidence /\ a.places = m.places \cup {i}
        /\ a.strings = [m.strings EXCEPT ![i] = c.symbol] /\ a.stopped = m.stopped /\ a.name = m.name
        /\ a \in MatchesOf(list, name)
    <3>1. m.strings \in [1 .. Len(list) -> Symbols] /\ m.confidence \in Nat /\ m.places \in SUBSET (1 .. Len(list))
      BY DEF MatchesOf
    <3>2. [m.strings EXCEPT ![i] = c.symbol] \in [1 .. Len(list) -> Symbols] /\ m.confidence + c.confidence \in Nat
          /\ m.places \cup {i} \in SUBSET (1 .. Len(list))
      BY <2>4, <3>1, SMTT(30)
    <3>3. QED
      BY <2>5, <2>6, <3>2 DEF MatchesOf
  <2>9. Took(list, m, a, i, k)
    BY <2>1, <2>3, <2>5, <2>8 DEF Took
  <2>10. QED
    BY <2>7, <2>8, <2>9
<1>4. QED
  BY <1>1, <1>2, <1>3

\* What a name is looked for with.
Start(list, name) ==
  [text |-> name, confidence |-> 0, stopped |-> FALSE, places |-> {}, name |-> name,
   strings |-> [i \in 1 .. Len(list) |-> list[i][1].symbol]]

(* The characters are passed by or read, one after the other. *)
LEMMA MatchRuns ==
  ASSUME NEW list, ChoiceList(list), NEW name \in Seq(Nat), NEW offset \in 1 .. Len(list)
  PROVE  \E g \in [0 .. Len(list) -> MatchesOf(list, name)] :
           /\ g[0] = Start(list, name) /\ g[Len(list)] = MatchFrom(list, name, offset)
           /\ \A i \in 1 .. Len(list) :
                Passed(g[i - 1], g[i]) \/ \E k : Took(list, g[i - 1], g[i], i, k)
<1> DEFINE n == Len(list)
           S == MatchesOf(list, name)
           one(m, i) == IF i < offset THEN m
                        ELSE IF choices_filter(list[i]) THEN NextPart(list, m, i) ELSE m
           step == [i \in 1 .. n |-> [m \in S |-> one(m, i)]]
           start == Start(list, name)
<1>1. n \in Nat /\ DOMAIN list = 1 .. n
  BY DEF ChoiceList
<1>2. start \in S
  <2>1. ASSUME NEW i \in 1 .. n PROVE list[i][1].symbol \in Symbols
    <3>1. list[i] \in Seq(Found) /\ list[i] # << >>
      BY <2>1 DEF ChoiceList
    <3>2. list[i][1] \in Found
      BY <3>1
    <3>3. QED
      BY <3>2 DEF Found, Symbols
  <2>2. QED
    BY <2>1 DEF Start, MatchesOf
<1>3. ASSUME NEW i \in 1 .. n, NEW m \in S PROVE one(m, i) \in S
  BY NextPartIs
<1>4. \A i \in 1 .. n : step[i] \in [S -> S]
  BY <1>3
<1>5. PICK g : IsRun(n, S, start, step, g)
  <2> HIDE DEF n, S, start, step
  <2> QED
    BY <1>1, <1>2, <1>4, StepsExist
<1>6. g \in [0 .. n -> S] /\ g[0] = start /\ \A i \in 1 .. n : g[i] = step[i][g[i - 1]]
  <2> HIDE DEF n, S, start, step
  <2> QED
    BY <1>5 DEF IsRun
<1>7. ASSUME NEW i \in 1 .. n PROVE g[i] = one(g[i - 1], i) /\ g[i - 1] \in S
  <2>1. i - 1 \in 0 .. n
    BY <1>1
  <2>2. g[i - 1] \in S
    BY <1>6, <2>1
  <2>3. step[i][g[i - 1]] = one(g[i - 1], i)
    <3> HIDE DEF one, S
    <3> QED
      BY <2>2
  <2>4. QED
    BY <1>6, <2>2, <2>3
<1>8. ASSUME NEW i \in 1 .. n PROVE Passed(g[i - 1], g[i]) \/ \E k : Took(list, g[i - 1], g[i], i, k)
  <2>1. PICK m \in S : m = g[i - 1] /\ g[i] = one(m, i)
    BY <1>7
  <2>2. CASE g[i] = NextPart(list, m, i)
    BY <2>1, <2>2, NextPartIs
  <2>3. CASE g[i] = m
    BY <2>1, <2>3 DEF Passed
  <2>4. QED
    BY <2>1, <2>2, <2>3
<1> DEFINE Body(h, i) ==
             IF i < offset THEN start
             ELSE IF choices_filter(list[i]) THEN NextPart(list, h[i - 1], i) ELSE h[i - 1]
           match == CHOOSE h : h = [i \in 0 .. Len(list) |-> Body(h, i)]
<1>9. MatchFrom(list, name, offset) = match[n]
  BY <1>1 DEF MatchFrom, Start
<1>10. \A i \in 0 .. n : i < offset => g[i] = start
  <2> DEFINE T == {i \in 0 .. n : i < offset => g[i] = start}
  <2>1. 0 \in T /\ 0 \in Nat
    BY <1>1, <1>6
  <2>2. ASSUME NEW i \in 0 .. n - 1, i \in T PROVE i + 1 \in T
    <3>1. i + 1 \in 1 .. n /\ i + 1 \in 0 .. n /\ i + 1 - 1 = i /\ (i + 1 < offset => i < offset)
      BY <1>1
    <3>2. g[i + 1] = one(g[i], i + 1)
      BY <1>7, <3>1
    <3>3. i + 1 < offset => g[i + 1] = g[i]
      BY <3>2
    <3> HIDE DEF one, start
    <3>4. QED
      BY <2>2, <3>1, <3>3
  <2>3. \A i \in 0 .. n : i \in T
    <3> HIDE DEF T, n
    <3> QED
      BY <1>1, <2>1, <2>2, UpTo
  <2>4. QED
    BY <2>3
<1>11. ASSUME NEW i \in 0 .. n PROVE g[i] = Body(g, i)
  <2>1. CASE i < offset
    BY <1>10, <2>1
  <2>2. CASE ~(i < offset)
    <3>1. i \in 1 .. n
      BY <1>1, <2>2
    <3>2. g[i] = one(g[i - 1], i)
      BY <1>7, <3>1
    <3>3. QED
      BY <2>2, <3>2
  <2>3. QED
    BY <2>1, <2>2
<1>12. g = [i \in 0 .. Len(list) |-> Body(g, i)]
  <2> HIDE DEF Body
  <2> QED
    BY <1>6, <1>11
<1>13. PICK F : F = match /\ F = [i \in 0 .. Len(list) |-> Body(F, i)]
  <2> HIDE DEF Body
  <2> QED
    BY <1>12
<1>14. \A i \in 0 .. n : F[i] = g[i]
  <2> HIDE DEF match
  <2> DEFINE T == {i \in 0 .. n : F[i] = g[i]}
  <2>0. \A i \in 0 .. n : F[i] = Body(F, i) /\ g[i] = Body(g, i)
    <3> HIDE DEF Body
    <3> QED
      BY <1>11, <1>13
  <2>1. 0 \in T /\ 0 \in Nat
    <3>1. 0 \in 0 .. n /\ 0 < offset
      BY <1>1
    <3>2. F[0] = Body(F, 0) /\ g[0] = Body(g, 0)
      BY <2>0, <3>1
    <3>3. QED
      BY <3>1, <3>2
  <2>2. ASSUME NEW i \in 0 .. n - 1, i \in T PROVE i + 1 \in T
    <3>1. PICK j \in 0 .. n : j = i + 1 /\ j - 1 = i
      BY <1>1
    <3>2. F[j - 1] = g[j - 1]
      BY <2>2, <3>1
    <3>3. Body(F, j) = Body(g, j)
      BY <3>2
    <3>4. F[j] = g[j]
      <4> HIDE DEF Body
      <4> QED
        BY <2>0, <3>3
    <3>5. QED
      BY <3>1, <3>4
  <2>3. \A i \in 0 .. n : i \in T
    <3> HIDE DEF T, n
    <3> QED
      BY <1>1, <2>1, <2>2, UpTo
  <2>4. QED
    BY <2>3
<1>15. g[n] = MatchFrom(list, name, offset)
  BY <1>1, <1>9, <1>13, <1>14
<1>16. QED
  BY <1>6, <1>8, <1>15

\* How a match m of a name has come about: g tells what has been read after each character,
\* pick the choices that have been taken.
ReadBy(list, name, m, g, pick) ==
  /\ g \in [0 .. Len(list) -> MatchesOf(list, name)]
  /\ g[0].text = name /\ g[0].confidence = 0 /\ g[Len(list)] = m
  /\ \A i \in 1 .. Len(list) : i \notin m.places =>
       g[i].text = g[i - 1].text /\ g[i].confidence = g[i - 1].confidence
  /\ \A i \in m.places :
       /\ pick[i] \in DOMAIN list[i] /\ m.strings[i] = list[i][pick[i]].symbol
       /\ starts_with(g[i - 1].text, m.strings[i])
       /\ \A l \in DOMAIN list[i] : starts_with(g[i - 1].text, list[i][l].symbol) => l <= pick[i]
       /\ g[i - 1].text = m.strings[i] \o g[i].text
       /\ g[i].confidence = g[i - 1].confidence + list[i][pick[i]].confidence

(* What a match consists of is what has been read for it, character by character. *)
LEMMA MatchParts ==
  ASSUME NEW list, ChoiceList(list), NEW name \in Seq(Nat), NEW offset \in 1 .. Len(list)
  PROVE  LET m == MatchFrom(list, name, offset)
         IN  m \in MatchesOf(list, name) /\ \E g, pick : ReadBy(list, name, m, g, pick)
<1> DEFINE n == Len(list)
           S == MatchesOf(list, name)
<1>1. n \in Nat
  BY DEF ChoiceList
<1>2. PICK g \in [0 .. n -> S] :
        /\ g[0] = Start(list, name) /\ g[n] = MatchFrom(list, name, offset)
        /\ \A i \in 1 .. n : Passed(g[i - 1], g[i]) \/ \E k : Took(list, g[i - 1], g[i], i, k)
  BY MatchRuns
<1>3. PICK m : m = MatchFrom(list, name, offset) /\ m = g[n]
  BY <1>2
<1>4. \A i \in 0 .. n : g[i] \in S /\ g[i].places \in SUBSET (1 .. n) /\ g[i].strings \in [1 .. n -> Symbols]
  BY <1>2 DEF MatchesOf
<1>5. \A i \in 0 .. n : g[i].places \in SUBSET (1 .. i)
  <2> DEFINE T == {i \in 0 .. n : g[i].places \in SUBSET (1 .. i)}
  <2>1. 0 \in T /\ 0 \in Nat
    BY <1>1, <1>2 DEF Start
  <2>2. ASSUME NEW i \in 0 .. n - 1, i \in T PROVE i + 1 \in T
    <3>1. PICK j \in 1 .. n : j = i + 1 /\ j - 1 = i /\ j \in 0 .. n
      BY <1>1
    <3>2. g[j].places = g[i].places \/ g[j].places = g[i].places \cup {j}
      BY <1>2, <3>1 DEF Passed, Took
    <3>3. 1 .. i \in SUBSET (1 .. j) /\ j \in 1 .. j
      BY <3>1
    <3>4. QED
      BY <2>2, <3>1, <3>2, <3>3
  <2>3. \A i \in 0 .. n : i \in T
    <3> HIDE DEF T, n
    <3> QED
      BY <1>1, <2>1, <2>2, UpTo
  <2>4. QED
    BY <2>3
<1>6. \A i \in 0 .. n : m.places \cap (1 .. i) = g[i].places /\ \A j \in 1 .. i : m.strings[j] = g[i].strings[j]
  <2> DEFINE Kept(i) == m.places \cap (1 .. i) = g[i].places /\ \A j \in 1 .. i : m.strings[j] = g[i].strings[j]
             T == {i \in 0 .. n : Kept(i)}
  <2>1. n \in T /\ 0 \in Nat
    <3>1. n \in 0 .. n
      BY <1>1
    <3>2. g[n].places \in SUBSET (1 .. n)
      BY <1>5, <3>1
    <3>3. QED
      BY <1>3, <3>1, <3>2
  <2>2. ASSUME NEW i \in 0 .. n - 1, i + 1 \in T PROVE i \in T
    <3>1. PICK j \in 1 .. n : j = i + 1 /\ j - 1 = i /\ j \in 0 .. n /\ i \in 0 .. n
      BY <1>1
    <3>2. g[j].places = g[i].places \/ g[j].places = g[i].places \cup {j}
      BY <1>2, <3>1 DEF Passed, Took
    <3>3. \A k \in 1 .. i : g[j].strings[k] = g[i].strings[k]
      <4>1. SUFFICES ASSUME NEW k \in 1 .. i PROVE g[j].strings[k] = g[i].strings[k]
        OBVIOUS
      <4>2. k \in 1 .. n /\ k # j /\ g[i].strings \in [1 .. n -> Symbols]
        BY <1>4, <3>1
      <4>3. g[j].strings = g[i].strings \/ \E x : g[j].strings = [g[i].strings EXCEPT ![j] = x]
        <5>1. CASE Passed(g[i], g[j])
          BY <5>1 DEF Passed
        <5>2. ASSUME NEW l, Took(list, g[i], g[j], j, l)
              PROVE  \E x : g[j].strings = [g[i].strings EXCEPT ![j] = x]
          BY <5>2 DEF Took
        <5>3. QED
          BY <1>2, <3>1, <5>1, <5>2
      <4>4. QED
        BY <4>2, <4>3
    <3>4. g[i].places \in SUBSET (1 .. i) /\ j \notin 1 .. i /\ \A k : k \in 1 .. i => k \in 1 .. j
      BY <1>5, <3>1
    <3>5. Kept(j)
      BY <2>2, <3>1
    <3>6. m.places \cap (1 .. i) = g[i].places
      BY <3>2, <3>4, <3>5
    <3>7. \A k \in 1 .. i : m.strings[k] = g[i].strings[k]
      BY <3>3, <3>4, <3>5
    <3>8. QED
      BY <3>1, <3>6, <3>7
  <2>3. \A i \in 0 .. n : i \in T
    <3> HIDE DEF T, n
    <3> QED
      BY <1>1, <2>1, <2>2, DownTo
  <2>4. QED
    BY <2>3
<1>7. ASSUME NEW i \in 1 .. n
      PROVE  IF i \in m.places THEN \E k : Took(list, g[i - 1], g[i], i, k) ELSE Passed(g[i - 1], g[i])
  <2>1. i - 1 \in 0 .. n /\ i \in 0 .. n /\ i \notin 1 .. i - 1 /\ i \in 1 .. i
    BY <1>1
  <2>2. i \notin g[i - 1].places /\ (i \in m.places <=> i \in g[i].places)
    BY <1>5, <1>6, <2>1
  <2>3. Passed(g[i - 1], g[i]) => i \notin m.places
    BY <2>2 DEF Passed
  <2>4. \A k : Took(list, g[i - 1], g[i], i, k) => i \in m.places
    BY <2>2 DEF Took
  <2>5. QED
    BY <1>2, <2>3, <2>4
<1> DEFINE pick == [i \in 1 .. n |-> CHOOSE k : Took(list, g[i - 1], g[i], i, k)]
<1>8. ASSUME NEW i \in 1 .. n, i \in m.places
      PROVE  Took(list, g[i - 1], g[i], i, pick[i]) /\ m.strings[i] = list[i][pick[i]].symbol
  <2>1. PICK k : k = pick[i] /\ Took(list, g[i - 1], g[i], i, k)
    BY <1>7, <1>8
  <2>2. i - 1 \in 0 .. n /\ i \in 0 .. n /\ i \in 1 .. i
    BY <1>1, SMTT(30)
  <2>3. g[i].strings = [g[i - 1].strings EXCEPT ![i] = list[i][k].symbol] /\ g[i - 1].strings \in [1 .. n -> Symbols]
    BY <1>4, <2>1, <2>2 DEF Took
  <2>4. g[i].strings[i] = list[i][k].symbol
    BY <2>3
  <2>5. m.strings[i] = g[i].strings[i]
    BY <1>6, <2>2
  <2>6. QED
    BY <2>1, <2>4, <2>5
<1>9. m \in S /\ m.places \in SUBSET (1 .. n)
  BY <1>1, <1>3, <1>4
<1>10. ReadBy(list, name, m, g, pick)
  <2> HIDE DEF pick
  <2>1. g[0].text = name /\ g[0].confidence = 0
    BY <1>2 DEF Start
  <2>2. \A i \in 1 .. n : i \notin m.places =>
          g[i].text = g[i - 1].text /\ g[i].confidence = g[i - 1].confidence
    BY <1>7 DEF Passed
  <2>3. \A i \in m.places :
          /\ pick[i] \in DOMAIN list[i] /\ m.strings[i] = list[i][pick[i]].symbol
          /\ starts_with(g[i - 1].text, m.strings[i])
          /\ \A l \in DOMAIN list[i] : starts_with(g[i - 1].text, list[i][l].symbol) => l <= pick[i]
          /\ g[i - 1].text = m.strings[i] \o g[i].text
          /\ g[i].confidence = g[i - 1].confidence + list[i][pick[i]].confidence
    <3>1. SUFFICES ASSUME NEW i \in m.places
          PROVE  /\ pick[i] \in DOMAIN list[i] /\ m.strings[i] = list[i][pick[i]].symbol
                 /\ starts_with(g[i - 1].text, m.strings[i])
                 /\ \A l \in DOMAIN list[i] : starts_with(g[i - 1].text, list[i][l].symbol) => l <= pick[i]
                 /\ g[i - 1].text = m.strings[i] \o g[i].text
                 /\ g[i].confidence = g[i - 1].confidence + list[i][pick[i]].confidence
      OBVIOUS
    <3>2. i \in 1 .. n
      BY <1>9
    <3>3. QED
      BY <1>8, <3>2 DEF Took
  <2>4. QED
    BY <1>2, <1>3, <2>1, <2>2, <2>3 DEF ReadBy
<1>11. QED
  <2> HIDE DEF pick, S
  <2>1. m \in MatchesOf(list, name)
    BY <1>9 DEF S
  <2>2. QED
    BY <1>3, <1>10, <2>1

(* The name of a match stands at its places. *)
LEMMA MatchSpelled ==
  ASSUME NEW list, ChoiceList(list), NEW name \in Seq(Nat), NEW m \in MatchesOf(list, name),
         NEW g, NEW pick, ReadBy(list, name, m, g, pick), m.text = << >>
  PROVE  Spelled(m)
<1> DEFINE n == Len(list)
           parts == [i \in 1 .. n |-> IF i \in m.places THEN m.strings[i] ELSE << >>]
<1>1. n \in Nat /\ m.strings \in [1 .. n -> Symbols] /\ m.name = name /\ DOMAIN m.strings = 1 .. n
  BY DEF ChoiceList, MatchesOf
<1>2. parts \in Seq(Seq(Nat)) /\ Len(parts) = n
  <2>1. \A i \in 1 .. n : m.strings[i] \in Seq(Nat)
    BY <1>1 DEF Symbols
  <2>2. QED
    BY <1>1, <2>1
<1>3. PICK f \in [0 .. n -> Seq(Nat)] :
        f[0] = << >> /\ (\A i \in 1 .. n : f[i] = f[i - 1] \o parts[i]) /\ FlattenSeq(parts) = f[n]
  <2> HIDE DEF parts, n
  <2> QED
    BY <1>2, FlattenIs
<1>4. g \in [0 .. n -> MatchesOf(list, name)] /\ g[0].text = name /\ g[n] = m
  BY DEF ReadBy
<1>5. \A i \in 0 .. n : g[i].text \in Seq(Nat)
  BY <1>4 DEF MatchesOf
<1>6. ASSUME NEW i \in 1 .. n PROVE g[i - 1].text = parts[i] \o g[i].text
  <2>1. CASE i \in m.places
    BY <1>6, <2>1 DEF ReadBy
  <2>2. CASE i \notin m.places
    <3>1. g[i].text = g[i - 1].text /\ parts[i] = << >>
      BY <1>6, <2>2 DEF ReadBy
    <3>2. g[i].text \in Seq(Nat)
      BY <1>1, <1>5
    <3>3. << >> \o g[i].text = g[i].text
      BY <3>2
    <3>4. QED
      BY <3>1, <3>3
  <2>3. QED
    BY <2>1, <2>2
<1> DEFINE T == {i \in 0 .. n : f[i] \o g[i].text = name}
<1>7. 0 \in T /\ 0 \in Nat
  <2>1. 0 \in 0 .. n /\ f[0] = << >> /\ << >> \o name = name
    BY <1>1, <1>3
  <2>2. QED
    BY <1>4, <2>1
<1>8. ASSUME NEW i \in 0 .. n - 1, i \in T PROVE i + 1 \in T
  <2>1. PICK j \in 1 .. n : j = i + 1 /\ j - 1 = i /\ j \in 0 .. n /\ i \in 0 .. n
    BY <1>1
  <2>2. f[j] = f[i] \o parts[j] /\ g[i].text = parts[j] \o g[j].text
    BY <1>3, <1>6, <2>1
  <2>3. PICK a \in Seq(Nat), b \in Seq(Nat), c \in Seq(Nat) : a = f[i] /\ b = parts[j] /\ c = g[j].text
    <3>1. parts[j] \in Seq(Nat)
      BY <1>2
    <3>2. QED
      BY <1>3, <1>5, <2>1, <3>1
  <2>4. (a \o b) \o c = a \o (b \o c)
    <3>1. JoinedAlike(a, b, c)
      BY Associative, SMTT(30)
    <3>2. QED
      BY <3>1 DEF JoinedAlike
  <2>5. f[j] \o g[j].text = f[i] \o g[i].text
    BY <2>2, <2>3, <2>4
  <2>6. QED
    BY <1>8, <2>1, <2>5
<1>9. \A i \in 0 .. n : i \in T
  <2> HIDE DEF T, n
  <2> QED
    BY <1>1, <1>7, <1>8, UpTo
<1>10. f[n] \o << >> = name /\ f[n] \in Seq(Nat)
  <2>1. n \in 0 .. n
    BY <1>1
  <2>2. QED
    BY <1>3, <1>4, <1>9, <2>1
<1>11. f[n] = name
  <2>1. f[n] \o << >> = f[n]
    BY <1>10
  <2>2. QED
    BY <1>10, <2>1
<1>12. QED
  BY <1>1, <1>3, <1>11 DEF Spelled

(* A match that is part of another one is not tried before it. *)
LEMMA PartIsLater ==
  ASSUME NEW list, ChoiceList(list), NEW name, NEW long,
         NEW m \in MatchesOf(list, name), NEW g, NEW pick, ReadBy(list, name, m, g, pick),
         NEW other \in MatchesOf(list, long), NEW h, NEW take, ReadBy(list, long, other, h, take),
         PartOf(m, other)
  PROVE  ~Earlier(m, other) /\ (Earlier(other, m) \/ Doubtful(list, other, m))
<1> DEFINE n == Len(list)
<1>1. /\ n \in Nat /\ \A i \in 1 .. n : list[i] \in Seq(Found)
      /\ m.places \in SUBSET (1 .. n) /\ other.places \in SUBSET (1 .. n)
      /\ m.confidence \in Nat /\ other.confidence \in Nat
  BY DEF ChoiceList, MatchesOf
<1>2. \A i \in 0 .. n : g[i].confidence \in Nat /\ h[i].confidence \in Nat
  <2>1. g \in [0 .. n -> MatchesOf(list, name)] /\ h \in [0 .. n -> MatchesOf(list, long)]
    BY DEF ReadBy
  <2>2. QED
    BY <2>1 DEF MatchesOf
<1>3. ASSUME NEW i \in other.places
      PROVE  take[i] \in DOMAIN list[i] /\ list[i][take[i]] \in Found /\ list[i][take[i]].confidence \in Nat
  <2>1. i \in 1 .. n /\ take[i] \in DOMAIN list[i]
    BY <1>1 DEF ReadBy
  <2>2. list[i][take[i]] \in Found
    BY <1>1, <2>1
  <2>3. QED
    BY <2>1, <2>2 DEF Found
<1>4. ASSUME NEW i \in m.places PROVE pick[i] = take[i] /\ i \in other.places
  <2>1. i \in other.places /\ m.strings[i] = other.strings[i] /\ i \in 1 .. n
    BY <1>1 DEF PartOf
  <2>2. /\ pick[i] \in DOMAIN list[i] /\ m.strings[i] = list[i][pick[i]].symbol
        /\ starts_with(g[i - 1].text, m.strings[i])
        /\ \A l \in DOMAIN list[i] : starts_with(g[i - 1].text, list[i][l].symbol) => l <= pick[i]
    BY DEF ReadBy
  <2>3. /\ take[i] \in DOMAIN list[i] /\ other.strings[i] = list[i][take[i]].symbol
        /\ starts_with(h[i - 1].text, other.strings[i])
        /\ \A l \in DOMAIN list[i] : starts_with(h[i - 1].text, list[i][l].symbol) => l <= take[i]
    BY <2>1 DEF ReadBy
  <2>4. take[i] <= pick[i] /\ pick[i] <= take[i]
    BY <2>1, <2>2, <2>3
  <2>5. DOMAIN list[i] \in SUBSET Nat
    BY <1>1, <2>1
  <2>6. QED
    BY <2>1, <2>2, <2>3, <2>4, <2>5
<1>5. ASSUME NEW i \in 1 .. n
      PROVE  \E x \in Nat : /\ h[i].confidence - g[i].confidence = (h[i - 1].confidence - g[i - 1].confidence) + x
                            /\ i \in other.places \ m.places => x = list[i][take[i]].confidence
  <2>0. i - 1 \in 0 .. n /\ i \in 0 .. n
    BY <1>1
  <2>1. CASE i \notin other.places
    <3>1. i \notin m.places
      BY <1>4, <2>1
    <3>2. g[i].confidence = g[i - 1].confidence /\ h[i].confidence = h[i - 1].confidence
      BY <2>1, <3>1 DEF ReadBy
    <3>3. h[i].confidence - g[i].confidence = (h[i - 1].confidence - g[i - 1].confidence) + 0
      BY <1>2, <2>0, <3>2
    <3>4. QED
      BY <2>1, <3>3
  <2>2. CASE i \in m.places
    <3>1. PICK x \in Nat : x = list[i][take[i]].confidence
      BY <1>3, <1>4, <2>2
    <3>2. g[i].confidence = g[i - 1].confidence + x
      BY <1>4, <2>2, <3>1 DEF ReadBy
    <3>3. h[i].confidence = h[i - 1].confidence + x
      BY <1>4, <2>2, <3>1 DEF ReadBy
    <3>4. h[i].confidence - g[i].confidence = (h[i - 1].confidence - g[i - 1].confidence) + 0
      BY <1>2, <2>0, <3>2, <3>3
    <3>5. QED
      BY <2>2, <3>4
  <2>3. CASE i \in other.places /\ i \notin m.places
    <3>1. PICK x \in Nat : x = list[i][take[i]].confidence
      BY <1>3, <2>3
    <3>2. g[i].confidence = g[i - 1].confidence /\ h[i].confidence = h[i - 1].confidence + x
      BY <2>3, <3>1 DEF ReadBy
    <3>3. h[i].confidence - g[i].confidence = (h[i - 1].confidence - g[i - 1].confidence) + x
      BY <1>2, <2>0, <3>2
    <3>4. QED
      BY <3>1, <3>3
  <2>4. QED
    BY <2>1, <2>2, <2>3
<1>6. ASSUME NEW e \in 0 .. n, NEW d \in Int, h[e].confidence - g[e].confidence >= d
      PROVE  \A i \in e .. n : h[i].confidence - g[i].confidence >= d
  <2> DEFINE T == {i \in e .. n : h[i].confidence - g[i].confidence >= d}
  <2>1. e \in T /\ e \in Nat
    BY <1>1, <1>6
  <2>2. ASSUME NEW i \in e .. n - 1, i \in T PROVE i + 1 \in T
    <3>1. PICK j \in 1 .. n : j = i + 1 /\ j - 1 = i /\ j \in 0 .. n /\ i \in 0 .. n /\ j \in e .. n
      BY <1>1
    <3>2. PICK x \in Nat : h[j].confidence - g[j].confidence = (h[i].confidence - g[i].confidence) + x
      BY <1>5, <3>1
    <3>3. h[i].confidence - g[i].confidence >= d
      BY <2>2
    <3>4. h[j].confidence - g[j].confidence >= d
      BY <1>2, <3>1, <3>2, <3>3
    <3>5. QED
      BY <3>1, <3>4
  <2>3. \A i \in e .. n : i \in T
    <3> HIDE DEF T, n
    <3> QED
      BY <1>1, <2>1, <2>2, UpTo
  <2>4. QED
    BY <2>3
<1>7. /\ n \in 0 .. n /\ 0 \in 0 .. n /\ g[0].confidence = 0 /\ h[0].confidence = 0
      /\ g[n].confidence = m.confidence /\ h[n].confidence = other.confidence
  BY <1>1 DEF ReadBy
<1>8. ~Earlier(m, other)
  <2>1. h[0].confidence - g[0].confidence >= 0
    BY <1>7
  <2>2. n \in 0 .. n
    BY <1>1
  <2>3. h[n].confidence - g[n].confidence >= 0
    BY <1>6, <1>7, <2>1, <2>2
  <2>4. QED
    BY <1>1, <1>7, <2>3 DEF Earlier
<1>9. ASSUME ~Doubtful(list, other, m) PROVE Earlier(other, m)
  <2>1. PICK e \in other.places \ m.places : Choice(other.strings[e], 0) \notin ToSet(list[e])
    BY <1>9 DEF Doubtful
  <2>2. e \in 1 .. n /\ e \in 0 .. n /\ e - 1 \in 0 .. n /\ 0 \in Nat /\ n \in e .. n /\ e - 1 \in 0 .. e - 1
    BY <1>1
  <2>3. PICK c \in Found : c = list[e][take[e]] /\ take[e] \in DOMAIN list[e] /\ other.strings[e] = c.symbol
    BY <1>3, <2>1 DEF ReadBy
  <2>4. c \in ToSet(list[e])
    BY <2>3 DEF ToSet
  <2>5. c.confidence # 0 /\ c.confidence \in Nat
    <3>1. c = Choice(c.symbol, c.confidence) /\ c.confidence \in Nat
      BY DEF Choice, Found
    <3>2. QED
      BY <2>1, <2>3, <2>4, <3>1
  <2>6. h[e - 1].confidence - g[e - 1].confidence >= 0
    <3>1. h[0].confidence - g[0].confidence >= 0 /\ 0 \in 0 .. n /\ 0 \in Int /\ e - 1 \in 0 .. n
      BY <1>7, <2>2
    <3>2. \A i \in 0 .. n : h[i].confidence - g[i].confidence >= 0
      BY <1>6, <3>1
    <3>3. QED
      BY <3>1, <3>2
  <2>7. h[e].confidence - g[e].confidence >= 1
    <3>1. h[e].confidence - g[e].confidence = (h[e - 1].confidence - g[e - 1].confidence) + c.confidence
      BY <1>5, <2>1, <2>2, <2>3
    <3>2. QED
      BY <1>2, <2>2, <2>5, <2>6, <3>1
  <2>8. h[n].confidence - g[n].confidence >= 1
    BY <1>6, <2>2, <2>7
  <2>9. QED
    BY <1>1, <1>7, <2>8 DEF Earlier
<1>10. QED
  BY <1>8, <1>9

(* The first of the nearest bytes can be told. *)
LEMMA FirstOfNearest ==
  ASSUME NEW n \in Nat \ {0}, NEW d \in [1 .. n -> Nat]
  PROVE  /\ min_distance_index(d) \in 1 .. n
         /\ \A j \in 1 .. n :
              d[min_distance_index(d)] < d[j] \/ (d[min_distance_index(d)] = d[j] /\ min_distance_index(d) <= j)
<1> DEFINE Values == {d[i] : i \in 1 .. n}
<1>1. PICK v \in Values : \A w \in Values : v <= w
  <2>1. Values \in SUBSET Nat /\ d[1] \in Values
    OBVIOUS
  <2> HIDE DEF Values
  <2>2. QED
    BY <2>1, MinOfNumbers
<1> DEFINE Nearest == {i \in 1 .. n : d[i] = v}
<1>2. PICK i \in Nearest : \A j \in Nearest : i <= j
  <2>1. Nearest \in SUBSET Nat /\ Nearest # {}
    OBVIOUS
  <2> HIDE DEF Nearest
  <2>2. QED
    BY <2>1, MinOfNumbers
<1>3. ASSUME NEW j \in 1 .. n PROVE d[i] < d[j] \/ (d[i] = d[j] /\ i <= j)
  <2>1. d[i] = v /\ v <= d[j] /\ d[i] \in Nat /\ d[j] \in Nat
    BY <1>1, <1>2
  <2>2. CASE d[j] = v
    BY <1>2, <2>1, <2>2
  <2>3. CASE d[j] # v
    BY <2>1, <2>3
  <2>4. QED
    BY <2>2, <2>3
<1>4. i \in DOMAIN d /\ DOMAIN d = 1 .. n
  BY <1>2
<1>5. QED
  BY <1>3, <1>4 DEF min_distance_index

(* The cursor is at the begin of a character. *)
LEMMA CursorAtCharacter ==
  ASSUME NEW n \in Nat, NEW m, m.strings \in [1 .. n -> Symbols], NEW distance \in [1 .. n -> Nat],
         NEW data \in position_data(m, distance)
  PROVE  AtCharacter(data, distance)
<1> DEFINE Values == (1 .. n) \X Nat
           strings == m.strings
           s == [i \in 1 .. n |-> [k \in DOMAIN strings[i] |-> <<i, strings[i][k]>>]]
<1>1. ASSUME NEW i \in 1 .. n PROVE [k \in DOMAIN strings[i] |-> <<i, strings[i][k]>>] \in Seq(Values)
  <2>1. strings[i] \in Seq(Nat)
    BY DEF Symbols
  <2>2. PICK t \in Seq(Nat) : t = strings[i]
    BY <2>1
  <2>3. [k \in 1 .. Len(t) |-> <<i, t[k]>>] \in Seq(Values) /\ DOMAIN t = 1 .. Len(t)
    BY <2>2
  <2>4. QED
    BY <2>2, <2>3
<1>2. s \in Seq(Seq(Values)) /\ indexed_chars(m) = FlattenSeq(s)
  <2>1. DOMAIN m.strings = 1 .. n
    OBVIOUS
  <2>2. s \in Seq(Seq(Values))
    <3> DEFINE e(i) == [k \in DOMAIN strings[i] |-> <<i, strings[i][k]>>]
    <3>1. \A i \in 1 .. n : e(i) \in Seq(Values)
      BY <1>1
    <3> HIDE DEF e, Values
    <3>2. [i \in 1 .. n |-> e(i)] \in Seq(Seq(Values))
      BY <3>1
    <3>3. QED
      BY <3>2 DEF e
  <2>3. QED
    BY <2>1, <2>2 DEF indexed_chars
<1>3. PICK chars \in Seq(Values) : chars = indexed_chars(m)
  <2> HIDE DEF s, Values
  <2>1. PICK f \in [0 .. Len(s) -> Seq(Values)] : FlattenSeq(s) = f[Len(s)]
    BY <1>2, FlattenIs
  <2>2. Len(s) \in 0 .. Len(s)
    BY <1>2
  <2>3. QED
    BY <1>2, <2>1, <2>2
<1> DEFINE places == [k \in DOMAIN chars |-> chars[k][1]]
           d == [k \in DOMAIN chars |-> distance[chars[k][1]]]
<1>4. /\ chars # << >> /\ data.char_data = places
      /\ data.cursor_character_index = min_distance_index(d)
  BY <1>3 DEF position_data
<1>5. Len(chars) \in Nat \ {0} /\ DOMAIN chars = 1 .. Len(chars)
  BY <1>4
<1>6. d \in [1 .. Len(chars) -> Nat] /\ places \in [1 .. Len(chars) -> 1 .. n]
      /\ \A k \in 1 .. Len(chars) : d[k] = distance[places[k]]
  <2>1. ASSUME NEW k \in 1 .. Len(chars) PROVE chars[k][1] \in 1 .. n
    <3>1. chars[k] \in Values
      BY <1>5
    <3>2. QED
      BY <3>1
  <2>2. QED
    BY <1>5, <2>1
<1>7. PICK i : i = min_distance_index(d) /\ i \in 1 .. Len(chars)
               /\ \A j \in 1 .. Len(chars) : d[i] < d[j] \/ (d[i] = d[j] /\ i <= j)
  <2> HIDE DEF d
  <2> QED
    BY <1>5, <1>6, FirstOfNearest
<1> HIDE DEF d, places
<1>8. data.cursor_character_index = i /\ DOMAIN data.char_data = 1 .. Len(chars)
  BY <1>4, <1>6, <1>7
<1>9. i = 1 \/ places[i - 1] # places[i]
  <2>1. SUFFICES ASSUME i # 1, places[i - 1] = places[i] PROVE FALSE
    OBVIOUS
  <2>2. PICK j \in 1 .. Len(chars) : j = i - 1 /\ ~(i <= j)
    <3>1. PICK l \in Nat : l = Len(chars)
      BY <1>5
    <3>2. i \in 1 .. l /\ i # 1
      BY <1>7, <2>1, <3>1
    <3>3. i - 1 \in 1 .. l /\ ~(i <= i - 1)
      BY <3>2
    <3>4. QED
      BY <3>1, <3>3
  <2>3. d[j] = d[i] /\ d[i] \in Nat
    <3>1. i \in 1 .. Len(chars)
      BY <1>7
    <3>2. places[j] = places[i]
      BY <2>1, <2>2
    <3>3. QED
      BY <1>6, <3>1, <3>2
  <2>4. d[i] < d[j] \/ i <= j
    BY <1>7
  <2>5. QED
    BY <2>2, <2>3, <2>4, SMTT(30)
<1>10. ASSUME NEW k \in 1 .. Len(chars) PROVE distance[places[i]] <= distance[places[k]]
  <2>1. d[i] < d[k] \/ d[i] = d[k]
    BY <1>7
  <2>2. PICK x \in Nat, y \in Nat : /\ x = d[i] /\ y = d[k]
                                   /\ x = distance[places[i]] /\ y = distance[places[k]]
    BY <1>6, <1>7
  <2>3. x < y \/ x = y
    BY <2>1, <2>2
  <2>4. x <= y
    BY <2>3
  <2>5. QED
    BY <2>2, <2>4
<1>11. QED
  BY <1>4, <1>8, <1>9, <1>10 DEF AtCharacter

-----------------------------------------------------------------------------
(* The characters of what a match is read as                                 *)
CharData == [char : Seq(Nat), category : {Categories[n] : n \in DOMAIN Categories}]

\* A character stands at place i of a text.
StandsAt(text, i, c) == Len(c) <= Len(text) - i + 1 /\ \A j \in 1 .. Len(c) : text[i + j - 1] = c[j]

\* The characters of the n-th category there could be at place i.
Possible(text, i, n) == IF n = 6 THEN {<<text[i]>>} ELSE ListOf[Categories[n]]

(* Part of a text is a character if the character stands there. *)
LEMMA PartStands ==
  ASSUME NEW text \in Seq(Nat), NEW i \in 1 .. Len(text), NEW c \in Seq(Nat)
  PROVE  /\ \A list : c \in ListContains(list, text, i) <=> c \in list /\ StandsAt(text, i, c)
         /\ starts_with(From(text, i), c) <=> StandsAt(text, i, c)
<1> DEFINE left == Len(text) - i + 1
           part(l) == SubSeq(text, i, i + l - 1)
<1>1. left \in Nat /\ left >= 1 /\ Len(c) \in Nat /\ i \in Nat /\ Len(text) \in Nat
  OBVIOUS
<1>2. ASSUME NEW l \in 0 .. left
      PROVE  part(l) \in Seq(Nat) /\ Len(part(l)) = l /\ \A j \in 1 .. l : part(l)[j] = text[i + j - 1]
  <2>1. i + l - 1 \in Int /\ i + l - 1 <= Len(text) /\ i + l - 1 - i + 1 = l /\ l \in Nat
    BY <1>1
  <2>2. \A j \in i .. i + l - 1 : j \in 1 .. Len(text)
    BY <1>1, <2>1
  <2>3. QED
    BY <1>1, <2>1, <2>2
<1>3. ASSUME NEW l \in 0 .. left, Len(c) = l PROVE part(l) = c <=> \A j \in 1 .. Len(c) : text[i + j - 1] = c[j]
  <2>1. PICK p \in Seq(Nat) : p = part(l) /\ Len(p) = l /\ \A j \in 1 .. l : p[j] = text[i + j - 1]
    BY <1>2
  <2>2. (\A j \in 1 .. Len(c) : p[j] = c[j]) => p = c
    BY <1>3, <2>1, SameSequence
  <2>3. QED
    BY <1>3, <2>1, <2>2
<1>4. ASSUME NEW list PROVE c \in ListContains(list, text, i) <=> c \in list /\ StandsAt(text, i, c)
  <2>1. CASE Len(c) <= left
    <3>1. Len(c) \in 0 .. left
      BY <1>1, <2>1
    <3>2. (IF Len(c) < left THEN Len(c) ELSE left) = Len(c)
      BY <1>1, <2>1
    <3>3. c \in ListContains(list, text, i) <=> c \in list /\ part(Len(c)) = c
      BY <3>2 DEF ListContains, make_substring_view
    <3> HIDE DEF part
    <3>4. QED
      BY <1>3, <2>1, <3>1, <3>3 DEF StandsAt
  <2>2. CASE ~(Len(c) <= left)
    <3>1. (IF Len(c) < left THEN Len(c) ELSE left) = left /\ left \in 0 .. left
      BY <1>1, <2>2
    <3>2. c \in ListContains(list, text, i) => part(left) = c
      BY <3>1 DEF ListContains, make_substring_view
    <3>3. Len(part(left)) = left
      BY <1>2, <3>1
    <3>4. c \notin ListContains(list, text, i)
      <4> HIDE DEF part
      <4> QED
        BY <1>1, <2>2, <3>2, <3>3
    <3>5. QED
      BY <2>2, <3>4 DEF StandsAt
  <2>3. QED
    BY <2>1, <2>2
<1>5. starts_with(From(text, i), c) <=> StandsAt(text, i, c)
  <2>1. left \in 0 .. left /\ i + left - 1 = Len(text)
    BY <1>1
  <2>2. PICK p \in Seq(Nat) : p = From(text, i) /\ Len(p) = left /\ \A j \in 1 .. left : p[j] = text[i + j - 1]
    BY <1>2, <2>1 DEF From
  <2>3. starts_with(p, c) <=> Len(c) <= Len(p) /\ SubSeq(c, 1, Len(c)) = SubSeq(p, 1, Len(c))
    BY DEF starts_with, IsPrefix
  <2>4. SubSeq(c, 1, Len(c)) = c
    OBVIOUS
  <2>5. ASSUME Len(c) <= Len(p) PROVE SubSeq(p, 1, Len(c)) = c <=> \A j \in 1 .. Len(c) : p[j] = c[j]
    <3>1. PICK q : q = SubSeq(p, 1, Len(c))
      OBVIOUS
    <3>2. q \in Seq(Nat) /\ Len(q) = Len(c) /\ \A j \in 1 .. Len(c) : q[j] = p[j]
      BY <1>1, <2>5, <3>1
    <3>3. (\A j \in 1 .. Len(c) : q[j] = c[j]) => q = c
      BY <3>2, SameSequence
    <3>4. QED
      BY <3>1, <3>2, <3>3
  <2>6. ASSUME Len(c) <= left, NEW j \in 1 .. Len(c) PROVE p[j] = text[i + j - 1]
    <3>1. j \in 1 .. left
      BY <1>1, <2>6
    <3>2. QED
      BY <2>2, <3>1
  <2>7. CASE Len(c) <= left
    BY <2>2, <2>3, <2>4, <2>5, <2>6, <2>7 DEF StandsAt
  <2>8. CASE ~(Len(c) <= left)
    BY <2>2, <2>3, <2>8 DEF StandsAt
  <2>9. QED
    BY <2>7, <2>8
<1>6. QED
  BY <1>4, <1>5

(* Characters have bytes, and only the first one of them may begin a symbol. *)
LEMMA PossibleHaveBytes ==
  ASSUME NEW text \in Seq(Nat), NEW i \in 1 .. Len(text), NEW n \in DOMAIN Categories, NEW c \in Possible(text, i, n)
  PROVE  c \in Seq(Nat) /\ Len(c) >= 1 /\ \A j \in 2 .. Len(c) : c[j] \in LaterBytes
<1>1. CASE n = 6
  <2>1. c = <<text[i]>> /\ text[i] \in Nat
    BY <1>1 DEF Possible
  <2>2. c \in Seq(Nat) /\ Len(c) = 1
    BY <2>1
  <2>3. QED
    BY <2>2
<1>2. CASE n # 6
  <2>1. PICK k : k \in DOMAIN ListOf /\ c \in ListOf[k]
    <3>1. n \in 1 .. 6
      BY DEF Categories
    <3>2. n = 1 \/ n = 2 \/ n = 3 \/ n = 4 \/ n = 5
      BY <1>2, <3>1
    <3>3. Categories[n] \in {"letter", "whitespace", "line", "fullstop", "digit"}
      BY <3>2 DEF Categories
    <3>4. Categories[n] \in DOMAIN ListOf
      BY <3>3 DEF ListOf
    <3>5. c \in ListOf[Categories[n]]
      BY <1>2 DEF Possible
    <3>6. QED
      BY <3>4, <3>5
  <2>2. c \in Seq(Nat)
    BY <2>1, CharactersAssumption
  <2>3. "fullstop" \in DOMAIN ListOf /\ <<Fullstop>> \in ListOf["fullstop"]
    BY DEF ListOf
  <2>4. <<Fullstop>> \in Seq(Nat) /\ Len(<<Fullstop>>) = 1
    BY <2>3, CharactersAssumption
  <2>5. IsPrefix(c, <<Fullstop>>) => c = <<Fullstop>>
    BY <2>1, <2>3, CharactersAssumption
  <2>6. c # << >>
    <3>1. SUFFICES ASSUME c = << >> PROVE FALSE
      OBVIOUS
    <3>2. IsPrefix(c, <<Fullstop>>)
      BY <2>4, <3>1 DEF IsPrefix
    <3>3. QED
      BY <2>4, <2>5, <3>1, <3>2
  <2>7. \A j \in 2 .. Len(c) : c[j] \in LaterBytes
    BY <2>1 DEF LaterBytes
  <2>8. QED
    BY <2>2, <2>6, <2>7
<1>3. QED
  BY <1>1, <1>2

(* A character of a category is one that stands there. *)
LEMMA IsCharStands ==
  ASSUME NEW text \in Seq(Nat), NEW i \in 1 .. Len(text), NEW n \in DOMAIN Categories
  PROVE  is_char(text, i, Categories[n]) = {c \in Possible(text, i, n) : StandsAt(text, i, c)}
<1> DEFINE P == {c \in Possible(text, i, n) : StandsAt(text, i, c)}
<1>1. ~(i > Len(text)) /\ n \in 1 .. 6 /\ text[i] \in Nat /\ Len(text) - i + 1 >= 1 /\ i + 1 - 1 = i /\ i \in Nat
  BY DEF Categories
<1>2. \A x \in Nat : <<x>> \in Seq(Nat) /\ Len(<<x>>) = 1 /\ <<x>>[1] = x
  OBVIOUS
<1>3. ASSUME NEW x \in Nat PROVE StandsAt(text, i, <<x>>) <=> text[i] = x
  <2>1. PICK c \in Seq(Nat) : c = <<x>> /\ Len(c) = 1 /\ c[1] = x
    BY <1>2
  <2>2. StandsAt(text, i, c) <=> text[i + 1 - 1] = c[1]
    BY <1>1, <2>1 DEF StandsAt
  <2>3. QED
    BY <1>1, <2>1, <2>2
<1>4. CASE n = 6
  <2>1. is_char(text, i, Categories[n]) = {<<text[i]>>} /\ Possible(text, i, n) = {<<text[i]>>}
    BY <1>1, <1>4 DEF is_char, Categories, Possible
  <2>2. QED
    BY <1>1, <1>3, <2>1
<1>5. CASE n = 5
  <2>1. is_char(text, i, Categories[n]) = is_digit_impl(text, i) /\ Possible(text, i, n) = {<<d>> : d \in Digits}
    BY <1>1, <1>5 DEF is_char, Categories, Possible, ListOf
  <2>2. ASSUME NEW d \in Digits PROVE d \in Nat
    <3>1. "digit" \in DOMAIN ListOf /\ <<d>> \in ListOf["digit"]
      BY DEF ListOf
    <3>2. <<d>> \in Seq(Nat)
      BY <3>1, CharactersAssumption
    <3>3. QED
      BY <3>2
  <2>3. P = {<<d>> : d \in {e \in Digits : text[i] = e}}
    <3>1. \A c \in P : \E d \in {e \in Digits : text[i] = e} : c = <<d>>
      BY <1>3, <2>1, <2>2
    <3>2. \A d \in {e \in Digits : text[i] = e} : <<d>> \in P
      BY <1>3, <2>1, <2>2
    <3>3. QED
      BY <3>1, <3>2
  <2>4. is_digit_impl(text, i) = {<<d>> : d \in {e \in Digits : text[i] = e}}
    BY DEF is_digit_impl
  <2>5. QED
    BY <2>1, <2>3, <2>4
<1>6. CASE n = 4
  <2>1. is_char(text, i, Categories[n]) = is_equal_impl(text, i, <<Fullstop>>) /\ Possible(text, i, n) = {<<Fullstop>>}
    BY <1>1, <1>6 DEF is_char, Categories, Possible, ListOf
  <2>2. "fullstop" \in DOMAIN ListOf /\ <<Fullstop>> \in ListOf["fullstop"]
    BY DEF ListOf
  <2>3. <<Fullstop>> \in Seq(Nat)
    BY <2>2, CharactersAssumption
  <2>4. starts_with(From(text, i), <<Fullstop>>) <=> StandsAt(text, i, <<Fullstop>>)
    BY <2>3, PartStands
  <2>5. QED
    BY <2>1, <2>4 DEF is_equal_impl
<1>7. CASE n \in 1 .. 3
  <2>1. PICK k \in {"letter", "whitespace", "line"} : k = Categories[n]
    BY <1>7 DEF Categories
  <2>2. is_char(text, i, k) = ListContains(ListOf[k], text, i) /\ Possible(text, i, n) = ListOf[k]
    BY <1>1, <1>7, <2>1 DEF is_char, Possible
  <2>3. \A c \in ListOf[k] : c \in Seq(Nat)
    <3>1. k \in DOMAIN ListOf
      BY DEF ListOf
    <3>2. QED
      BY <3>1, CharactersAssumption
  <2>4. \A c \in ListOf[k] : c \in ListContains(ListOf[k], text, i) <=> StandsAt(text, i, c)
    BY <2>3, PartStands
  <2>5. \A c \in ListContains(ListOf[k], text, i) : c \in ListOf[k]
    BY DEF ListContains
  <2>6. ListContains(ListOf[k], text, i) = P
    BY <2>2, <2>4, <2>5
  <2>7. QED
    BY <2>1, <2>2, <2>6
<1>8. QED
  <2>1. n \in 1 .. 3 \/ n = 4 \/ n = 5 \/ n = 6
    BY <1>1
  <2>2. QED
    BY <1>4, <1>5, <1>6, <1>7, <2>1

(* Every place of a text has a character, which ends within the text. *)
LEMMA CharInfoIs ==
  ASSUME NEW text \in Seq(Nat), NEW i \in 1 .. Len(text)
  PROVE  /\ char_info(text, i) # {} /\ char_info(text, i) \in SUBSET CharData
         /\ \A d \in char_info(text, i) : Len(d.char) >= 1 /\ i + Len(d.char) <= Len(text) + 1
<1> DEFINE fits == {n \in DOMAIN Categories : is_char(text, i, Categories[n]) # {}}
<1>1. DOMAIN Categories = 1 .. 6 /\ fits \in SUBSET Nat
  BY DEF Categories
<1>2. 6 \in fits
  <2>1. 6 \in DOMAIN Categories /\ text[i] \in Nat /\ i \in Nat /\ Len(text) - i + 1 >= 1
    BY <1>1
  <2>2. PICK c \in Seq(Nat) : c = <<text[i]>> /\ Len(c) = 1 /\ c[1] = text[i]
    <3>1. \A x \in Nat : <<x>> \in Seq(Nat) /\ Len(<<x>>) = 1 /\ <<x>>[1] = x
      OBVIOUS
    <3>2. QED
      BY <2>1, <3>1
  <2>3. StandsAt(text, i, c)
    <3>1. \A j \in 1 .. 1 : j = 1 /\ i + j - 1 = i
      BY <2>1
    <3>2. QED
      BY <2>1, <2>2, <3>1 DEF StandsAt
  <2>4. c \in Possible(text, i, 6)
    BY <2>2 DEF Possible
  <2>5. QED
    BY <2>1, <2>3, <2>4, IsCharStands
<1>3. PICK n : n = Min(fits) /\ n \in fits
  <2> HIDE DEF fits
  <2> QED
    BY <1>1, <1>2, MinOfNumbers
<1>4. char_info(text, i) = {[char |-> c, category |-> Categories[n]] : c \in is_char(text, i, Categories[n])}
  BY <1>2, <1>3 DEF char_info
<1>5. is_char(text, i, Categories[n]) # {} /\ n \in DOMAIN Categories
  BY <1>3
<1>6. Categories[n] \in {Categories[k] : k \in DOMAIN Categories}
  BY <1>5
<1>7. ASSUME NEW c \in is_char(text, i, Categories[n])
      PROVE  c \in Seq(Nat) /\ Len(c) >= 1 /\ i + Len(c) <= Len(text) + 1
  <2>1. c \in Possible(text, i, n) /\ StandsAt(text, i, c)
    BY <1>5, IsCharStands
  <2>2. c \in Seq(Nat) /\ Len(c) >= 1
    BY <1>5, <2>1, PossibleHaveBytes
  <2>3. Len(c) <= Len(text) - i + 1
    BY <2>1 DEF StandsAt
  <2>4. QED
    BY <2>2, <2>3
<1>8. QED
  <2> HIDE DEF fits
  <2>1. ASSUME NEW d \in char_info(text, i)
        PROVE  d \in CharData /\ Len(d.char) >= 1 /\ i + Len(d.char) <= Len(text) + 1
    <3>1. PICK c \in is_char(text, i, Categories[n]) : d = [char |-> c, category |-> Categories[n]]
      BY <1>4
    <3>2. QED
      BY <1>6, <1>7, <3>1 DEF CharData
  <2>2. char_info(text, i) # {}
    BY <1>4, <1>5
  <2>3. QED
    BY <2>1, <2>2

(* Behind its end there is none. *)
LEMMA NoCharBehind ==
  ASSUME NEW text \in Seq(Nat)
  PROVE  char_info(text, Len(text) + 1) = {}
<1>1. Len(text) + 1 > Len(text)
  OBVIOUS
<1>2. \A n \in DOMAIN Categories : is_char(text, Len(text) + 1, Categories[n]) = {}
  BY <1>1 DEF is_char
<1>3. QED
  BY <1>2 DEF char_info

\* A symbol is the part of a text behind the first o bytes, and the next byte does not
\* continue a character.
IsPartAt(text, o, symbol) ==
  /\ o + Len(symbol) <= Len(text) /\ \A k \in 1 .. Len(symbol) : text[o + k] = symbol[k]
  /\ o + Len(symbol) = Len(text) \/ text[o + Len(symbol) + 1] \notin LaterBytes

(* The symbol has the characters that stand in the text. *)
LEMMA SameCharInfo ==
  ASSUME NEW text \in Seq(Nat), NEW symbol \in Seq(Nat), NEW o \in Nat, IsPartAt(text, o, symbol),
         NEW k \in 1 .. Len(symbol)
  PROVE  char_info(text, o + k) = char_info(symbol, k)
<1>1. /\ o + k \in 1 .. Len(text) /\ k \in Nat /\ Len(text) \in Nat /\ Len(symbol) \in Nat
      /\ o + Len(symbol) <= Len(text) /\ text[o + k] = symbol[k]
  <2>1. Len(text) \in Nat /\ Len(symbol) \in Nat
    OBVIOUS
  <2>2. o + Len(symbol) <= Len(text) /\ text[o + k] = symbol[k]
    BY DEF IsPartAt
  <2>3. k \in Nat /\ o + k \in 1 .. Len(text)
    BY <2>1, <2>2, SMTT(30)
  <2>4. QED
    BY <2>1, <2>2, <2>3
<1>2. ASSUME NEW n \in DOMAIN Categories
      PROVE  is_char(text, o + k, Categories[n]) = is_char(symbol, k, Categories[n])
  <2>1. Possible(text, o + k, n) = Possible(symbol, k, n)
    BY <1>1 DEF Possible
  <2>2. ASSUME NEW c \in Possible(symbol, k, n) PROVE StandsAt(text, o + k, c) <=> StandsAt(symbol, k, c)
    <3>1. c \in Seq(Nat) /\ Len(c) \in Nat /\ \A j \in 2 .. Len(c) : c[j] \in LaterBytes
      BY PossibleHaveBytes
    <3>2. ASSUME NEW j \in 1 .. Len(c), k + j - 1 <= Len(symbol)
          PROVE  text[o + k + j - 1] = symbol[k + j - 1]
      <4>1. PICK i \in 1 .. Len(symbol) : i = k + j - 1 /\ o + i = o + k + j - 1
        <5>1. PICK l \in Nat, p \in Nat, x \in Nat, y \in Nat :
                l = Len(c) /\ p = Len(symbol) /\ x = k /\ y = j /\ x \in 1 .. p /\ y \in 1 .. l /\ x + y - 1 <= p
          <6>1. k \in Nat /\ k \in 1 .. Len(symbol) /\ Len(symbol) \in Nat
            BY <1>1
          <6>2. j \in Nat /\ j \in 1 .. Len(c) /\ k + j - 1 <= Len(symbol)
            BY <3>1, <3>2
          <6>3. QED
            BY <3>1, <6>1, <6>2
        <5>2. x + y - 1 \in 1 .. p /\ o + (x + y - 1) = o + x + y - 1
          BY <5>1
        <5>3. QED
          BY <5>1, <5>2
      <4>2. text[o + i] = symbol[i]
        BY DEF IsPartAt
      <4>3. QED
        BY <4>1, <4>2
    <3>3. CASE Len(c) <= Len(symbol) - k + 1
      <4>1. \A j \in 1 .. Len(c) : k + j - 1 <= Len(symbol)
        BY <1>1, <3>1, <3>3
      <4>2. Len(c) <= Len(text) - (o + k) + 1
        BY <1>1, <3>1, <3>3
      <4>3. \A j \in 1 .. Len(c) : text[o + k + j - 1] = symbol[k + j - 1]
        BY <3>2, <4>1
      <4>4. StandsAt(text, o + k, c) <=> \A j \in 1 .. Len(c) : text[o + k + j - 1] = c[j]
        BY <4>2 DEF StandsAt
      <4>5. StandsAt(symbol, k, c) <=> \A j \in 1 .. Len(c) : symbol[k + j - 1] = c[j]
        BY <3>3 DEF StandsAt
      <4>6. QED
        BY <4>3, <4>4, <4>5
    <3>4. CASE ~(Len(c) <= Len(symbol) - k + 1)
      <4>1. ~StandsAt(symbol, k, c)
        BY <3>4 DEF StandsAt
      <4>2. ~StandsAt(text, o + k, c)
        <5>1. SUFFICES ASSUME StandsAt(text, o + k, c) PROVE FALSE
          OBVIOUS
        <5>2. Len(c) <= Len(text) - (o + k) + 1 /\ \A j \in 1 .. Len(c) : text[o + k + j - 1] = c[j]
          BY <5>1 DEF StandsAt
        <5>3. PICK j \in 2 .. Len(c) : j = Len(symbol) - k + 2
          <6>1. k \in 1 .. Len(symbol)
            OBVIOUS
          <6>2. PICK l \in Nat, p \in Nat, q \in Nat : l = Len(c) /\ p = Len(symbol) /\ q = k /\ q <= p /\ ~(l <= p - q + 1)
            BY <1>1, <3>1, <3>4, <6>1
          <6>3. p - q + 2 \in 2 .. l
            BY <6>2
          <6>4. QED
            BY <6>2, <6>3
        <5>4. j \in 1 .. Len(c) /\ o + k + j - 1 = o + Len(symbol) + 1
          BY <1>1, <3>1, <5>3
        <5>5. text[o + Len(symbol) + 1] = c[j] /\ c[j] \in LaterBytes
          BY <3>1, <5>2, <5>4
        <5>6. o + Len(symbol) # Len(text)
          BY <1>1, <3>1, <3>4, <5>2
        <5>7. QED
          BY <5>5, <5>6 DEF IsPartAt
      <4>3. QED
        BY <4>1, <4>2
    <3>5. QED
      BY <3>3, <3>4
  <2>3. {c \in Possible(text, o + k, n) : StandsAt(text, o + k, c)}
          = {c \in Possible(symbol, k, n) : StandsAt(symbol, k, c)}
    BY <2>1, <2>2
  <2>4. is_char(text, o + k, Categories[n]) = {c \in Possible(text, o + k, n) : StandsAt(text, o + k, c)}
    BY <1>1, IsCharStands
  <2>5. is_char(symbol, k, Categories[n]) = {c \in Possible(symbol, k, n) : StandsAt(symbol, k, c)}
    BY IsCharStands
  <2>6. QED
    BY <2>3, <2>4, <2>5
<1> DEFINE there == {n \in DOMAIN Categories : is_char(text, o + k, Categories[n]) # {}}
           here == {n \in DOMAIN Categories : is_char(symbol, k, Categories[n]) # {}}
<1>3. there = here
  BY <1>2
<1>4. here # {} /\ Min(here) \in DOMAIN Categories
  <2>1. char_info(symbol, k) # {}
    BY CharInfoIs
  <2>2. here # {}
    BY <2>1 DEF char_info
  <2>3. here \in SUBSET Nat
    BY DEF Categories
  <2>4. Min(here) \in here
    <3> HIDE DEF here
    <3> QED
      BY <2>2, <2>3, MinOfNumbers
  <2>5. QED
    BY <2>2, <2>4
<1>5. is_char(text, o + k, Categories[Min(here)]) = is_char(symbol, k, Categories[Min(here)])
  BY <1>2, <1>4
<1>6. char_info(symbol, k) = {[char |-> c, category |-> Categories[Min(here)]] :
                                c \in is_char(symbol, k, Categories[Min(here)])}
  BY <1>4 DEF char_info
<1>7. char_info(text, o + k) = {[char |-> c, category |-> Categories[Min(there)]] :
                                  c \in is_char(text, o + k, Categories[Min(there)])}
  BY <1>3, <1>4 DEF char_info
<1>8. QED
  <2> HIDE DEF here, there
  <2> QED
    BY <1>3, <1>5, <1>6, <1>7

\* The characters of a text from each of its places on.
FirstChar(text, i) == CHOOSE d \in char_info(text, i) : TRUE
CharsFrom(text, r) ==
  /\ r \in [1 .. Len(text) + 1 -> Seq(CharData)] /\ r[Len(text) + 1] = << >>
  /\ \A i \in 1 .. Len(text) : r[i] = <<FirstChar(text, i)>> \o r[i + Len(FirstChar(text, i).char)]

(* The first character of each place. *)
LEMMA FirstCharIs ==
  ASSUME NEW text \in Seq(Nat), NEW i \in 1 .. Len(text)
  PROVE  /\ FirstChar(text, i) \in CharData /\ <<FirstChar(text, i)>> \in Seq(CharData)
         /\ Len(FirstChar(text, i).char) \in Nat /\ Len(FirstChar(text, i).char) >= 1
         /\ i + Len(FirstChar(text, i).char) \in 1 .. Len(text) + 1
<1>1. PICK d : d = FirstChar(text, i)
  OBVIOUS
<1>2. d \in char_info(text, i)
  BY <1>1, CharInfoIs DEF FirstChar
<1>3. d \in CharData /\ Len(d.char) >= 1 /\ i + Len(d.char) <= Len(text) + 1
  BY <1>2, CharInfoIs
<1>4. d.char \in Seq(Nat)
  BY <1>3 DEF CharData
<1>5. Len(d.char) \in Nat /\ i + Len(d.char) \in 1 .. Len(text) + 1
  BY <1>3, <1>4
<1>6. <<d>> \in Seq(CharData)
  BY <1>3
<1>7. QED
  BY <1>1, <1>3, <1>5, <1>6

(* for_each_char() finds them. *)
LEMMA CharsAreThose ==
  ASSUME NEW text \in Seq(Nat)
  PROVE  \E r : CharsFrom(text, r) /\ for_each_char(text) = r[1]
<1> DEFINE l == Len(text)
           S == Seq(CharData)
           first(i) == FirstChar(text, i)
           after(i) == i + Len(first(i).char)
           Good(a, r) == /\ r \in [1 .. l + 1 -> S] /\ r[l + 1] = << >>
                         /\ \A i \in a .. l : r[i] = <<first(i)>> \o r[after(i)]
           b == l + 1
           T == {a \in 1 .. b : \E r : Good(a, r)}
<1>1. l \in Nat /\ 1 \in Nat /\ b \in Nat /\ 1 \in 1 .. l + 1 /\ l + 1 \in 1 .. l + 1 /\ << >> \in S
  OBVIOUS
<1>2. \A i \in 1 .. l : <<first(i)>> \in S /\ after(i) \in 1 .. l + 1 /\ after(i) > i
  <2>1. ASSUME NEW i \in 1 .. l PROVE <<first(i)>> \in S /\ after(i) \in 1 .. l + 1 /\ after(i) > i
    <3>1. <<first(i)>> \in S /\ Len(first(i).char) \in Nat /\ Len(first(i).char) >= 1 /\ after(i) \in 1 .. l + 1
      BY FirstCharIs
    <3>2. QED
      BY <3>1
  <2>2. QED
    BY <2>1
<1>3. b \in T
  <2>1. Good(l + 1, [i \in 1 .. l + 1 |-> << >>])
    <3>1. l + 1 .. l = {}
      BY <1>1
    <3>2. QED
      BY <1>1, <3>1
  <2> HIDE DEF Good
  <2>2. QED
    BY <1>1, <2>1
<1>4. ASSUME NEW a \in 1 .. b - 1, a + 1 \in T PROVE a \in T
  <2>1. PICK r : Good(a + 1, r)
    BY <1>4
  <2>2. a \in 1 .. l /\ a \in 1 .. l + 1 /\ a # l + 1
    BY <1>1
  <2> HIDE DEF first, after, l, S
  <2> DEFINE q == [r EXCEPT ![a] = <<first(a)>> \o r[after(a)]]
  <2>3. r \in [1 .. l + 1 -> S] /\ r[l + 1] = << >> /\ \A i \in a + 1 .. l : r[i] = <<first(i)>> \o r[after(i)]
    BY <2>1
  <2>4. r[after(a)] \in S /\ <<first(a)>> \in S
    BY <1>2, <2>2, <2>3
  <2>5. <<first(a)>> \o r[after(a)] \in S
    BY <2>4 DEF S
  <2>6. q \in [1 .. l + 1 -> S] /\ q[l + 1] = << >> /\ q[a] = <<first(a)>> \o r[after(a)]
        /\ \A i \in 1 .. l + 1 : i # a => q[i] = r[i]
    BY <1>1, <2>2, <2>3, <2>5
  <2>7. ASSUME NEW i \in a .. l PROVE q[i] = <<first(i)>> \o q[after(i)]
    <3>1. i \in 1 .. l /\ after(i) \in 1 .. l + 1 /\ after(i) > i /\ after(i) # a
      <4>1. i \in 1 .. l /\ i >= a /\ a \in Nat
        BY <1>1, <2>2
      <4>2. after(i) \in 1 .. l + 1 /\ after(i) > i
        BY <1>2, <4>1
      <4>3. QED
        BY <4>1, <4>2
    <3>2. q[after(i)] = r[after(i)]
      BY <2>6, <3>1
    <3>3. CASE i = a
      BY <2>6, <3>2, <3>3
    <3>4. CASE i # a
      <4>1. i \in a + 1 .. l /\ i \in 1 .. l + 1
        BY <1>1, <2>2, <3>1, <3>4
      <4>2. QED
        BY <2>3, <2>6, <3>2, <3>4, <4>1
    <3>5. QED
      BY <3>3, <3>4
  <2>8. Good(a, q)
    <3> HIDE DEF q
    <3> QED
      BY <2>6, <2>7
  <2>9. QED
    <3> HIDE DEF Good, q
    <3> QED
      BY <2>2, <2>8
<1>5. \A a \in 1 .. b : a \in T
  <2> HIDE DEF T, b
  <2> QED
    BY <1>1, <1>3, <1>4, DownTo
<1>6. PICK r : Good(1, r)
  <2> HIDE DEF Good
  <2> QED
    BY <1>1, <1>5
<1>7. CharsFrom(text, r)
  BY <1>6 DEF CharsFrom
<1> DEFINE Body(h, i) ==
             IF char_info(text, i) = {} THEN << >>
             ELSE LET data == CHOOSE d \in char_info(text, i) : TRUE
                  IN  <<data>> \o h[i + Len(data.char)]
           rest == CHOOSE h : h = [i \in 1 .. Len(text) + 1 |-> Body(h, i)]
<1>8. for_each_char(text) = rest[1]
  BY DEF for_each_char
<1>9. \A h : /\ \A i \in 1 .. l : Body(h, i) = <<first(i)>> \o h[after(i)]
             /\ Body(h, l + 1) = << >>
  <2>1. ASSUME NEW i \in 1 .. l PROVE char_info(text, i) # {}
    BY CharInfoIs
  <2>2. char_info(text, l + 1) = {}
    BY NoCharBehind
  <2>3. QED
    BY <2>1, <2>2 DEF FirstChar
<1> HIDE DEF Body
<1>10. r = [i \in 1 .. Len(text) + 1 |-> Body(r, i)]
  <2>1. ASSUME NEW i \in 1 .. l + 1 PROVE r[i] = Body(r, i)
    <3>1. CASE i = l + 1
      BY <1>6, <1>9, <3>1
    <3>2. CASE i # l + 1
      <4>1. i \in 1 .. l
        BY <1>1, <3>2
      <4>2. QED
        BY <1>6, <1>9, <4>1
    <3>3. QED
      BY <3>1, <3>2
  <2>2. QED
    BY <1>6, <2>1
<1>11. PICK F : F = rest /\ F = [i \in 1 .. Len(text) + 1 |-> Body(F, i)]
  BY <1>10
<1> HIDE DEF rest, first, after, S
<1> DEFINE U == {a \in 1 .. b : \A i \in a .. l + 1 : F[i] = r[i]}
<1>12. \A a \in 1 .. b : a \in U
  <2>1. \A i \in 1 .. l + 1 : F[i] = Body(F, i)
    BY <1>11
  <2>2. b \in U
    <3>1. F[l + 1] = << >>
      BY <1>1, <1>9, <2>1
    <3>2. \A i \in l + 1 .. l + 1 : i = l + 1
      BY <1>1
    <3>3. QED
      BY <1>1, <1>6, <3>1, <3>2
  <2>3. ASSUME NEW a \in 1 .. b - 1, a + 1 \in U PROVE a \in U
    <3>1. a \in 1 .. l /\ a \in 1 .. l + 1
      BY <1>1
    <3>2. after(a) \in a + 1 .. l + 1
      <4>1. after(a) \in 1 .. l + 1 /\ after(a) > a
        BY <1>2, <3>1
      <4>2. QED
        BY <1>1, <3>1, <4>1
    <3>3. F[after(a)] = r[after(a)]
      BY <2>3, <3>2
    <3>4. F[a] = <<first(a)>> \o F[after(a)] /\ r[a] = <<first(a)>> \o r[after(a)]
      BY <1>6, <1>9, <2>1, <3>1
    <3>5. F[a] = r[a]
      BY <3>3, <3>4
    <3>6. \A i \in a .. l + 1 : i = a \/ i \in a + 1 .. l + 1
      BY <1>1, <3>1
    <3>7. QED
      BY <2>3, <3>1, <3>5, <3>6
  <2>4. QED
    <3> HIDE DEF U, b
    <3> QED
      BY <1>1, <2>2, <2>3, DownTo
<1>13. F[1] = r[1]
  BY <1>1, <1>12
<1>14. QED
  BY <1>7, <1>8, <1>11, <1>13

(* Behind the characters of a symbol that is part of a text come those of the rest. *)
LEMMA CharsOfPart ==
  ASSUME NEW text \in Seq(Nat), NEW symbol \in Seq(Nat), NEW o \in Nat, IsPartAt(text, o, symbol),
         NEW r, CharsFrom(text, r), NEW q, CharsFrom(symbol, q)
  PROVE  r[o + 1] = q[1] \o r[o + Len(symbol) + 1]
<1> DEFINE l == Len(symbol)
           b == l + 1
           S == Seq(CharData)
           R == r[o + l + 1]
           first(k) == FirstChar(symbol, k)
           U == {a \in 1 .. b : \A k \in a .. b : r[o + k] = q[k] \o R}
<1>1. /\ l \in Nat /\ b \in Nat /\ 1 \in Nat /\ 1 \in 1 .. b /\ o + l + 1 \in 1 .. Len(text) + 1 /\ o + b = o + l + 1
      /\ Len(text) \in Nat /\ o + l <= Len(text)
  BY DEF IsPartAt
<1>2. /\ r \in [1 .. Len(text) + 1 -> S] /\ q \in [1 .. b -> S] /\ q[b] = << >> /\ R \in S
      /\ \A k \in 1 .. l : q[k] = <<first(k)>> \o q[k + Len(first(k).char)]
      /\ \A i \in 1 .. Len(text) : r[i] = <<FirstChar(text, i)>> \o r[i + Len(FirstChar(text, i).char)]
  <2>1. r \in [1 .. Len(text) + 1 -> S]
    BY DEF CharsFrom
  <2>2. R \in S
    BY <1>1, <2>1
  <2>3. QED
    BY <2>1, <2>2 DEF CharsFrom
<1> HIDE DEF R, S
<1>3. ASSUME NEW k \in 1 .. l PROVE o + k \in 1 .. Len(text) /\ FirstChar(text, o + k) = first(k)
  <2>1. char_info(text, o + k) = char_info(symbol, k)
    BY SameCharInfo
  <2>2. o + k \in 1 .. Len(text)
    BY <1>1
  <2>3. QED
    BY <2>1, <2>2 DEF FirstChar
<1>4. b \in U
  <2>1. \A k \in b .. b : k = b
    BY <1>1
  <2>2. << >> \o R = R
    BY <1>2 DEF S
  <2>3. r[o + b] = q[b] \o R
    BY <1>1, <1>2, <2>2 DEF R
  <2> HIDE DEF b
  <2>4. \A k \in b .. b : r[o + k] = q[k] \o R
    BY <2>1, <2>3
  <2>5. b \in 1 .. b
    BY <1>1
  <2>6. QED
    BY <2>4, <2>5
<1>5. ASSUME NEW a \in 1 .. b - 1, a + 1 \in U PROVE a \in U
  <2>1. a \in 1 .. l /\ a \in 1 .. b /\ \A k \in a .. b : k = a \/ k \in a + 1 .. b
    BY <1>1
  <2>2. PICK d : d = first(a)
    OBVIOUS
  <2>3. <<d>> \in S /\ Len(d.char) \in Nat /\ Len(d.char) >= 1 /\ a + Len(d.char) \in 1 .. b
    BY <2>1, <2>2, FirstCharIs DEF S
  <2>4. PICK e \in a + 1 .. b : e \in 1 .. b /\ e = a + Len(d.char) /\ o + a + Len(d.char) = o + e
    <3> HIDE DEF b
    <3>1. PICK x \in Nat : x = Len(d.char) /\ x >= 1 /\ a + x <= b
      BY <2>3
    <3>2. a \in Nat /\ a >= 1
      BY <2>1
    <3>3. b \in Nat /\ o \in Nat
      BY <1>1
    <3>4. a + x \in a + 1 .. b /\ a + x \in 1 .. b
      BY <3>1, <3>2, <3>3
    <3>5. \A y \in Nat, z \in Nat : o + y + z = o + (y + z)
      BY <3>3
    <3>6. o + a + x = o + (a + x)
      BY <3>1, <3>2, <3>5
    <3>7. QED
      BY <3>1, <3>4, <3>6
  <2>5. e \in 1 .. b /\ r[o + e] = q[e] \o R
    <3> HIDE DEF b
    <3> QED
      BY <1>5, <2>4
  <2>6. q[e] \in S
    BY <1>2, <2>5
  <2>7. q[a] = <<d>> \o q[e]
    BY <1>2, <2>1, <2>2, <2>4
  <2>8. r[o + a] = <<d>> \o r[o + e]
    <3>1. o + a \in 1 .. Len(text) /\ FirstChar(text, o + a) = d
      BY <1>3, <2>1, <2>2
    <3>2. r[o + a] = <<d>> \o r[o + a + Len(d.char)]
      BY <1>2, <3>1
    <3>3. QED
      BY <2>4, <3>2
  <2>9. (<<d>> \o q[e]) \o R = <<d>> \o (q[e] \o R)
    <3>1. JoinedAlike(<<d>>, q[e], R)
      BY <1>2, <2>3, <2>6, Associative DEF S
    <3>2. QED
      BY <3>1 DEF JoinedAlike
  <2>10. r[o + a] = q[a] \o R
    BY <2>5, <2>7, <2>8, <2>9
  <2>11. QED
    BY <1>5, <2>1, <2>10
<1>6. \A a \in 1 .. b : a \in U
  <2> HIDE DEF U, b
  <2> QED
    BY <1>1, <1>4, <1>5, DownTo
<1>7. 1 \in U /\ 1 \in 1 .. b
  BY <1>1, <1>6
<1>8. QED
  BY <1>7 DEF R

(* The symbols are parts of what they are joined to. *)
LEMMA PartsOfText ==
  ASSUME NEW n \in Nat, NEW strings \in [1 .. n -> Symbols], NEW f \in [0 .. n -> Seq(Nat)],
         f[0] = << >>, \A j \in 1 .. n : f[j] = f[j - 1] \o strings[j]
  PROVE  \A j \in 1 .. n : /\ IsPartAt(f[n], Len(f[j - 1]), strings[j])
                           /\ Len(f[j]) = Len(f[j - 1]) + Len(strings[j])
<1> DEFINE t == f[n]
           begins(j) == Len(f[j]) <= Len(t) /\ \A i \in 1 .. Len(f[j]) : t[i] = f[j][i]
           whole(j) == Len(f[j]) = Len(t) \/ t[Len(f[j]) + 1] \notin LaterBytes
           T == {j \in 0 .. n : begins(j) /\ whole(j)}
<1>1. /\ \A j \in 1 .. n : j \in 0 .. n /\ j - 1 \in 0 .. n
      /\ n \in 0 .. n /\ 0 \in 0 .. n /\ 0 \in Nat
      /\ \A j \in 0 .. n : f[j] \in Seq(Nat) /\ Len(f[j]) \in Nat
      /\ \A j \in 1 .. n : strings[j] \in Seq(Nat) /\ Len(strings[j]) \in Nat
  <2>1. \A j \in 0 .. n : f[j] \in Seq(Nat)
    OBVIOUS
  <2>2. \A j \in 1 .. n : strings[j] \in Seq(Nat)
    BY DEF Symbols
  <2>3. \A x \in Seq(Nat) : Len(x) \in Nat
    OBVIOUS
  <2>4. \A j \in 1 .. n : j \in 0 .. n /\ j - 1 \in 0 .. n
    OBVIOUS
  <2>5. n \in 0 .. n /\ 0 \in 0 .. n /\ 0 \in Nat
    OBVIOUS
  <2> HIDE DEF T
  <2>6. \A j \in 0 .. n : f[j] \in Seq(Nat) /\ Len(f[j]) \in Nat
    BY <2>1, <2>3
  <2>7. \A j \in 1 .. n : strings[j] \in Seq(Nat) /\ Len(strings[j]) \in Nat
    BY <2>2, <2>3
  <2>8. QED
    BY <2>4, <2>5, <2>6, <2>7
<1>2. ASSUME NEW j \in 1 .. n
      PROVE  /\ Len(f[j]) = Len(f[j - 1]) + Len(strings[j])
             /\ \A i \in 1 .. Len(f[j - 1]) : i \in 1 .. Len(f[j]) /\ f[j][i] = f[j - 1][i]
             /\ \A k \in 1 .. Len(strings[j]) :
                  Len(f[j - 1]) + k \in 1 .. Len(f[j]) /\ f[j][Len(f[j - 1]) + k] = strings[j][k]
  <2>1. PICK a \in Seq(Nat), c \in Seq(Nat) : a = f[j - 1] /\ c = strings[j] /\ f[j] = a \o c
    BY <1>1
  <2>2. Len(a \o c) = Len(a) + Len(c)
    OBVIOUS
  <2>3. \A i \in 1 .. Len(a) : i \in 1 .. Len(a \o c) /\ (a \o c)[i] = a[i]
    BY <2>2
  <2>4. \A k \in 1 .. Len(c) : Len(a) + k \in 1 .. Len(a \o c) /\ (a \o c)[Len(a) + k] = c[k]
    <3>1. SUFFICES ASSUME NEW k \in 1 .. Len(c)
                   PROVE  Len(a) + k \in 1 .. Len(a \o c) /\ (a \o c)[Len(a) + k] = c[k]
      OBVIOUS
    <3>2. PICK i : i = Len(a) + k /\ i \in Len(a) + 1 .. Len(a) + Len(c) /\ i - Len(a) = k /\ i \in 1 .. Len(a \o c)
      <4>1. PICK x \in Nat, y \in Nat : x = Len(a) /\ y = Len(c) /\ Len(a \o c) = x + y
        BY <2>2
      <4>2. k \in 1 .. y
        BY <4>1
      <4>3. x + k \in x + 1 .. x + y /\ x + k - x = k /\ x + k \in 1 .. x + y
        BY <4>2
      <4>4. PICK i : i = x + k
        OBVIOUS
      <4>5. i = Len(a) + k /\ i \in Len(a) + 1 .. Len(a) + Len(c)
        BY <4>1, <4>3, <4>4
      <4>6. i - Len(a) = k /\ i \in 1 .. Len(a \o c)
        BY <4>1, <4>3, <4>4
      <4>7. QED
        BY <4>5, <4>6
    <3>3. (a \o c)[i] = c[i - Len(a)]
      BY <3>2
    <3>4. QED
      BY <3>2, <3>3
  <2>5. QED
    BY <2>1, <2>2, <2>3, <2>4
<1>3. n \in T
  BY <1>1
<1>4. ASSUME NEW j \in 0 .. n - 1, j + 1 \in T PROVE j \in T
  <2>1. PICK h \in 1 .. n : h = j + 1 /\ h - 1 = j
    OBVIOUS
  <2>2. j \in 0 .. n /\ begins(h) /\ whole(h)
    BY <1>4, <2>1
  <2>3. Len(f[h]) = Len(f[j]) + Len(strings[h]) /\ Len(f[j]) \in Nat /\ Len(strings[h]) \in Nat /\ Len(f[h]) \in Nat /\ Len(t) \in Nat
    BY <1>1, <1>2, <2>1, <2>2
  <2>4. begins(j)
    <3>1. Len(f[j]) <= Len(t)
      BY <2>2, <2>3
    <3>2. \A i \in 1 .. Len(f[j]) : t[i] = f[j][i]
      BY <1>2, <2>1, <2>2
    <3>3. QED
      BY <3>1, <3>2
  <2>5. whole(j)
    <3>1. CASE strings[h] = << >>
      <4>1. Len(f[h]) = Len(f[j])
        BY <2>3, <3>1
      <4>2. QED
        BY <2>2, <4>1
    <3>2. CASE strings[h] # << >>
      <4>1. 1 \in 1 .. Len(strings[h]) /\ strings[h][1] \notin LaterBytes
        BY <1>1, <3>2 DEF Symbols
      <4>2. Len(f[j]) + 1 \in 1 .. Len(f[h]) /\ f[h][Len(f[j]) + 1] = strings[h][1]
        BY <1>2, <2>1, <4>1
      <4>3. t[Len(f[j]) + 1] = strings[h][1]
        BY <2>2, <4>2
      <4>4. QED
        BY <4>1, <4>3
    <3>3. QED
      BY <3>1, <3>2
  <2>6. QED
    BY <2>2, <2>4, <2>5
<1>5. \A j \in 0 .. n : j \in T
  <2> HIDE DEF T
  <2> QED
    BY <1>1, <1>3, <1>4, DownTo
<1>6. ASSUME NEW j \in 1 .. n PROVE IsPartAt(f[n], Len(f[j - 1]), strings[j])
  <2>1. begins(j) /\ whole(j)
    BY <1>1, <1>5
  <2>2. Len(f[j]) = Len(f[j - 1]) + Len(strings[j])
    BY <1>2
  <2>3. \A k \in 1 .. Len(strings[j]) : t[Len(f[j - 1]) + k] = strings[j][k]
    BY <1>2, <2>1
  <2>4. QED
    BY <2>1, <2>2, <2>3 DEF IsPartAt
<1>7. QED
  BY <1>2, <1>6

(* What a match is read as has the characters of its symbols. *)
LEMMA CharsAreKept ==
  ASSUME NEW n \in Nat, NEW m, m.strings \in [1 .. n -> Symbols]
  PROVE  CharsKept(m)
<1> DEFINE S == Seq(CharData)
           strings == m.strings
           chars == [j \in 1 .. n |-> for_each_char(strings[j])]
<1>1. strings \in Seq(Seq(Nat)) /\ Len(strings) = n /\ n \in 0 .. n /\ 0 \in 0 .. n
      /\ \A j \in 1 .. n : strings[j] \in Seq(Nat) /\ j - 1 \in 0 .. n /\ j \in 0 .. n
  <2>1. \A j \in 1 .. n : strings[j] \in Seq(Nat)
    BY DEF Symbols
  <2>2. QED
    BY <2>1
<1>2. PICK f \in [0 .. n -> Seq(Nat)] :
        f[0] = << >> /\ (\A j \in 1 .. n : f[j] = f[j - 1] \o strings[j]) /\ FlattenSeq(strings) = f[n]
  <2> HIDE DEF strings
  <2> QED
    BY <1>1, FlattenIs
<1>3. ASSUME NEW j \in 1 .. n
      PROVE  chars[j] \in S /\ \E q : CharsFrom(strings[j], q) /\ chars[j] = q[1]
  <2>1. PICK q : CharsFrom(strings[j], q) /\ for_each_char(strings[j]) = q[1]
    BY <1>1, CharsAreThose
  <2>2. 1 \in 1 .. Len(strings[j]) + 1
    BY <1>1
  <2>3. q[1] \in S
    BY <2>1, <2>2 DEF CharsFrom
  <2>4. QED
    BY <2>1, <2>3
<1>4. chars \in Seq(S) /\ Len(chars) = n
  <2> DEFINE e(j) == for_each_char(strings[j])
  <2>1. \A j \in 1 .. n : e(j) \in S
    BY <1>3
  <2> HIDE DEF S, e
  <2>2. [j \in 1 .. n |-> e(j)] \in Seq(S) /\ Len([j \in 1 .. n |-> e(j)]) = n
    BY <2>1
  <2>3. QED
    BY <2>2 DEF e
<1>5. PICK g \in [0 .. n -> S] :
        g[0] = << >> /\ (\A j \in 1 .. n : g[j] = g[j - 1] \o chars[j]) /\ FlattenSeq(chars) = g[n]
  <2> HIDE DEF chars
  <2> QED
    BY <1>4, FlattenIs
<1>6. PICK t \in Seq(Nat) : t = f[n]
  BY <1>1
<1>7. PICK r : CharsFrom(t, r) /\ for_each_char(t) = r[1]
  BY CharsAreThose
<1>8. /\ \A j \in 1 .. n : IsPartAt(t, Len(f[j - 1]), strings[j]) /\ Len(f[j]) = Len(f[j - 1]) + Len(strings[j])
      /\ \A j \in 0 .. n : Len(f[j]) \in Nat
  <2>1. strings \in [1 .. n -> Symbols] /\ f \in [0 .. n -> Seq(Nat)]
    OBVIOUS
  <2> HIDE DEF strings
  <2>2. \A j \in 1 .. n : IsPartAt(f[n], Len(f[j - 1]), strings[j]) /\ Len(f[j]) = Len(f[j - 1]) + Len(strings[j])
    BY <1>2, <2>1, PartsOfText
  <2>3. \A j \in 0 .. n : Len(f[j]) \in Nat
    <3>1. \A j \in 0 .. n : f[j] \in Seq(Nat)
      BY <2>1
    <3>2. \A x \in Seq(Nat) : Len(x) \in Nat
      OBVIOUS
    <3>3. QED
      BY <3>1, <3>2
  <2>4. QED
    BY <1>6, <2>2, <2>3
<1> DEFINE end(j) == Len(f[j]) + 1
           T == {j \in 0 .. n : end(j) \in 1 .. Len(t) + 1 /\ r[1] = g[j] \o r[end(j)]}
<1>9. r \in [1 .. Len(t) + 1 -> S] /\ r[Len(t) + 1] = << >> /\ Len(t) \in Nat
  BY <1>7 DEF CharsFrom
<1> HIDE DEF chars
<1>10. 0 \in T /\ 0 \in Nat
  <2>1. end(0) = 1 /\ 1 \in 1 .. Len(t) + 1
    BY <1>2, <1>9
  <2>2. r[1] \in S
    BY <1>9, <2>1
  <2>3. << >> \o r[1] = r[1]
    BY <2>2
  <2>4. QED
    BY <1>1, <1>5, <2>1, <2>3
<1>11. ASSUME NEW i \in 0 .. n - 1, i \in T PROVE i + 1 \in T
  <2>1. PICK j \in 1 .. n : j = i + 1 /\ j - 1 = i
    OBVIOUS
  <2>2. PICK q : CharsFrom(strings[j], q) /\ chars[j] = q[1] /\ chars[j] \in S
    BY <1>3
  <2>3. PICK o \in Nat : o = Len(f[i]) /\ IsPartAt(t, o, strings[j]) /\ Len(f[j]) = o + Len(strings[j])
    <3>1. i \in 0 .. n
      OBVIOUS
    <3>2. QED
      BY <1>8, <2>1, <3>1
  <2>4. r[o + 1] = chars[j] \o r[o + Len(strings[j]) + 1]
    <3>1. PICK x \in Seq(Nat) : x = strings[j]
      BY <1>1
    <3>2. IsPartAt(t, o, x) /\ CharsFrom(x, q) /\ CharsFrom(t, r)
      BY <1>7, <2>2, <2>3, <3>1
    <3>3. r[o + 1] = q[1] \o r[o + Len(x) + 1]
      BY <3>2, CharsOfPart
    <3>4. QED
      BY <2>2, <3>1, <3>3
  <2>5. r[end(i)] = chars[j] \o r[end(j)]
    BY <2>3, <2>4
  <2>6. end(j) \in 1 .. Len(t) + 1
    <3>1. o + Len(strings[j]) <= Len(t) /\ Len(f[j]) \in Nat
      BY <1>1, <1>8, <2>3 DEF IsPartAt
    <3>2. PICK x \in Nat, y \in Nat : x = Len(f[j]) /\ y = Len(t) /\ x <= y
      BY <1>9, <2>3, <3>1
    <3>3. x + 1 \in 1 .. y + 1
      BY <3>2
    <3>4. QED
      BY <3>2, <3>3
  <2>7. r[1] = g[i] \o r[end(i)] /\ g[i] \in S /\ r[end(j)] \in S /\ g[j] = g[i] \o chars[j]
    <3>1. i \in 0 .. n
      OBVIOUS
    <3>2. QED
      BY <1>5, <1>9, <1>11, <2>1, <2>6, <3>1
  <2>8. (g[i] \o chars[j]) \o r[end(j)] = g[i] \o (chars[j] \o r[end(j)])
    <3>1. PICK x \in S, y \in S, z \in S : x = g[i] /\ y = chars[j] /\ z = r[end(j)]
      BY <2>2, <2>7
    <3>2. JoinedAlike(x, y, z)
      BY Associative
    <3>3. QED
      BY <3>1, <3>2 DEF JoinedAlike
  <2>9. r[1] = g[j] \o r[end(j)]
    BY <2>5, <2>7, <2>8
  <2>10. QED
    BY <1>1, <2>1, <2>6, <2>9
<1>12. \A j \in 0 .. n : j \in T
  <2> HIDE DEF T
  <2> QED
    BY <1>10, <1>11, UpTo
<1>13. r[1] = g[n]
  <2>1. n \in T /\ end(n) = Len(t) + 1 /\ g[n] \in S
    BY <1>1, <1>5, <1>6, <1>12
  <2>2. r[1] = g[n] \o << >>
    BY <1>9, <2>1
  <2>3. g[n] \o << >> = g[n]
    BY <2>1
  <2>4. QED
    BY <2>2, <2>3
<1>14. chars = [i \in DOMAIN m.strings |-> for_each_char(m.strings[i])]
  BY DEF chars
<1>15. QED
  BY <1>2, <1>5, <1>6, <1>7, <1>13, <1>14 DEF CharsKept

(* The choices of a character are those found for it, and its main symbol. *)
LEMMA SortedAreChoices ==
  ASSUME NEW found \in Seq(Found), NEW main \in Found, NEW choices \in SortedChoices(found, main)
  PROVE  choices \in Seq(Found) /\ choices # << >>
<1>1. PICK all : all = Append(found, main)
  OBVIOUS
<1>2. all \in Seq(Found) /\ Len(all) = Len(found) + 1 /\ Len(all) \in Nat \ {0} /\ DOMAIN all = 1 .. Len(all)
  <2>1. Append(found, main) \in Seq(Found) /\ Len(Append(found, main)) = Len(found) + 1
    OBVIOUS
  <2>2. Len(found) \in Nat
    OBVIOUS
  <2>3. QED
    BY <1>1, <2>1, <2>2
<1>3. PICK p \in Bijection(DOMAIN all, DOMAIN all) : choices = [i \in DOMAIN all |-> all[p[i]]]
  BY <1>1 DEF SortedChoices
<1>4. p \in [1 .. Len(all) -> 1 .. Len(all)]
  BY <1>2, <1>3 DEF Bijection, Injection
<1>5. choices = [i \in 1 .. Len(all) |-> all[p[i]]]
  BY <1>2, <1>3
<1>6. ASSUME NEW i \in 1 .. Len(all) PROVE all[p[i]] \in Found
  <2>1. p[i] \in 1 .. Len(all)
    BY <1>4
  <2>2. QED
    BY <1>2, <2>1
<1> DEFINE e(i) == all[p[i]]
<1>7. [i \in 1 .. Len(all) |-> e(i)] \in Seq(Found) /\ Len([i \in 1 .. Len(all) |-> e(i)]) = Len(all)
  <2>1. \A i \in 1 .. Len(all) : e(i) \in Found
    BY <1>6
  <2> HIDE DEF e
  <2> QED
    BY <1>2, <2>1
<1>8. choices \in Seq(Found) /\ Len(choices) # 0
  BY <1>2, <1>5, <1>7
<1>9. QED
  BY <1>8

\* The characters of an image have been given their choices.
ChoicesInv == call.of = "choices" => ChoiceList(call.list)

(* A match is a name that was looked for from a place on. *)
LEMMA MatchOfName ==
  ASSUME NEW list, ChoiceList(list), NEW m \in match_choices_to_bible_book(list)
  PROVE  /\ m.text = << >> /\ m.strings \in [1 .. Len(list) -> Symbols]
         /\ \E name \in Seq(Nat) :
              m \in MatchesOf(list, name) /\ \E g, pick : ReadBy(list, name, m, g, pick)
<1>1. PICK k \in DOMAIN SearchedNames : m \in match_choices_to_string(list, SearchedNames[k])
  BY DEF match_choices_to_bible_book
<1>2. PICK name \in Seq(Nat) : name = SearchedNames[k]
  BY NamesAssumption
<1>3. PICK offset \in DOMAIN list : m = MatchFrom(list, name, offset) /\ m.text = << >>
  BY <1>1, <1>2 DEF match_choices_to_string
<1>4. offset \in 1 .. Len(list)
  BY DEF ChoiceList
<1>5. m \in MatchesOf(list, name) /\ \E g, pick : ReadBy(list, name, m, g, pick)
  BY <1>3, <1>4, MatchParts
<1>6. m.strings \in [1 .. Len(list) -> Symbols]
  BY <1>5 DEF MatchesOf
<1>7. QED
  BY <1>3, <1>5, <1>6

(* What WholeNameFirst says of the choices of an image. *)
LEMMA NamesFound ==
  ASSUME ChoicesInv
  PROVE  WholeNameFirst
<1>1. SUFFICES ASSUME call.of = "choices" PROVE WholeNameFirst
  BY DEF WholeNameFirst
<1>2. PICK list : list = call.list /\ ChoiceList(list)
  BY <1>1 DEF ChoicesInv
<1>3. Len(list) \in Nat /\ DOMAIN list = 1 .. Len(list)
  BY <1>2 DEF ChoiceList
<1> DEFINE matches == match_choices_to_bible_book(list)
           Distance(place) == [i \in DOMAIN list |-> IF i < place THEN place - i ELSE i - place]
<1>4. ASSUME NEW m \in matches PROVE Spelled(m) /\ CharsKept(m)
  <2>1. PICK name \in Seq(Nat) :
          m \in MatchesOf(list, name) /\ \E g, pick : ReadBy(list, name, m, g, pick)
    BY <1>2, MatchOfName
  <2>2. PICK g, pick : ReadBy(list, name, m, g, pick)
    BY <2>1
  <2>3. m.text = << >> /\ m.strings \in [1 .. Len(list) -> Symbols]
    BY <1>2, MatchOfName
  <2>4. Spelled(m)
    BY <1>2, <2>1, <2>2, <2>3, MatchSpelled
  <2>5. CharsKept(m)
    BY <1>3, <2>3, CharsAreKept
  <2>6. QED
    BY <2>4, <2>5
<1>5. ASSUME NEW place \in DOMAIN list,
             NEW data \in find_reference_position_data_from_choices(list, Distance(place))
      PROVE  AtCharacter(data, Distance(place))
  <2>1. PICK m \in matches : data \in position_data(m, Distance(place))
    BY DEF find_reference_position_data_from_choices
  <2>2. Distance(place) \in [1 .. Len(list) -> Nat]
    <3>1. \A i \in 1 .. Len(list) : (IF i < place THEN place - i ELSE i - place) \in Nat
      BY <1>3
    <3>2. QED
      BY <1>3, <3>1
  <2>3. m.strings \in [1 .. Len(list) -> Symbols]
    BY <1>2, MatchOfName
  <2> HIDE DEF Distance
  <2>4. QED
    BY <1>3, <2>1, <2>2, <2>3, CursorAtCharacter
<1>6. ASSUME NEW m \in matches, NEW other \in matches, PartOf(m, other)
      PROVE  ~Earlier(m, other) /\ (Earlier(other, m) \/ Doubtful(list, other, m))
  <2>1. PICK name \in Seq(Nat) :
          m \in MatchesOf(list, name) /\ \E g, pick : ReadBy(list, name, m, g, pick)
    BY <1>2, MatchOfName
  <2>2. PICK long \in Seq(Nat) :
          other \in MatchesOf(list, long) /\ \E h, take : ReadBy(list, long, other, h, take)
    BY <1>2, MatchOfName
  <2>3. PICK g, pick : ReadBy(list, name, m, g, pick)
    BY <2>1
  <2>4. PICK h, take : ReadBy(list, long, other, h, take)
    BY <2>2
  <2>5. QED
    BY <1>2, <1>6, <2>1, <2>2, <2>3, <2>4, PartIsLater
<1>7. QED
  BY <1>2, <1>4, <1>5, <1>6, Zenon DEF WholeNameFirst

(* A name is only found where choices spell it, the cursor is at a character, and a longer *)
(* name is tried before what is part of it: for all lists of characters and of names, and  *)
(* whatever was found for the characters of an image.                                      *)
THEOREM NamesAreWhole == Spec => []WholeNameFirst
<1>1. Init => ChoicesInv
  BY DEF Init, ChoicesInv
<1>2. ChoicesInv /\ [Next]_vars => ChoicesInv'
  <2> SUFFICES ASSUME ChoicesInv, [Next]_vars PROVE ChoicesInv'
    OBVIOUS
  <2>1. CASE MatchChoices
    <3> DEFINE sorted(list, i) == SortedChoices(list[i].found, list[i].main)
    <3>1. PICK list \in Lists :
            \E choices \in [DOMAIN list -> UNION {sorted(list, i) : i \in DOMAIN list}] :
              /\ \A i \in DOMAIN list : choices[i] \in sorted(list, i)
              /\ call' = [of |-> "choices", list |-> choices]
      BY <2>1, Zenon DEF MatchChoices, Call
    <3>2. PICK choices :
            /\ choices \in [DOMAIN list -> UNION {sorted(list, i) : i \in DOMAIN list}]
            /\ \A i \in DOMAIN list : choices[i] \in sorted(list, i)
            /\ call' = [of |-> "choices", list |-> choices]
      BY <3>1
    <3>3. Len(list) \in Nat /\ DOMAIN list = 1 .. Len(list)
      BY ListsAssumption
    <3>4. \A i \in 1 .. Len(list) : choices[i] \in Seq(Found) /\ choices[i] # << >>
      <4>1. SUFFICES ASSUME NEW i \in 1 .. Len(list) PROVE choices[i] \in Seq(Found) /\ choices[i] # << >>
        OBVIOUS
      <4>2. list[i].found \in Seq(Found) /\ list[i].main \in Found
        BY <3>3, ListsAssumption
      <4>3. choices[i] \in SortedChoices(list[i].found, list[i].main)
        BY <3>2, <3>3
      <4>4. QED
        BY <4>2, <4>3, SortedAreChoices
    <3>5. choices \in [1 .. Len(list) -> Seq(Found)]
      BY <3>2, <3>3, <3>4
    <3>6. choices \in Seq(Seq(Found)) /\ Len(choices) = Len(list)
      BY <3>3, <3>5
    <3>7. ChoiceList(choices)
      BY <3>4, <3>6 DEF ChoiceList
    <3>8. QED
      BY <3>2, <3>7 DEF ChoicesInv
  <2>2. CASE UNCHANGED call
    BY <2>2 DEF ChoicesInv
  <2>3. CASE Compute \/ MakeRectangle \/ CompareRectangles
    BY <2>3 DEF Compute, MakeRectangle, CompareRectangles, Call, ChoicesInv
  <2>4. CASE OpenPages \/ PrintEnumerator \/ CaptureScreen
    BY <2>4 DEF OpenPages, PrintEnumerator, CaptureScreen, Call, ChoicesInv
  <2>5. CASE PrintRange \/ CiteNames
    BY <2>5, CitationCalled DEF ChoicesInv
  <2>6. QED
    BY <2>1, <2>2, <2>3, <2>4, <2>5 DEF Next, vars, Count, UseMenu
<1>3. ChoicesInv => WholeNameFirst
  BY NamesFound
<1>4. QED
  BY <1>1, <1>2, <1>3, PTL DEF Spec
=============================================================================
