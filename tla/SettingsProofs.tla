--------------------------- MODULE SettingsProofs ---------------------------
(***************************************************************************)
(* The settings for every set of threads, settings, values and any number  *)
(* of trees: there is one tree of the file at a time, what a setting is    *)
(* and what its tree says are the same, and what it was set to survives.   *)
(***************************************************************************)
EXTENDS Settings, TLAPS

Texts == Elements \cup {None, Bad, Huge} \cup Nat
States == {"none", "reading", "live", "dying"}

\* What may be the value of a setting.
Fits(s, v) ==
  /\ v \in Seq(Elements)
  /\ IF s \in Scalars THEN Len(v) = 1 ELSE Len(v) <= MaxLength

TreeRecords == [state : States, content : [Nodes -> Texts]]
SettingRecords == [tree : Trees, value : Seq(Elements)]
PcStates == {"idle", "share", "read", "open", "close", "property", "emplace", "settings", "update"}
AtRecords == [tree : Trees \cup {0}, setting : Paths \cup {None}, value : Seq(Elements)]

STypeInv ==
  /\ tree \in [Trees -> TreeRecords]
  /\ file \in [Nodes -> Texts] \cup {Torn}
  /\ core \in [Threads -> Trees \cup {0}]
  /\ setting \in [Paths -> SUBSET SettingRecords]
  /\ trees_mtx \in Threads \cup {NoThread}
  /\ mtx \in [Trees -> Threads \cup {NoThread}]
  /\ property_mtx \in [Paths -> Threads \cup {NoThread}]
  /\ pc \in [Threads -> PcStates]
  /\ at \in [Threads -> AtRecords]

\* A thread that looks for a tree holds trees_mtx_, and when it makes one until it has read
\* the file.
ReadInv ==
  /\ \A k \in Trees : tree[k].state = "reading" => trees_mtx \in Threads /\ pc[trees_mtx] = "read"
  /\ \A t \in Threads : pc[t] = "share" => trees_mtx = t
  /\ \A t \in Threads : pc[t] = "read" =>
       at[t].tree \in Trees /\ tree[at[t].tree].state = "reading" /\ trees_mtx = t

\* Cores and settings keep their tree, and who uses a tree has one of them.
KeepInv ==
  /\ \A t \in Threads : core[t] # 0 => core[t] \in Alive
  /\ \A s \in Paths : \A p \in setting[s] : p.tree \in Alive

Uses(t) ==
  /\ pc[t] \in {"property", "emplace"} => at[t].tree = core[t] /\ core[t] # 0 /\ at[t].setting \in Paths
  /\ pc[t] = "emplace" => Fits(at[t].setting, at[t].value)
  /\ pc[t] = "update" =>
       /\ at[t].setting \in Paths /\ at[t].tree \in Trees /\ Fits(at[t].setting, at[t].value)
       /\ property_mtx[at[t].setting] = t
       /\ setting[at[t].setting] = {[tree |-> at[t].tree, value |-> at[t].value]}

UseInv == \A t \in Threads : Uses(t)

\* A tree that is dying is destroyed by one thread.
DieInv ==
  /\ \A t \in Threads : pc[t] \in {"open", "close"} =>
       at[t].tree \in Trees /\ tree[at[t].tree].state = "dying"
  /\ \A t, u \in Threads : {pc[t], pc[u]} \subseteq {"open", "close"} /\ at[t].tree = at[u].tree => t = u

TreeInv == ReadInv /\ KeepInv /\ UseInv /\ DieInv /\ OneTreePerFile

\* What a thread has read and not yet put into the map, and what a setting was set to
\* and the tree was not yet told, is what the tree says or will say.
Told(s, p) == property_mtx[s] = NoThread => read(tree[p.tree].content, s) = {p.value}
WillBe(t) ==
  pc[t] = "emplace" /\ setting[at[t].setting] = {} =>
    read(tree[at[t].tree].content, at[t].setting) = {at[t].value}

Hold == (\A s \in Paths : \A p \in setting[s] : Told(s, p)) /\ (\A t \in Threads : WillBe(t))
HoldInv == ~undefined => Hold

\* While the program is not up nothing is there but a tree that is dying; and the mutex of
\* a property is held by the thread that sets it.
PhaseInv ==
  /\ program = "down" => \A k \in Trees : tree[k].state = "none"
  /\ program # "up" => /\ \A k \in Trees : tree[k].state # "live"
                       /\ \A s \in Paths : setting[s] = {}
                       /\ \A t \in Threads : pc[t] = "idle"
  /\ \A s \in Paths : property_mtx[s] # NoThread =>
       /\ property_mtx[s] \in Threads
       /\ pc[property_mtx[s]] = "update" /\ at[property_mtx[s]].setting = s

\* What is known of the settings is in one place: the tree that will be written into the
\* file, or the file when there is none.
KnownType == known = [s \in Paths |-> known[s]]
Saves(k) == tree[k].state \in {"live", "dying"}
Known ==
  /\ \A s \in Paths : \A p \in setting[s] : known[s] = {p.value}
  /\ \A j, k \in Trees : Saves(j) /\ Saves(k) => j = k
  /\ \A k \in Trees, s \in Paths :
       Saves(k) /\ property_mtx[s] = NoThread => known[s] = read(tree[k].content, s)
  /\ (\A k \in Trees : ~Saves(k)) => known = InFile(file)
KnownInv == ~undefined /\ ~torn => Known

-----------------------------------------------------------------------------
(* property_parser.                                                           *)
LEMMA WrittenText ==
  ASSUME NEW content \in [Nodes -> Texts], NEW s \in Paths, NEW v, Fits(s, v)
  PROVE  write(content, s, v) \in [Nodes -> Texts]
<1> SUFFICES ASSUME NEW n \in Nodes
             PROVE  (IF n = <<s, 0>> THEN Len(v)
                     ELSE IF n[1] = s /\ n[2] \in DOMAIN v THEN v[n[2]] ELSE content[n]) \in Texts
  BY DEF write
<1> QED
  BY DEF Fits, Texts

LEMMA FirstElement ==
  ASSUME NEW S, NEW v \in Seq(S), Len(v) = 1
  PROVE  1 \in 1 .. Len(v) /\ v[1] \in S
OBVIOUS

\* What is written is read again.
LEMMA ReadOfWritten ==
  ASSUME NEW content \in [Nodes -> Texts], NEW s \in Paths, NEW v, Fits(s, v)
  PROVE  read(write(content, s, v), s) = {v}
<1> DEFINE written == write(content, s, v)
<1>1. \A i \in 1 .. Len(v) : <<s, i>> \in Nodes => written[<<s, i>>] = v[i]
  BY DEF write, Fits
<1>2. CASE s \in Scalars
  <2>1. written[<<s, 1>>] = v[1] /\ v[1] \in Elements
    <3>1. <<s, 1>> \in Nodes
      BY <1>2 DEF Nodes
    <3>2. 1 \in 1 .. Len(v) /\ v[1] \in Elements
      BY <1>2, FirstElement DEF Fits
    <3> QED
      BY <1>1, <3>1, <3>2
  <2>2. v = <<v[1]>>
    BY <1>2 DEF Fits
  <2>3. read_element(written, <<s, 1>>) = {v[1]}
    BY <2>1 DEF read_element
  <2> QED
    BY <1>2, <2>2, <2>3 DEF read
<1>3. CASE s \notin Scalars
  <2> DEFINE Legible(m) == \A i \in 1 .. m : read_element(written, <<s, i>>) # {}
  <2>1. s \in Lists /\ Len(v) \in 0 .. MaxLength
    BY <1>3, SettingsAssumption DEF Paths, Fits
  <2>2. \A i \in 1 .. Len(v) : written[<<s, i>>] = v[i] /\ v[i] \in Elements
    BY <1>1, <2>1, SettingsAssumption DEF Nodes, Fits
  <2>3. written[<<s, 0>>] = Len(v)
    <3>1. <<s, 0>> \in Nodes
      BY <2>1, SettingsAssumption DEF Nodes
    <3> QED
      BY <3>1 DEF write
  <2>4. Legible(Len(v))
    BY <2>2 DEF read_element
  <2>5. {m \in {written[<<s, 0>>]} \cap (0 .. MaxLength) : Legible(m)} = {Len(v)}
    <3> HIDE DEF Legible, written
    <3> QED
      BY <2>1, <2>3, <2>4
  <2>6. [i \in 1 .. Len(v) |-> written[<<s, i>>]] = v
    BY <2>2 DEF Fits
  <2>7. read_list(written, s) = {[i \in 1 .. n |-> written[<<s, i>>]] : n \in {Len(v)}}
    BY <2>5 DEF read_list
  <2> QED
    BY <1>3, <2>6, <2>7 DEF read
<1> QED
  BY <1>2, <1>3

\* The other settings are read as before.
LEMMA ReadOfOther ==
  ASSUME NEW content \in [Nodes -> Texts], NEW s \in Paths, NEW other \in Paths, other # s, NEW v
  PROVE  read(write(content, s, v), other) = read(content, other)
<1> DEFINE written == write(content, s, v)
<1>1. \A i : <<other, i>> \in Nodes => written[<<other, i>>] = content[<<other, i>>]
  BY DEF write
<1>2. CASE other \in Scalars
  BY <1>1, <1>2 DEF read, read_element, Nodes
<1>3. CASE other \notin Scalars
  <2>1. \A i \in 0 .. MaxLength : written[<<other, i>>] = content[<<other, i>>]
    BY <1>1, <1>3 DEF Nodes, Paths
  <2>2. \A i \in 0 .. MaxLength : read_element(written, <<other, i>>) = read_element(content, <<other, i>>)
    BY <2>1 DEF read_element
  <2> DEFINE LegibleIn(c) == {m \in {c[<<other, 0>>]} \cap (0 .. MaxLength) :
                               \A i \in 1 .. m : read_element(c, <<other, i>>) # {}}
             Elems(c, n) == [i \in 1 .. n |-> c[<<other, i>>]]
  <2>3. LegibleIn(written) = LegibleIn(content)
    <3> HIDE DEF written
    <3> QED
      BY <2>1, <2>2, SettingsAssumption
  <2>4. \A n \in LegibleIn(content) : Elems(written, n) = Elems(content, n)
    <3> HIDE DEF written
    <3> QED
      BY <2>1, SettingsAssumption
  <2>5. read_list(written, other) = {Elems(written, n) : n \in LegibleIn(written)}
        /\ read_list(content, other) = {Elems(content, n) : n \in LegibleIn(content)}
    BY DEF read_list
  <2>6. {Elems(written, n) : n \in LegibleIn(written)} = {Elems(content, n) : n \in LegibleIn(content)}
    <3> HIDE DEF written, LegibleIn, Elems
    <3> QED
      BY <2>3, <2>4
  <2> QED
    BY <1>3, <2>5, <2>6 DEF read
<1> QED
  BY <1>2, <1>3

LEMMA ReadFits ==
  ASSUME NEW content \in [Nodes -> Texts], NEW s \in Paths, NEW v \in read(content, s)
  PROVE  Fits(s, v)
<1>1. CASE s \in Scalars
  <2>1. PICK e \in read_element(content, <<s, 1>>) : v = <<e>>
    BY <1>1 DEF read
  <2> QED
    BY <1>1, <2>1 DEF read_element, Fits
<1>2. CASE s \notin Scalars
  <2>1. PICK n \in 0 .. MaxLength :
          /\ \A i \in 1 .. n : read_element(content, <<s, i>>) # {}
          /\ v = [i \in 1 .. n |-> content[<<s, i>>]]
    BY <1>2 DEF read, read_list
  <2>2. \A i \in 1 .. n : content[<<s, i>>] \in Elements
    BY <2>1 DEF read_element
  <2>3. MaxLength \in Nat
    BY SettingsAssumption
  <2>4. v \in Seq(Elements) /\ Len(v) = n
    BY <2>1, <2>2, <2>3
  <2> QED
    BY <1>2, <2>1, <2>3, <2>4 DEF Fits
<1> QED
  BY <1>1, <1>2

LEMMA ValuesFit ==
  ASSUME NEW s \in Paths
  PROVE  Fits(s, Default[s]) /\ \A v \in Values[s] : Fits(s, v)
BY SettingsAssumption DEF Fits, Paths

-----------------------------------------------------------------------------
LEMMA EmptyText == Empty \in [Nodes -> Texts] /\ NoTree \in TreeRecords
BY DEF Empty, Texts, NoTree, TreeRecords, States

LEMMA NowhereType ==
  /\ Nowhere \in AtRecords
  /\ \A k \in Trees \cup {0} : [Nowhere EXCEPT !.tree = k] \in AtRecords
  /\ \A k \in Trees \cup {0}, s \in Paths : [tree |-> k, setting |-> s, value |-> << >>] \in AtRecords
<1>1. \A k \in Trees \cup {0}, s \in Paths \cup {None} :
        [tree |-> k, setting |-> s, value |-> << >>] \in AtRecords
  BY DEF AtRecords
<1>2. \A k : [Nowhere EXCEPT !.tree = k] = [tree |-> k, setting |-> None, value |-> << >>]
  BY DEF Nowhere
<1>3. Nowhere = [tree |-> 0, setting |-> None, value |-> << >>]
  BY DEF Nowhere
<1> QED
  BY <1>1, <1>2, <1>3

LEMMA GotoType ==
  ASSUME STypeInv, NEW t \in Threads, NEW to \in PcStates, NEW where \in AtRecords, Goto(t, to, where)
  PROVE  pc' \in [Threads -> PcStates] /\ at' \in [Threads -> AtRecords]
BY DEF STypeInv, Goto

LEMMA TreeType ==
  ASSUME STypeInv, NEW k
  PROVE  /\ \A state \in States : [tree EXCEPT ![k].state = state] \in [Trees -> TreeRecords]
         /\ \A content \in [Nodes -> Texts] : [tree EXCEPT ![k].content = content] \in [Trees -> TreeRecords]
         /\ \A record \in TreeRecords : [tree EXCEPT ![k] = record] \in [Trees -> TreeRecords]
BY DEF STypeInv, TreeRecords

\* The value that a new setting has: what is read from its tree or the default.
Created(content, s) ==
  IF read(content, s) = {} THEN Default[s] ELSE CHOOSE v \in read(content, s) : TRUE

LEMMA CreatedFits ==
  ASSUME NEW content \in [Nodes -> Texts], NEW s \in Paths
  PROVE  Fits(s, Created(content, s))
<1>1. CASE read(content, s) = {}
  BY <1>1, ValuesFit DEF Created
<1>2. CASE read(content, s) # {}
  <2>1. Created(content, s) \in read(content, s)
    BY <1>2 DEF Created
  <2> QED
    BY <2>1, ReadFits
<1> QED
  BY <1>1, <1>2

\* PropertyCreated with its value named.
LEMMA CreatedStep ==
  ASSUME NEW t, PropertyCreated(t)
  PROVE  LET k == at[t].tree  s == at[t].setting  value == Created(tree[k].content, s)
         IN  /\ pc[t] = "property"
             /\ tree' = [tree EXCEPT ![k].content = write(tree[k].content, s, value)]
             /\ mtx' = [mtx EXCEPT ![k] = NoThread]
             /\ Goto(t, "emplace", [at[t] EXCEPT !.value = value])
             /\ UNCHANGED <<program, file, core, setting, trees_mtx, property_mtx, runs, ops, torn>>
BY DEF PropertyCreated, Created, Step

LEMMA AtTree ==
  ASSUME STypeInv, TreeInv, NEW t \in Threads, pc[t] \in {"property", "emplace", "update"}
  PROVE  /\ at[t].tree \in Trees /\ at[t].setting \in Paths
         /\ tree[at[t].tree].content \in [Nodes -> Texts]
         /\ tree[at[t].tree].state = "live"
         /\ at[t] \in AtRecords
<1>1. at[t].tree \in Alive /\ at[t].setting \in Paths
  <2>1. CASE pc[t] \in {"property", "emplace"}
    BY <2>1 DEF TreeInv, KeepInv, UseInv, Uses
  <2>2. CASE pc[t] = "update"
    <3> DEFINE p == [tree |-> at[t].tree, value |-> at[t].value]
    <3>1. p \in setting[at[t].setting] /\ at[t].setting \in Paths
      BY <2>2 DEF TreeInv, KeepInv, UseInv, Uses
    <3>2. p.tree \in Alive
      BY <3>1 DEF TreeInv, KeepInv, UseInv, Uses
    <3> QED
      BY <3>1, <3>2
  <2> QED
    BY <2>1, <2>2
<1> QED
  BY <1>1 DEF STypeInv, Alive, TreeRecords

LEMMA TypeStep ==
  ASSUME STypeInv, TreeInv, [Next]_vars
  PROVE  STypeInv'
<1>0. /\ 0 \notin Trees
      /\ {"none", "reading", "live", "dying"} = States
      /\ {"idle", "share", "read", "open", "close", "property", "emplace", "settings", "update"} = PcStates
  BY DEF Trees, States, PcStates
<1>1. CASE UNCHANGED vars
  BY <1>1 DEF vars, STypeInv
<1>2. ASSUME NEW t \in Threads, Share(t) PROVE STypeInv'
  <2>1. PICK k \in Trees : Goto(t, "share", [Nowhere EXCEPT !.tree = k])
    BY <1>2 DEF Share, Alive
  <2>2. pc' \in [Threads -> PcStates] /\ at' \in [Threads -> AtRecords]
    BY <1>0, <2>1, GotoType, NowhereType
  <2> QED
    BY <1>2, <2>2 DEF Share, STypeInv
<1>21. ASSUME NEW t \in Threads, Shared(t) PROVE STypeInv'
  <2>1. pc' \in [Threads -> PcStates] /\ at' \in [Threads -> AtRecords]
    BY <1>0, <1>21, GotoType, NowhereType DEF Shared
  <2> QED
    BY <1>21, <2>1 DEF Shared, Alive, STypeInv
<1>22. ASSUME NEW t \in Threads, SharedNull(t) PROVE STypeInv'
  BY <1>22 DEF SharedNull, STypeInv
<1>3. ASSUME NEW t \in Threads, Create(t) \/ SharedGone(t) PROVE STypeInv'
  <2>1. PICK k \in Trees : /\ tree' = [tree EXCEPT ![k].state = "reading"]
                           /\ Goto(t, "read", [Nowhere EXCEPT !.tree = k])
    BY <1>3 DEF Create, SharedGone, Make
  <2>2. pc' \in [Threads -> PcStates] /\ at' \in [Threads -> AtRecords]
    BY <1>0, <2>1, GotoType, NowhereType
  <2>3. tree' \in [Trees -> TreeRecords]
    BY <1>0, <2>1, TreeType
  <2> QED
    BY <1>3, <2>2, <2>3 DEF Create, SharedGone, STypeInv
<1>4. ASSUME NEW t \in Threads, Read(t) \/ ReadFails(t) PROVE STypeInv'
  <2>0. PICK content \in [Nodes -> Texts] : Made(t, content)
    BY <1>4, EmptyText DEF Read, ReadFails, STypeInv
  <2>1. [state |-> "live", content |-> content] \in TreeRecords
    BY DEF TreeRecords, States
  <2>2. pc' \in [Threads -> PcStates] /\ at' \in [Threads -> AtRecords]
    BY <1>0, <2>0, GotoType, NowhereType DEF Made
  <2>3. tree' \in [Trees -> TreeRecords]
    BY <2>0, <2>1, TreeType DEF Made
  <2>4. at[t].tree \in Trees
    BY <2>0 DEF Made, Step, TreeInv, ReadInv
  <2> QED
    BY <2>0, <2>2, <2>3, <2>4 DEF Made, STypeInv
<1>5. ASSUME NEW t \in Threads, Drop(t) PROVE STypeInv'
  <2>1. core[t] \in Trees \cup {0}
    BY DEF STypeInv
  <2>2. pc' \in [Threads -> PcStates] /\ at' \in [Threads -> AtRecords]
    <3>1. CASE LastOwner(t, core[t])
      BY <1>0, <1>5, <2>1, <3>1, GotoType, NowhereType DEF Drop
    <3>2. CASE ~LastOwner(t, core[t])
      BY <1>5, <3>2 DEF Drop, STypeInv
    <3> QED
      BY <3>1, <3>2
  <2>3. tree' \in [Trees -> TreeRecords]
    <3>1. CASE LastOwner(t, core[t])
      <4>1. tree' = [tree EXCEPT ![core[t]].state = "dying"]
        BY <1>5, <3>1 DEF Drop
      <4> QED
        BY <1>0, <4>1, TreeType
    <3>2. CASE ~LastOwner(t, core[t])
      BY <1>5, <3>2 DEF Drop, STypeInv
    <3> QED
      BY <3>1, <3>2
  <2> QED
    BY <1>5, <2>2, <2>3 DEF Drop, STypeInv
<1>6. ASSUME NEW t \in Threads, DtorOpen(t) PROVE STypeInv'
  <2>1. at[t] \in AtRecords
    BY DEF STypeInv
  <2>2. pc' \in [Threads -> PcStates] /\ at' \in [Threads -> AtRecords]
    BY <1>0, <1>6, <2>1, GotoType DEF DtorOpen
  <2> QED
    BY <1>6, <2>2 DEF DtorOpen, STypeInv
<1>70. ASSUME NEW t \in Threads, DtorClose(t) \/ DtorCloseFails(t) \/ DtorOpenFails(t)
       PROVE  STypeInv'
  <2>0. Destroyed(t) /\ pc[t] \in {"open", "close"}
    BY <1>70 DEF DtorClose, DtorCloseFails, DtorOpenFails, Step
  <2>1. pc' \in [Threads -> PcStates] /\ at' \in [Threads -> AtRecords]
    BY <1>0, <2>0, GotoType, NowhereType DEF Destroyed
  <2>2. tree' \in [Trees -> TreeRecords]
    BY <2>0, EmptyText, TreeType DEF Destroyed
  <2>3. tree[at[t].tree].content \in [Nodes -> Texts]
    BY <2>0 DEF TreeInv, DieInv, STypeInv, TreeRecords
  <2>4. file' \in [Nodes -> Texts] \cup {Torn}
    BY <1>70, <2>3 DEF DtorClose, DtorCloseFails, DtorOpenFails, STypeInv
  <2> QED
    BY <2>0, <2>1, <2>2, <2>4 DEF Destroyed, STypeInv
<1>8. ASSUME NEW t \in Threads, CreateProperty(t) PROVE STypeInv'
  <2>1. PICK s \in Paths : Goto(t, "property", [tree |-> core[t], setting |-> s, value |-> << >>])
    BY <1>8 DEF CreateProperty
  <2>2. core[t] \in Trees \cup {0}
    BY DEF STypeInv
  <2>3. pc' \in [Threads -> PcStates] /\ at' \in [Threads -> AtRecords]
    BY <1>0, <2>1, <2>2, GotoType, NowhereType
  <2> QED
    BY <1>8, <2>3 DEF CreateProperty, STypeInv
<1>9. ASSUME NEW t \in Threads, PropertyCreated(t) PROVE STypeInv'
  <2> DEFINE k == at[t].tree  s == at[t].setting  value == Created(tree[k].content, s)
  <2>1. pc[t] = "property"
    BY <1>9, CreatedStep
  <2>2. k \in Trees /\ s \in Paths /\ tree[k].content \in [Nodes -> Texts] /\ at[t] \in AtRecords
    BY <2>1, AtTree
  <2>3. Fits(s, value)
    BY <2>2, CreatedFits
  <2>4. write(tree[k].content, s, value) \in [Nodes -> Texts]
    BY <2>2, <2>3, WrittenText
  <2>5. tree' \in [Trees -> TreeRecords]
    <3> HIDE DEF value, k, s
    <3>1. tree' = [tree EXCEPT ![k].content = write(tree[k].content, s, value)]
      BY <1>9, CreatedStep DEF k, s, value
    <3> QED
      BY <2>4, <3>1, TreeType
  <2>6. [at[t] EXCEPT !.value = value] \in AtRecords
    BY <2>2, <2>3 DEF Fits, AtRecords
  <2>7. pc' \in [Threads -> PcStates] /\ at' \in [Threads -> AtRecords]
    <3>1. Goto(t, "emplace", [at[t] EXCEPT !.value = value])
      BY <1>9, CreatedStep
    <3> HIDE DEF value
    <3> QED
      BY <1>0, <2>6, <3>1, GotoType
  <2>8. /\ mtx' = [mtx EXCEPT ![k] = NoThread]
        /\ UNCHANGED <<file, core, setting, trees_mtx, property_mtx>>
    BY <1>9, CreatedStep
  <2> QED
    BY <2>5, <2>7, <2>8 DEF STypeInv
<1>10. ASSUME NEW t \in Threads, Emplaced(t) PROVE STypeInv'
  <2>1. pc[t] = "emplace"
    BY <1>10 DEF Emplaced, Step
  <2>2. at[t].tree \in Trees /\ at[t].setting \in Paths /\ at[t].value \in Seq(Elements)
    BY <2>1, AtTree DEF AtRecords
  <2>3. [tree |-> at[t].tree, value |-> at[t].value] \in SettingRecords
    BY <2>2 DEF SettingRecords
  <2>4. setting' \in [Paths -> SUBSET SettingRecords]
    BY <1>10, <2>3 DEF Emplaced, STypeInv
  <2>5. pc' \in [Threads -> PcStates] /\ at' \in [Threads -> AtRecords]
    BY <1>0, <1>10, GotoType, NowhereType DEF Emplaced
  <2> QED
    BY <1>10, <2>4, <2>5 DEF Emplaced, STypeInv
<1>11. ASSUME NEW t \in Threads, List(t) PROVE STypeInv'
  <2>1. pc' \in [Threads -> PcStates] /\ at' \in [Threads -> AtRecords]
    BY <1>0, <1>11, GotoType, NowhereType DEF List
  <2> QED
    BY <1>11, <2>1 DEF List, STypeInv
<1>12. ASSUME NEW t \in Threads, Listed(t) PROVE STypeInv'
  <2>1. pc' \in [Threads -> PcStates] /\ at' \in [Threads -> AtRecords]
    BY <1>0, <1>12, GotoType, NowhereType DEF Listed
  <2> QED
    BY <1>12, <2>1 DEF Listed, STypeInv
<1>13. ASSUME NEW t \in Threads, SetValue(t) PROVE STypeInv'
  <2> DEFINE Sets(s, p, v) ==
          /\ setting' = [setting EXCEPT ![s] = {[p EXCEPT !.value = v]}]
          /\ property_mtx' = [property_mtx EXCEPT ![s] = t]
          /\ Goto(t, "update", [tree |-> p.tree, setting |-> s, value |-> v])
  <2>0. PICK s \in Paths : \E p \in setting[s] : \E v \in Values[s] : Sets(s, p, v)
    BY <1>13 DEF SetValue
  <2>1. PICK p \in setting[s], v \in Values[s] : Sets(s, p, v)
    BY <2>0
  <2>2. p \in SettingRecords /\ v \in Seq(Elements)
    BY ValuesFit DEF STypeInv, Fits
  <2>3. /\ [p EXCEPT !.value = v] \in SettingRecords
        /\ [tree |-> p.tree, setting |-> s, value |-> v] \in AtRecords
    BY <2>2 DEF SettingRecords, AtRecords
  <2>4. pc' \in [Threads -> PcStates] /\ at' \in [Threads -> AtRecords]
    BY <1>0, <2>1, <2>3, GotoType
  <2> QED
    BY <1>13, <2>1, <2>3, <2>4 DEF SetValue, STypeInv
<1>14. ASSUME NEW t \in Threads, Updated(t) PROVE STypeInv'
  <2> DEFINE k == at[t].tree  s == at[t].setting
  <2>1. pc[t] = "update"
    BY <1>14 DEF Updated, Step
  <2>2. k \in Trees /\ s \in Paths /\ tree[k].content \in [Nodes -> Texts]
    BY <2>1, AtTree
  <2>3. write(tree[k].content, s, at[t].value) \in [Nodes -> Texts]
    BY <2>1, <2>2, WrittenText DEF TreeInv, KeepInv, UseInv, Uses
  <2>4. tree' \in [Trees -> TreeRecords]
    <3> HIDE DEF k, s
    <3>1. tree' = [tree EXCEPT ![k].content = write(tree[k].content, s, at[t].value)]
      BY <1>14 DEF Updated, k, s
    <3> QED
      BY <2>3, <3>1, TreeType
  <2>5. pc' \in [Threads -> PcStates] /\ at' \in [Threads -> AtRecords]
    BY <1>0, <1>14, GotoType, NowhereType DEF Updated
  <2> QED
    BY <1>14, <2>4, <2>5 DEF Updated, STypeInv
<1>15. CASE Start
  BY <1>15 DEF Start, STypeInv
<1>16. CASE End
  <2>1. tree' \in [Trees -> TreeRecords]
    BY <1>16 DEF End, STypeInv, TreeRecords, States
  <2>2. /\ core' \in [Threads -> Trees \cup {0}]
        /\ setting' \in [Paths -> SUBSET SettingRecords]
        /\ file' \in [Nodes -> Texts] \cup {Torn}
    BY <1>16 DEF End, Ending, STypeInv
  <2> QED
    BY <1>16, <2>1, <2>2 DEF End, Ending, STypeInv
<1>161. CASE EndFails
  <2>1. tree' \in [Trees -> TreeRecords]
    BY <1>161, EmptyText DEF EndFails
  <2>2. core' \in [Threads -> Trees \cup {0}] /\ setting' \in [Paths -> SUBSET SettingRecords]
    BY <1>161 DEF EndFails, Ending
  <2> QED
    BY <1>161, <2>1, <2>2 DEF EndFails, Ending, STypeInv
<1>17. ASSUME Reset
       PROVE  /\ tree' \in [Trees -> TreeRecords]
              /\ core' \in [Threads -> Trees \cup {0}]
              /\ setting' \in [Paths -> SUBSET SettingRecords]
              /\ trees_mtx' \in Threads \cup {NoThread}
              /\ mtx' \in [Trees -> Threads \cup {NoThread}]
              /\ property_mtx' \in [Paths -> Threads \cup {NoThread}]
              /\ pc' \in [Threads -> PcStates]
              /\ at' \in [Threads -> AtRecords]
  BY <1>17, EmptyText, NowhereType DEF Reset, PcStates
<1>18. CASE Closed
  <2>1. Dying # {} => tree[CHOOSE k \in Dying : TRUE].content \in [Nodes -> Texts]
    BY DEF STypeInv, TreeRecords, Dying
  <2>2. file' \in [Nodes -> Texts] \cup {Torn}
    BY <1>18, <2>1 DEF Closed, STypeInv
  <2> QED
    BY <1>17, <1>18, <2>2 DEF Closed, STypeInv
<1>181. CASE ClosedFails
  BY <1>17, <1>181 DEF ClosedFails, STypeInv
<1>19. CASE Down
  BY <1>17, <1>19 DEF Down, STypeInv
<1>20. CASE Edit
  <2>1. PICK n \in Nodes, text \in Elements \cup {None, Bad, Huge} \cup 0 .. MaxLength :
          file' = [file EXCEPT ![n] = text]
    BY <1>20 DEF Edit
  <2>2. text \in Texts /\ file \in [Nodes -> Texts]
    BY <1>20, SettingsAssumption DEF Edit, Texts, STypeInv
  <2> QED
    BY <1>20, <2>1, <2>2 DEF Edit, STypeInv
<1> QED
  BY <1>1, <1>2, <1>21, <1>22, <1>3, <1>4, <1>5, <1>6, <1>70, <1>8, <1>9, <1>10, <1>11, <1>12, <1>13,
     <1>14, <1>15, <1>16, <1>161, <1>18, <1>181, <1>19, <1>20 DEF Next, Crash, Throw

-----------------------------------------------------------------------------
(* What the steps do to the parts of the state.                              *)
LEMMA GotoAt ==
  ASSUME STypeInv, NEW t \in Threads, NEW to, NEW where, Goto(t, to, where)
  PROVE  /\ pc'[t] = to /\ at'[t] = where
         /\ \A u \in Threads : u # t => pc'[u] = pc[u] /\ at'[u] = at[u]
BY DEF STypeInv, Goto

SameStates == \A k \in Trees : tree'[k].state = tree[k].state

LEMMA StateAt ==
  ASSUME STypeInv, NEW k \in Trees, NEW state, tree' = [tree EXCEPT ![k].state = state]
  PROVE  tree'[k].state = state /\ \A j \in Trees : j # k => tree'[j] = tree[j]
BY DEF STypeInv, TreeRecords

LEMMA RecordAt ==
  ASSUME STypeInv, NEW k \in Trees, NEW record, tree' = [tree EXCEPT ![k] = record]
  PROVE  tree'[k] = record /\ \A j \in Trees : j # k => tree'[j] = tree[j]
BY DEF STypeInv

LEMMA ContentAt ==
  ASSUME STypeInv, NEW k \in Trees, NEW content, tree' = [tree EXCEPT ![k].content = content]
  PROVE  SameStates /\ tree'[k].content = content /\ \A j \in Trees : j # k => tree'[j] = tree[j]
BY DEF STypeInv, TreeRecords, SameStates

LEMMA SameAlive ==
  ASSUME SameStates PROVE Alive' = Alive
BY DEF SameStates, Alive

\* A thread that neither makes nor destroys a tree goes on.
LEMMA MoveKeeps ==
  ASSUME TreeInv, NEW t \in Threads, SameStates, UNCHANGED trees_mtx,
         \A u \in Threads : u # t => pc'[u] = pc[u] /\ at'[u] = at[u],
         {pc[t], pc'[t]} \cap {"share", "read"} = {},
         pc'[t] \in {"open", "close"} => pc[t] \in {"open", "close"} /\ at'[t] = at[t]
  PROVE  ReadInv' /\ DieInv' /\ OneTreePerFile'
<1>1. ReadInv'
  BY DEF TreeInv, ReadInv, SameStates
<1>2. DieInv'
  <2>1. ASSUME NEW u \in Threads, pc'[u] \in {"open", "close"}
        PROVE  pc[u] \in {"open", "close"} /\ at'[u] = at[u]
    BY <2>1
  <2>2. ASSUME NEW u \in Threads, pc'[u] \in {"open", "close"}
        PROVE  at'[u].tree \in Trees /\ tree'[at'[u].tree].state = "dying"
    BY <2>1, <2>2 DEF TreeInv, DieInv, SameStates
  <2>3. ASSUME NEW u \in Threads, NEW w \in Threads, {pc'[u], pc'[w]} \subseteq {"open", "close"},
               at'[u].tree = at'[w].tree
        PROVE  u = w
    BY <2>1, <2>3 DEF TreeInv, DieInv
  <2> QED
    BY <2>2, <2>3 DEF DieInv
<1>3. OneTreePerFile'
  BY DEF TreeInv, OneTreePerFile, SameStates
<1> QED
  BY <1>1, <1>2, <1>3

LEMMA OthersUse ==
  ASSUME TreeInv, NEW u \in Threads, pc'[u] = pc[u], at'[u] = at[u], core'[u] = core[u],
         pc[u] = "update" => /\ property_mtx'[at[u].setting] = property_mtx[at[u].setting]
                             /\ setting'[at[u].setting] = setting[at[u].setting]
  PROVE  Uses(u)'
BY DEF TreeInv, UseInv, Uses

\* What is the same before and after such a step, when it leaves cores and settings alone.
LEMMA QuietMove ==
  ASSUME TreeInv, NEW t \in Threads, SameStates, UNCHANGED <<trees_mtx, core, setting, property_mtx>>,
         \A u \in Threads : u # t => pc'[u] = pc[u] /\ at'[u] = at[u],
         {pc[t], pc'[t]} \cap {"share", "read"} = {},
         pc'[t] \in {"open", "close"} => pc[t] \in {"open", "close"} /\ at'[t] = at[t],
         Uses(t)'
  PROVE  TreeInv'
<1>1. KeepInv'
  BY SameAlive DEF TreeInv, KeepInv
<1>2. UseInv'
  <2> SUFFICES ASSUME NEW u \in Threads PROVE Uses(u)'
    BY DEF UseInv
  <2> QED
    BY OthersUse
<1> QED
  BY <1>1, <1>2, MoveKeeps DEF TreeInv

-----------------------------------------------------------------------------
LEMMA ShareKeeps ==
  ASSUME STypeInv, TreeInv, NEW t \in Threads, Share(t)
  PROVE  TreeInv'
<1>1. PICK k : Goto(t, "share", [Nowhere EXCEPT !.tree = k])
  BY DEF Share
<1>2. /\ UNCHANGED <<tree, core, setting, property_mtx>> /\ pc[t] = "idle"
      /\ trees_mtx = NoThread /\ trees_mtx' = t
  BY DEF Share, Step
<1>3. /\ pc'[t] = "share"
      /\ \A u \in Threads : u # t => pc'[u] = pc[u] /\ at'[u] = at[u]
  BY <1>1, GotoAt
<1>4. \A u \in Threads : pc[u] \notin {"share", "read"}
  BY <1>2, SettingsAssumption DEF TreeInv, ReadInv
<1>5. ReadInv'
  BY <1>2, <1>3, <1>4, SettingsAssumption DEF TreeInv, ReadInv
<1>6. KeepInv'
  BY <1>2 DEF TreeInv, KeepInv, Alive
<1>7. UseInv'
  BY <1>2, <1>3, OthersUse DEF UseInv, Uses
<1>8. DieInv' /\ OneTreePerFile'
  BY <1>2, <1>3 DEF TreeInv, DieInv, OneTreePerFile
<1> QED
  BY <1>5, <1>6, <1>7, <1>8 DEF TreeInv

LEMMA SharedKeeps ==
  ASSUME STypeInv, TreeInv, NEW t \in Threads, Shared(t)
  PROVE  TreeInv'
<1> DEFINE k == at[t].tree
<1>1. /\ pc[t] = "share" /\ k \in Alive /\ core' = [core EXCEPT ![t] = k] /\ trees_mtx' = NoThread
      /\ UNCHANGED <<tree, setting, property_mtx>>
  BY DEF Shared, Step
<1>2. /\ pc'[t] = "idle"
      /\ \A u \in Threads : u # t => pc'[u] = pc[u] /\ at'[u] = at[u]
  BY GotoAt DEF Shared
<1>3. core'[t] = k /\ \A u \in Threads : u # t => core'[u] = core[u]
  BY <1>1 DEF STypeInv
<1>4. \A u \in Threads : u # t => pc[u] \notin {"share", "read"}
  BY <1>1 DEF TreeInv, ReadInv
<1>5. \A j \in Trees : tree[j].state # "reading"
  BY <1>1 DEF TreeInv, ReadInv
<1>6. ReadInv'
  BY <1>1, <1>2, <1>4, <1>5 DEF ReadInv
<1>7. KeepInv'
  BY <1>1, <1>3 DEF TreeInv, KeepInv, Alive
<1>8. UseInv'
  BY <1>1, <1>2, <1>3, OthersUse DEF UseInv, Uses
<1>9. DieInv' /\ OneTreePerFile'
  BY <1>1, <1>2 DEF TreeInv, DieInv, OneTreePerFile
<1> QED
  BY <1>6, <1>7, <1>8, <1>9 DEF TreeInv

LEMMA CreateKeeps ==
  ASSUME STypeInv, TreeInv, NEW t \in Threads, Create(t) \/ SharedGone(t)
  PROVE  TreeInv'
<1>1. PICK k \in Trees : /\ tree[k].state = "none"
                         /\ tree' = [tree EXCEPT ![k].state = "reading"]
                         /\ Goto(t, "read", [Nowhere EXCEPT !.tree = k])
  BY DEF Create, SharedGone, Make
<1>2. /\ UNCHANGED <<core, setting, property_mtx>> /\ pc[t] \in {"idle", "share"}
      /\ trees_mtx = NoThread \/ (trees_mtx = t /\ pc[t] = "share")
      /\ trees_mtx' = t /\ Alive = {}
  BY DEF Create, SharedGone, Make, Step, TreeInv, ReadInv
<1>3. tree'[k].state = "reading" /\ \A j \in Trees : j # k => tree'[j] = tree[j]
  BY <1>1, StateAt
<1>4. /\ pc'[t] = "read" /\ at'[t].tree = k
      /\ \A u \in Threads : u # t => pc'[u] = pc[u] /\ at'[u] = at[u]
  BY <1>1, GotoAt DEF Nowhere
<1>5. \A j \in Trees : tree[j].state \notin {"reading", "live"}
  BY <1>2, SettingsAssumption DEF TreeInv, ReadInv, Alive
<1>6. \A u \in Threads : u # t => pc[u] \notin {"share", "read"}
  BY <1>2, SettingsAssumption DEF TreeInv, ReadInv
<1>7. ReadInv'
  BY <1>2, <1>3, <1>4, <1>5, <1>6, SettingsAssumption DEF ReadInv
<1>8. KeepInv'
  BY <1>2, <1>3 DEF TreeInv, KeepInv, Alive
<1>9. UseInv'
  BY <1>2, <1>4, OthersUse DEF UseInv, Uses
<1>10. DieInv'
  BY <1>1, <1>3, <1>4 DEF TreeInv, DieInv
<1>11. OneTreePerFile'
  BY <1>3, <1>5 DEF OneTreePerFile
<1> QED
  BY <1>7, <1>8, <1>9, <1>10, <1>11 DEF TreeInv

LEMMA MadeKeeps ==
  ASSUME STypeInv, TreeInv, NEW t \in Threads, NEW content, Made(t, content)
  PROVE  TreeInv'
<1> DEFINE k == at[t].tree
<1>1. /\ pc[t] = "read" /\ core' = [core EXCEPT ![t] = k] /\ trees_mtx' = NoThread
      /\ UNCHANGED <<setting, property_mtx>>
  BY DEF Made, Step
<1>2. k \in Trees /\ tree[k].state = "reading" /\ trees_mtx = t
  BY <1>1 DEF TreeInv, ReadInv
<1>3. tree'[k].state = "live" /\ \A j \in Trees : j # k => tree'[j] = tree[j]
  <2> DEFINE record == [state |-> "live", content |-> content]
  <2>1. tree' = [tree EXCEPT ![k] = record]
    BY DEF Made
  <2>2. record.state = "live"
    OBVIOUS
  <2> HIDE DEF record
  <2> QED
    BY <1>2, <2>1, <2>2, RecordAt
<1>4. /\ pc'[t] = "idle"
      /\ \A u \in Threads : u # t => pc'[u] = pc[u] /\ at'[u] = at[u]
  BY GotoAt DEF Made
<1>5. core'[t] = k /\ \A u \in Threads : u # t => core'[u] = core[u]
  BY <1>1 DEF STypeInv
<1>6. \A j \in Trees : j # k => tree[j].state \notin {"reading", "live"}
  BY <1>2 DEF TreeInv, OneTreePerFile
<1>7. ReadInv'
  <2>1. \A j \in Trees : tree'[j].state # "reading"
    BY <1>3, <1>6
  <2>2. \A u \in Threads : u # t => pc[u] \notin {"share", "read"}
    BY <1>2 DEF TreeInv, ReadInv
  <2> QED
    BY <1>4, <2>1, <2>2 DEF ReadInv
<1>8. KeepInv'
  BY <1>1, <1>2, <1>3, <1>5 DEF TreeInv, KeepInv, Alive
<1>9. UseInv'
  BY <1>1, <1>4, <1>5, OthersUse DEF UseInv, Uses
<1>10. DieInv'
  BY <1>2, <1>3, <1>4 DEF TreeInv, DieInv
<1>11. OneTreePerFile'
  BY <1>3, <1>6 DEF OneTreePerFile
<1> QED
  BY <1>7, <1>8, <1>9, <1>10, <1>11 DEF TreeInv

LEMMA DropKeeps ==
  ASSUME STypeInv, TreeInv, NEW t \in Threads, Drop(t)
  PROVE  TreeInv'
<1> DEFINE k == core[t]
<1>1. /\ pc[t] = "idle" /\ k # 0 /\ core' = [core EXCEPT ![t] = 0]
      /\ UNCHANGED <<setting, trees_mtx, property_mtx>>
  BY DEF Drop, Step
<1>2. k \in Trees /\ tree[k].state = "live"
  BY <1>1 DEF TreeInv, KeepInv, Alive
<1>3. core'[t] = 0 /\ \A u \in Threads : u # t => core'[u] = core[u]
  BY <1>1 DEF STypeInv
<1>4. CASE ~LastOwner(t, k)
  <2>1. UNCHANGED <<tree, pc, at>>
    BY <1>4 DEF Drop
  <2>2. KeepInv'
    BY <1>1, <1>3, <2>1 DEF TreeInv, KeepInv, Alive
  <2>3. UseInv'
    BY <1>1, <1>3, <2>1 DEF TreeInv, UseInv, Uses
  <2>4. ReadInv' /\ DieInv' /\ OneTreePerFile'
    BY <1>1, <2>1 DEF TreeInv, ReadInv, DieInv, OneTreePerFile
  <2> QED
    BY <2>2, <2>3, <2>4 DEF TreeInv
<1>5. CASE LastOwner(t, k)
  <2>1. tree' = [tree EXCEPT ![k].state = "dying"] /\ Goto(t, "open", [Nowhere EXCEPT !.tree = k])
    BY <1>5 DEF Drop
  <2>2. tree'[k].state = "dying" /\ \A j \in Trees : j # k => tree'[j] = tree[j]
    BY <1>2, <2>1, StateAt
  <2>3. /\ pc'[t] = "open" /\ at'[t].tree = k
        /\ \A u \in Threads : u # t => pc'[u] = pc[u] /\ at'[u] = at[u]
    BY <2>1, GotoAt DEF Nowhere
  <2>4. ReadInv'
    BY <1>1, <1>2, <2>2, <2>3 DEF TreeInv, ReadInv
  <2>5. KeepInv'
    <3>1. ASSUME NEW u \in Threads, core'[u] # 0 PROVE core'[u] \in Alive'
      BY <1>3, <1>5, <2>2, <3>1 DEF LastOwner, TreeInv, KeepInv, Alive
    <3>2. ASSUME NEW s \in Paths, NEW p \in setting[s] PROVE p.tree \in Alive'
      BY <1>5, <2>2, <3>2 DEF LastOwner, TreeInv, KeepInv, Alive
    <3> QED
      BY <1>1, <3>1, <3>2 DEF KeepInv
  <2>6. UseInv'
    BY <1>1, <1>3, <2>3, OthersUse DEF UseInv, Uses
  <2>7. DieInv'
    <3>1. \A u \in Threads : pc[u] \in {"open", "close"} => at[u].tree # k
      BY <1>2 DEF TreeInv, DieInv
    <3>2. ASSUME NEW u \in Threads, pc'[u] \in {"open", "close"}
          PROVE  at'[u].tree \in Trees /\ tree'[at'[u].tree].state = "dying"
      BY <1>2, <2>2, <2>3, <3>1, <3>2 DEF TreeInv, DieInv
    <3>3. ASSUME NEW u \in Threads, NEW w \in Threads, {pc'[u], pc'[w]} \subseteq {"open", "close"},
                 at'[u].tree = at'[w].tree
          PROVE  u = w
      BY <2>3, <3>1, <3>3 DEF TreeInv, DieInv
    <3> QED
      BY <3>2, <3>3 DEF DieInv
  <2>8. OneTreePerFile'
    BY <1>2, <2>2 DEF TreeInv, OneTreePerFile
  <2> QED
    BY <2>4, <2>5, <2>6, <2>7, <2>8 DEF TreeInv
<1> QED
  BY <1>4, <1>5

LEMMA DestroyedKeeps ==
  ASSUME STypeInv, TreeInv, NEW t \in Threads, pc[t] \in {"open", "close"}, Destroyed(t)
  PROVE  TreeInv'
<1> DEFINE k == at[t].tree
<1>1. /\ pc[t] \in {"open", "close"} /\ tree' = [tree EXCEPT ![k] = NoTree] /\ Goto(t, "idle", Nowhere)
      /\ UNCHANGED <<core, setting, trees_mtx, property_mtx>>
  BY DEF Destroyed
<1>2. k \in Trees /\ tree[k].state = "dying"
  BY <1>1 DEF TreeInv, DieInv
<1>3. tree'[k].state = "none" /\ \A j \in Trees : j # k => tree'[j] = tree[j]
  <2>1. NoTree.state = "none"
    BY DEF NoTree
  <2> QED
    BY <1>1, <1>2, <2>1, RecordAt
<1>4. /\ pc'[t] = "idle"
      /\ \A u \in Threads : u # t => pc'[u] = pc[u] /\ at'[u] = at[u]
  BY <1>1, GotoAt
<1>5. ReadInv'
  BY <1>1, <1>2, <1>3, <1>4 DEF TreeInv, ReadInv
<1>6. KeepInv'
  BY <1>1, <1>2, <1>3 DEF TreeInv, KeepInv, Alive
<1>7. UseInv'
  BY <1>1, <1>4, OthersUse DEF UseInv, Uses
<1>8. DieInv'
  <2>1. \A u \in Threads : u # t /\ pc[u] \in {"open", "close"} => at[u].tree # k
    BY <1>1 DEF TreeInv, DieInv
  <2> QED
    BY <1>3, <1>4, <2>1 DEF TreeInv, DieInv
<1>9. OneTreePerFile'
  BY <1>2, <1>3 DEF TreeInv, OneTreePerFile
<1> QED
  BY <1>5, <1>6, <1>7, <1>8, <1>9 DEF TreeInv

LEMMA CreatedKeeps ==
  ASSUME STypeInv, TreeInv, NEW t \in Threads, PropertyCreated(t)
  PROVE  TreeInv'
<1> DEFINE k == at[t].tree  s == at[t].setting  value == Created(tree[k].content, s)
<1>1. /\ pc[t] = "property"
      /\ tree' = [tree EXCEPT ![k].content = write(tree[k].content, s, value)]
      /\ Goto(t, "emplace", [at[t] EXCEPT !.value = value])
      /\ UNCHANGED <<trees_mtx, core, setting, property_mtx>>
  BY CreatedStep
<1>2. k \in Trees /\ s \in Paths /\ tree[k].content \in [Nodes -> Texts] /\ at[t] \in AtRecords
  BY <1>1, AtTree
<1>3. Fits(s, value)
  BY <1>2, CreatedFits
<1> HIDE DEF value
<1>4. SameStates
  BY <1>1, <1>2, ContentAt
<1>5. /\ pc'[t] = "emplace" /\ at'[t] = [at[t] EXCEPT !.value = value]
      /\ \A u \in Threads : u # t => pc'[u] = pc[u] /\ at'[u] = at[u]
  BY <1>1, GotoAt
<1>6. at'[t].tree = k /\ at'[t].setting = s /\ at'[t].value = value
  BY <1>2, <1>5 DEF AtRecords
<1>7. Uses(t)'
  BY <1>1, <1>2, <1>3, <1>5, <1>6 DEF TreeInv, UseInv, Uses
<1> QED
  BY <1>1, <1>4, <1>5, <1>7, QuietMove

LEMMA EmplacedKeeps ==
  ASSUME STypeInv, TreeInv, NEW t \in Threads, Emplaced(t)
  PROVE  TreeInv'
<1> DEFINE s == at[t].setting  p == [tree |-> at[t].tree, value |-> at[t].value]
<1>1. /\ pc[t] = "emplace" /\ setting' = [setting EXCEPT ![s] = IF @ = {} THEN {p} ELSE @]
      /\ Goto(t, "idle", Nowhere) /\ UNCHANGED <<tree, trees_mtx, core, property_mtx>>
  BY DEF Emplaced, Step
<1>2. s \in Paths /\ p.tree \in Alive
  BY <1>1, AtTree DEF Alive
<1>3. \A r \in Paths : setting'[r] = setting[r] \/ (r = s /\ setting[r] = {} /\ setting'[r] = {p})
  BY <1>1, <1>2 DEF STypeInv
<1>4. /\ pc'[t] = "idle"
      /\ \A u \in Threads : u # t => pc'[u] = pc[u] /\ at'[u] = at[u]
  BY <1>1, GotoAt
<1>5. SameStates
  BY <1>1 DEF SameStates
<1>6. KeepInv'
  BY <1>1, <1>2, <1>3, <1>5, SameAlive DEF TreeInv, KeepInv
<1>7. UseInv'
  <2> SUFFICES ASSUME NEW u \in Threads PROVE Uses(u)'
    BY DEF UseInv
  <2>1. CASE u = t
    BY <1>4, <2>1 DEF Uses
  <2>2. CASE u # t
    <3>1. pc[u] = "update" => at[u].setting \in Paths /\ setting[at[u].setting] # {}
      BY DEF TreeInv, UseInv, Uses
    <3>2. pc[u] = "update" => setting'[at[u].setting] = setting[at[u].setting]
      BY <1>3, <3>1
    <3> QED
      BY <1>1, <1>4, <2>2, <3>2, OthersUse
  <2> QED
    BY <2>1, <2>2
<1> QED
  BY <1>1, <1>4, <1>5, <1>6, <1>7, MoveKeeps DEF TreeInv

LEMMA SetKeeps ==
  ASSUME STypeInv, TreeInv, NEW t \in Threads, SetValue(t)
  PROVE  TreeInv'
<1> DEFINE Sets(s, p, v) ==
      /\ property_mtx[s] = NoThread
      /\ setting' = [setting EXCEPT ![s] = {[p EXCEPT !.value = v]}]
      /\ property_mtx' = [property_mtx EXCEPT ![s] = t]
      /\ Goto(t, "update", [tree |-> p.tree, setting |-> s, value |-> v])
<1>1. PICK s \in Paths : \E p \in setting[s] : \E v \in Values[s] : Sets(s, p, v)
  BY DEF SetValue
<1>2. PICK p \in setting[s], v \in Values[s] : Sets(s, p, v)
  BY <1>1
<1>3. pc[t] = "idle" /\ UNCHANGED <<tree, trees_mtx, core>>
  BY DEF SetValue, Step
<1>4. p \in SettingRecords /\ p.tree \in Alive /\ Fits(s, v)
  BY ValuesFit DEF STypeInv, TreeInv, KeepInv
<1>5. [p EXCEPT !.value = v] = [tree |-> p.tree, value |-> v]
  BY <1>4 DEF SettingRecords
<1>6. /\ setting'[s] = {[tree |-> p.tree, value |-> v]} /\ property_mtx'[s] = t
      /\ \A r \in Paths : r # s => setting'[r] = setting[r] /\ property_mtx'[r] = property_mtx[r]
  BY <1>2, <1>5 DEF STypeInv
<1>7. /\ pc'[t] = "update" /\ at'[t] = [tree |-> p.tree, setting |-> s, value |-> v]
      /\ \A u \in Threads : u # t => pc'[u] = pc[u] /\ at'[u] = at[u]
  BY <1>2, GotoAt
<1>8. SameStates
  BY <1>3 DEF SameStates
<1>9. KeepInv'
  BY <1>3, <1>4, <1>6, <1>8, SameAlive DEF TreeInv, KeepInv
<1>10. UseInv'
  <2> SUFFICES ASSUME NEW u \in Threads PROVE Uses(u)'
    BY DEF UseInv
  <2>1. CASE u = t
    BY <1>4, <1>6, <1>7, <2>1 DEF Uses, Alive
  <2>2. CASE u # t
    <3>1. pc[u] = "update" => at[u].setting \in Paths /\ property_mtx[at[u].setting] = u
      BY DEF TreeInv, UseInv, Uses
    <3>2. pc[u] = "update" => at[u].setting # s
      BY <1>2, <3>1, SettingsAssumption
    <3> QED
      BY <1>3, <1>6, <1>7, <2>2, <3>1, <3>2, OthersUse
  <2> QED
    BY <2>1, <2>2
<1> QED
  BY <1>3, <1>7, <1>8, <1>9, <1>10, MoveKeeps DEF TreeInv

LEMMA UpdatedKeeps ==
  ASSUME STypeInv, TreeInv, NEW t \in Threads, Updated(t)
  PROVE  TreeInv'
<1> DEFINE s == at[t].setting  k == at[t].tree
<1>1. /\ pc[t] = "update"
      /\ tree' = [tree EXCEPT ![k].content = write(@, s, at[t].value)]
      /\ property_mtx' = [property_mtx EXCEPT ![s] = NoThread]
      /\ Goto(t, "idle", Nowhere) /\ UNCHANGED <<trees_mtx, core, setting>>
  BY DEF Updated, Step
<1>2. k \in Trees /\ s \in Paths /\ property_mtx[s] = t
  BY <1>1 DEF TreeInv, UseInv, Uses
<1>3. SameStates
  BY <1>1, <1>2, ContentAt
<1>4. /\ pc'[t] = "idle"
      /\ \A u \in Threads : u # t => pc'[u] = pc[u] /\ at'[u] = at[u]
  BY <1>1, GotoAt
<1>5. KeepInv'
  BY <1>1, <1>3, SameAlive DEF TreeInv, KeepInv
<1>6. UseInv'
  <2> SUFFICES ASSUME NEW u \in Threads PROVE Uses(u)'
    BY DEF UseInv
  <2>1. CASE u = t
    BY <1>4, <2>1 DEF Uses
  <2>2. CASE u # t
    <3>1. pc[u] = "update" => at[u].setting \in Paths /\ property_mtx[at[u].setting] = u
      BY DEF TreeInv, UseInv, Uses
    <3>2. pc[u] = "update" => property_mtx'[at[u].setting] = property_mtx[at[u].setting]
      BY <1>1, <1>2, <2>2, <3>1 DEF STypeInv
    <3> QED
      BY <1>1, <1>4, <2>2, <3>2, OthersUse
  <2> QED
    BY <2>1, <2>2
<1> QED
  BY <1>1, <1>3, <1>4, <1>5, <1>6, MoveKeeps DEF TreeInv

LEMMA ResetKeeps ==
  ASSUME Reset PROVE TreeInv'
<1>1. /\ \A k \in Trees : tree'[k].state = "none"
      /\ \A t \in Threads : core'[t] = 0 /\ pc'[t] = "idle"
      /\ \A s \in Paths : setting'[s] = {}
  BY DEF Reset, NoTree
<1> QED
  BY <1>1 DEF TreeInv, ReadInv, KeepInv, UseInv, Uses, DieInv, OneTreePerFile, Alive

LEMMA TreeStep ==
  ASSUME STypeInv, TreeInv, [Next]_vars
  PROVE  TreeInv'
<1>1. CASE UNCHANGED <<tree, core, setting, trees_mtx, property_mtx, pc, at>>
  BY <1>1 DEF TreeInv, ReadInv, KeepInv, UseInv, Uses, DieInv, OneTreePerFile, Alive
<1>2. ASSUME NEW t \in Threads, NEW to \in {"idle", "close", "settings"}, NEW where,
             Goto(t, to, where), to = "close" => pc[t] = "open" /\ where = at[t],
             pc[t] \notin {"share", "read"},
             UNCHANGED <<tree, trees_mtx, core, setting, property_mtx>>
      PROVE  TreeInv'
  <2>1. /\ pc'[t] = to /\ at'[t] = where
        /\ \A u \in Threads : u # t => pc'[u] = pc[u] /\ at'[u] = at[u]
    BY <1>2, GotoAt
  <2>2. Uses(t)'
    BY <2>1 DEF Uses
  <2>3. SameStates
    BY <1>2 DEF SameStates
  <2> QED
    BY <1>2, <2>1, <2>2, <2>3, QuietMove
<1>3. ASSUME NEW t \in Threads, CreateProperty(t) PROVE TreeInv'
  <2>1. PICK s \in Paths : Goto(t, "property", [tree |-> core[t], setting |-> s, value |-> << >>])
    BY <1>3 DEF CreateProperty
  <2>2. pc[t] = "idle" /\ core[t] # 0 /\ UNCHANGED <<tree, trees_mtx, core, setting, property_mtx>>
    BY <1>3 DEF CreateProperty, Step
  <2>3. /\ pc'[t] = "property" /\ at'[t] = [tree |-> core[t], setting |-> s, value |-> << >>]
        /\ \A u \in Threads : u # t => pc'[u] = pc[u] /\ at'[u] = at[u]
    BY <2>1, GotoAt
  <2>4. Uses(t)'
    BY <2>2, <2>3 DEF Uses
  <2>5. SameStates
    BY <2>2 DEF SameStates
  <2> QED
    BY <2>2, <2>3, <2>4, <2>5, QuietMove
<1>4. ASSUME NEW t \in Threads, DtorOpen(t) \/ List(t) \/ Listed(t) PROVE TreeInv'
  BY <1>2, <1>4 DEF DtorOpen, List, Listed, Step
<1>5. CASE End
  <2>1. /\ \A k \in Trees : tree'[k].state = IF tree[k].state = "live" THEN "dying" ELSE tree[k].state
        /\ \A t \in Threads : core'[t] = 0 /\ pc[t] = "idle"
        /\ \A s \in Paths : setting'[s] = {}
        /\ UNCHANGED <<trees_mtx, property_mtx, pc, at>>
    BY <1>5 DEF End, Ending, Alive, STypeInv, TreeRecords
  <2> QED
    BY <2>1 DEF TreeInv, ReadInv, KeepInv, UseInv, Uses, DieInv, OneTreePerFile, Alive
<1>51. CASE EndFails
  <2>1. /\ \A k \in Trees : tree'[k].state = "none"
        /\ \A t \in Threads : core'[t] = 0 /\ pc[t] = "idle"
        /\ \A s \in Paths : setting'[s] = {}
        /\ UNCHANGED <<trees_mtx, property_mtx, pc, at>>
    BY <1>51 DEF EndFails, Ending, NoTree
  <2> QED
    BY <2>1 DEF TreeInv, ReadInv, KeepInv, UseInv, Uses, DieInv, OneTreePerFile, Alive
<1>6. CASE Start \/ Edit \/ UNCHANGED vars
  BY <1>1, <1>6 DEF Start, Edit, vars
<1>7. CASE Closed \/ ClosedFails \/ Down
  BY <1>7, ResetKeeps DEF Closed, ClosedFails, Down
<1>8. ASSUME NEW t \in Threads, SharedNull(t) PROVE TreeInv'
  BY <1>1, <1>8 DEF SharedNull
<1>9. ASSUME NEW t \in Threads, Read(t) \/ ReadFails(t) PROVE TreeInv'
  BY <1>9, MadeKeeps DEF Read, ReadFails
<1>10. ASSUME NEW t \in Threads, DtorClose(t) \/ DtorCloseFails(t) \/ DtorOpenFails(t) PROVE TreeInv'
  BY <1>10, DestroyedKeeps DEF DtorClose, DtorCloseFails, DtorOpenFails, Step
<1> QED
  BY <1>3, <1>4, <1>5, <1>51, <1>6, <1>7, <1>8, <1>9, <1>10, ShareKeeps, SharedKeeps, CreateKeeps, DropKeeps,
     CreatedKeeps, EmplacedKeeps, SetKeeps, UpdatedKeeps DEF Next, Crash, Throw

-----------------------------------------------------------------------------
(* What a setting is and what its tree says.                                  *)
LEMMA AliveTree ==
  ASSUME TreeInv, STypeInv
  PROVE  /\ \A s \in Paths : \A p \in setting[s] : p.tree \in Alive
         /\ \A t \in Threads : pc[t] = "emplace" => at[t].tree \in Alive /\ at[t].setting \in Paths
         /\ \A k \in Alive : k \in Trees /\ tree[k].content \in [Nodes -> Texts]
BY DEF TreeInv, KeepInv, UseInv, Uses, Alive, STypeInv, TreeRecords

\* Trees that are alive are not written, and nothing is added.
LEMMA QuietHolds ==
  ASSUME STypeInv, TreeInv, Hold, UNCHANGED <<setting, property_mtx>>,
         \A k \in Alive : tree'[k].content = tree[k].content,
         \A u \in Threads : pc'[u] = "emplace" => pc[u] = "emplace" /\ at'[u] = at[u]
  PROVE  Hold'
<1>1. ASSUME NEW s \in Paths, NEW p \in setting[s] PROVE Told(s, p)'
  BY AliveTree DEF Hold, Told
<1>2. ASSUME NEW u \in Threads PROVE WillBe(u)'
  BY AliveTree DEF Hold, WillBe
<1> QED
  BY <1>1, <1>2 DEF Hold

LEMMA CreatedHolds ==
  ASSUME STypeInv, TreeInv, Hold, NEW t \in Threads, PropertyCreated(t)
  PROVE  Hold'
<1> DEFINE k == at[t].tree  s == at[t].setting  value == Created(tree[k].content, s)
           content == write(tree[k].content, s, value)
<1>1. /\ pc[t] = "property" /\ tree' = [tree EXCEPT ![k].content = content]
      /\ Goto(t, "emplace", [at[t] EXCEPT !.value = value])
      /\ UNCHANGED <<setting, property_mtx>>
  BY CreatedStep
<1>2. k \in Trees /\ s \in Paths /\ tree[k].content \in [Nodes -> Texts] /\ at[t] \in AtRecords
  BY <1>1, AtTree
<1>3. Fits(s, value)
  BY <1>2, CreatedFits
<1>4. \A v : read(tree[k].content, s) = {v} => value = v
  BY DEF Created
<1> HIDE DEF value
<1>5. /\ read(content, s) = {value}
      /\ \A r \in Paths : r # s => read(content, r) = read(tree[k].content, r)
  BY <1>2, <1>3, ReadOfWritten, ReadOfOther
<1> HIDE DEF content
<1>6. tree'[k].content = content /\ \A j \in Trees : j # k => tree'[j] = tree[j]
  BY <1>1, <1>2, ContentAt
<1>7. /\ pc'[t] = "emplace" /\ at'[t].tree = k /\ at'[t].setting = s /\ at'[t].value = value
      /\ \A u \in Threads : u # t => pc'[u] = pc[u] /\ at'[u] = at[u]
  BY <1>1, <1>2, GotoAt DEF AtRecords
\* What tree j said of setting r when that was v, it says still.
<1>8. ASSUME NEW j \in Trees, NEW r \in Paths, NEW v, read(tree[j].content, r) = {v}
      PROVE  read(tree'[j].content, r) = {v}
  BY <1>4, <1>5, <1>6, <1>8
<1>9. ASSUME NEW r \in Paths, NEW p \in setting[r] PROVE Told(r, p)'
  <2>1. p.tree \in Trees
    BY AliveTree
  <2>2. property_mtx[r] = NoThread => read(tree[p.tree].content, r) = {p.value}
    BY <1>9 DEF Hold, Told
  <2>3. property_mtx[r] = NoThread => read(tree'[p.tree].content, r) = {p.value}
    BY <1>8, <2>1, <2>2
  <2>4. property_mtx' = property_mtx
    BY <1>1
  <2> QED
    BY <2>3, <2>4 DEF Told
<1>10. ASSUME NEW u \in Threads PROVE WillBe(u)'
  <2>1. CASE u = t
    BY <1>5, <1>6, <1>7, <2>1 DEF WillBe
  <2>2. CASE u # t
    <3>1. pc[u] = "emplace" => at[u].tree \in Trees /\ at[u].setting \in Paths
      BY AliveTree
    <3>2. pc[u] = "emplace" /\ setting[at[u].setting] = {} =>
            read(tree[at[u].tree].content, at[u].setting) = {at[u].value}
      BY DEF Hold, WillBe
    <3>3. pc[u] = "emplace" /\ setting[at[u].setting] = {} =>
            read(tree'[at[u].tree].content, at[u].setting) = {at[u].value}
      BY <1>8, <3>1, <3>2
    <3>4. pc'[u] = pc[u] /\ at'[u] = at[u] /\ setting' = setting
      BY <1>1, <1>7, <2>2
    <3> QED
      BY <3>3, <3>4 DEF WillBe
  <2> QED
    BY <2>1, <2>2
<1> QED
  BY <1>1, <1>9, <1>10 DEF Hold

LEMMA EmplacedHolds ==
  ASSUME STypeInv, TreeInv, Hold, NEW t \in Threads, Emplaced(t)
  PROVE  Hold'
<1> DEFINE s == at[t].setting  p == [tree |-> at[t].tree, value |-> at[t].value]
<1>1. /\ pc[t] = "emplace" /\ setting' = [setting EXCEPT ![s] = IF @ = {} THEN {p} ELSE @]
      /\ Goto(t, "idle", Nowhere) /\ UNCHANGED <<tree, property_mtx>>
  BY DEF Emplaced, Step
<1>2. s \in Paths
  BY <1>1, AtTree
<1>3. \A r \in Paths : setting'[r] = setting[r] \/ (r = s /\ setting[r] = {} /\ setting'[r] = {p})
  BY <1>1, <1>2 DEF STypeInv
<1>4. /\ pc'[t] = "idle"
      /\ \A u \in Threads : u # t => pc'[u] = pc[u] /\ at'[u] = at[u]
  BY <1>1, GotoAt
<1>5. setting[s] = {} => read(tree[p.tree].content, s) = {p.value}
  BY <1>1 DEF Hold, WillBe
<1>6. ASSUME NEW r \in Paths, NEW q \in setting'[r] PROVE Told(r, q)'
  <2>1. CASE q \in setting[r]
    BY <1>1, <2>1 DEF Hold, Told
  <2>2. CASE r = s /\ setting[r] = {} /\ q = p
    BY <1>1, <1>5, <2>2 DEF Told
  <2> QED
    BY <1>3, <2>1, <2>2
<1>7. ASSUME NEW u \in Threads PROVE WillBe(u)'
  <2>1. pc'[u] = "emplace" => /\ u # t /\ pc[u] = "emplace" /\ at'[u] = at[u]
                              /\ at[u].setting \in Paths
    BY <1>4, AliveTree
  <2> QED
    BY <1>1, <1>3, <2>1 DEF Hold, WillBe
<1> QED
  BY <1>6, <1>7 DEF Hold

LEMMA SetHolds ==
  ASSUME STypeInv, TreeInv, Hold, NEW t \in Threads, SetValue(t)
  PROVE  Hold'
<1> DEFINE Sets(s, p, v) ==
      /\ setting' = [setting EXCEPT ![s] = {[p EXCEPT !.value = v]}]
      /\ property_mtx' = [property_mtx EXCEPT ![s] = t]
      /\ Goto(t, "update", [tree |-> p.tree, setting |-> s, value |-> v])
<1>1. PICK s \in Paths : \E p \in setting[s] : \E v \in Values[s] : Sets(s, p, v)
  BY DEF SetValue
<1>2. PICK p \in setting[s], v \in Values[s] : Sets(s, p, v)
  BY <1>1
<1>3. UNCHANGED tree
  BY DEF SetValue
<1>4. /\ setting'[s] # {} /\ property_mtx'[s] # NoThread
      /\ \A r \in Paths : r # s => setting'[r] = setting[r] /\ property_mtx'[r] = property_mtx[r]
  BY <1>2, SettingsAssumption DEF STypeInv
<1>5. /\ pc'[t] = "update"
      /\ \A u \in Threads : u # t => pc'[u] = pc[u] /\ at'[u] = at[u]
  BY <1>2, GotoAt
<1>6. ASSUME NEW r \in Paths, NEW q \in setting'[r] PROVE Told(r, q)'
  BY <1>3, <1>4 DEF Hold, Told
<1>7. ASSUME NEW u \in Threads PROVE WillBe(u)'
  <2>1. pc'[u] = "emplace" => pc[u] = "emplace" /\ at'[u] = at[u] /\ at[u].setting \in Paths
    BY <1>5, AliveTree
  <2> QED
    BY <1>3, <1>4, <2>1 DEF Hold, WillBe
<1> QED
  BY <1>6, <1>7 DEF Hold

LEMMA UpdatedHolds ==
  ASSUME STypeInv, TreeInv, Hold, NEW t \in Threads, Updated(t)
  PROVE  Hold'
<1> DEFINE s == at[t].setting  k == at[t].tree  content == write(tree[k].content, s, at[t].value)
<1>1. /\ pc[t] = "update" /\ tree' = [tree EXCEPT ![k].content = content]
      /\ property_mtx' = [property_mtx EXCEPT ![s] = NoThread]
      /\ Goto(t, "idle", Nowhere) /\ UNCHANGED setting
  BY DEF Updated, Step
<1>2. /\ k \in Trees /\ s \in Paths /\ Fits(s, at[t].value)
      /\ setting[s] = {[tree |-> k, value |-> at[t].value]}
  BY <1>1 DEF TreeInv, UseInv, Uses
<1>3. tree[k].content \in [Nodes -> Texts]
  BY <1>1, AtTree
<1>4. /\ read(content, s) = {at[t].value}
      /\ \A r \in Paths : r # s => read(content, r) = read(tree[k].content, r)
  BY <1>2, <1>3, ReadOfWritten, ReadOfOther
<1> HIDE DEF content
<1>5. tree'[k].content = content /\ \A j \in Trees : j # k => tree'[j] = tree[j]
  BY <1>1, <1>2, ContentAt
<1>6. \A j \in Trees, r \in Paths : r # s => read(tree'[j].content, r) = read(tree[j].content, r)
  BY <1>4, <1>5
<1>7. /\ pc'[t] = "idle"
      /\ \A u \in Threads : u # t => pc'[u] = pc[u] /\ at'[u] = at[u]
  BY <1>1, GotoAt
<1>8. \A r \in Paths : r # s => property_mtx'[r] = property_mtx[r]
  BY <1>1 DEF STypeInv
<1>9. ASSUME NEW r \in Paths, NEW q \in setting'[r] PROVE Told(r, q)'
  <2>1. CASE r = s
    BY <1>1, <1>2, <1>4, <1>5, <2>1 DEF Told
  <2>2. CASE r # s
    <3>1. q \in setting[r] /\ q.tree \in Trees
      BY <1>1, AliveTree
    <3> QED
      BY <1>6, <1>8, <2>2, <3>1 DEF Hold, Told
  <2> QED
    BY <2>1, <2>2
<1>10. ASSUME NEW u \in Threads PROVE WillBe(u)'
  <2>1. pc'[u] = "emplace" => /\ pc[u] = "emplace" /\ at'[u] = at[u]
                              /\ at[u].tree \in Trees /\ at[u].setting \in Paths
    BY <1>7, AliveTree
  <2>2. pc[u] = "emplace" /\ setting[at[u].setting] = {} =>
          /\ at[u].setting # s
          /\ read(tree[at[u].tree].content, at[u].setting) = {at[u].value}
    BY <1>2 DEF Hold, WillBe
  <2>3. pc'[u] = "emplace" /\ setting[at[u].setting] = {} =>
          read(tree'[at[u].tree].content, at[u].setting) = {at[u].value}
    BY <1>6, <2>1, <2>2
  <2>4. setting' = setting /\ (pc'[u] = "emplace" => at'[u] = at[u])
    BY <1>1, <2>1
  <2> QED
    BY <2>3, <2>4 DEF WillBe
<1> QED
  BY <1>9, <1>10 DEF Hold

LEMMA HoldStep ==
  ASSUME STypeInv, TreeInv, HoldInv, [Next]_vars
  PROVE  HoldInv'
<1>1. CASE UNCHANGED vars
  BY <1>1 DEF vars, HoldInv, Hold, Told, WillBe
<1> SUFFICES ASSUME Hold, Next PROVE Hold'
  BY <1>1 DEF HoldInv, Next
\* A tree that is written is not alive, or none is.
<1>2. ASSUME NEW t \in Threads, NEW to, to # "emplace", NEW where, Goto(t, to, where)
      PROVE  \A u \in Threads : pc'[u] = "emplace" => pc[u] = "emplace" /\ at'[u] = at[u]
  BY <1>2, GotoAt
<1>3. ASSUME NEW t \in Threads, DtorOpen(t) \/ List(t) \/ Listed(t) \/ CreateProperty(t) PROVE Hold'
  <2>1. \A u \in Threads : pc'[u] = "emplace" => pc[u] = "emplace" /\ at'[u] = at[u]
    BY <1>2, <1>3 DEF DtorOpen, List, Listed, CreateProperty
  <2> QED
    BY <1>3, <2>1, QuietHolds DEF DtorOpen, List, Listed, CreateProperty
<1>4. ASSUME NEW t \in Threads, Share(t) \/ Shared(t) \/ SharedNull(t) PROVE Hold'
  <2>1. \A u \in Threads : pc'[u] = "emplace" => pc[u] = "emplace" /\ at'[u] = at[u]
    BY <1>2, <1>4 DEF Share, Shared, SharedNull
  <2> QED
    BY <1>4, <2>1, QuietHolds DEF Share, Shared, SharedNull
<1>5. ASSUME NEW t \in Threads, Create(t) \/ SharedGone(t) PROVE Hold'
  <2>1. \A u \in Threads : pc'[u] = "emplace" => pc[u] = "emplace" /\ at'[u] = at[u]
    BY <1>2, <1>5 DEF Create, SharedGone, Make
  <2> QED
    BY <1>5, <2>1, QuietHolds DEF Create, SharedGone, Make
<1>6. ASSUME NEW t \in Threads, NEW content, Made(t, content) PROVE Hold'
  <2>1. \A u \in Threads : pc'[u] = "emplace" => pc[u] = "emplace" /\ at'[u] = at[u]
    BY <1>2, <1>6 DEF Made
  <2>2. at[t].tree \in Trees /\ at[t].tree \notin Alive
    BY <1>6 DEF Made, Step, TreeInv, ReadInv, Alive
  <2>3. \A k \in Alive : tree'[k] = tree[k]
    BY <1>6, <2>2 DEF Made, Alive, STypeInv
  <2> QED
    BY <1>6, <2>1, <2>3, QuietHolds DEF Made
<1>7. ASSUME NEW t \in Threads, Drop(t) PROVE Hold'
  <2>1. \A u \in Threads : pc'[u] = "emplace" => pc[u] = "emplace" /\ at'[u] = at[u]
    BY <1>2, <1>7 DEF Drop
  <2>2. \A k \in Alive : tree'[k].content = tree[k].content
    BY <1>7 DEF Drop, Alive, STypeInv, TreeRecords
  <2> QED
    BY <1>7, <2>1, <2>2, QuietHolds DEF Drop
<1>8. ASSUME NEW t \in Threads, Destroyed(t), pc[t] \in {"open", "close"} PROVE Hold'
  <2>1. \A u \in Threads : pc'[u] = "emplace" => pc[u] = "emplace" /\ at'[u] = at[u]
    BY <1>2, <1>8 DEF Destroyed
  <2>2. at[t].tree \in Trees /\ at[t].tree \notin Alive
    BY <1>8 DEF TreeInv, DieInv, Alive
  <2>3. \A k \in Alive : tree'[k] = tree[k]
    BY <1>8, <2>2 DEF Destroyed, Alive, STypeInv
  <2> QED
    BY <1>8, <2>1, <2>3, QuietHolds DEF Destroyed
<1>9. CASE Start \/ Edit
  BY <1>9, QuietHolds DEF Start, Edit
\* Nothing is left.
<1>10. CASE End \/ EndFails \/ Closed \/ ClosedFails \/ Down
  <2>1. /\ \A s \in Paths : setting'[s] = {}
        /\ \A t \in Threads : pc'[t] = "idle"
    BY <1>10 DEF End, EndFails, Ending, Closed, ClosedFails, Down, Reset
  <2> QED
    BY <2>1 DEF Hold, WillBe
<1>11. ASSUME NEW t \in Threads, Read(t) \/ ReadFails(t) PROVE Hold'
  BY <1>6, <1>11 DEF Read, ReadFails
<1>12. ASSUME NEW t \in Threads, DtorClose(t) \/ DtorCloseFails(t) \/ DtorOpenFails(t) PROVE Hold'
  BY <1>8, <1>12 DEF DtorClose, DtorCloseFails, DtorOpenFails, Step
<1> QED
  BY <1>3, <1>4, <1>5, <1>7, <1>9, <1>10, <1>11, <1>12, CreatedHolds, EmplacedHolds, SetHolds,
     UpdatedHolds DEF Next, Crash, Throw

-----------------------------------------------------------------------------
(* What survives the program.                                                 *)
LEMMA PhaseStep ==
  ASSUME STypeInv, TreeInv, PhaseInv, [Next]_vars
  PROVE  PhaseInv'
<1> DEFINE Holders == \A s \in Paths : property_mtx[s] # NoThread =>
                        /\ property_mtx[s] \in Threads
                        /\ pc[property_mtx[s]] = "update" /\ at[property_mtx[s]].setting = s
<1>1. CASE UNCHANGED vars
  BY <1>1 DEF vars, PhaseInv
<1>2. CASE Start
  BY <1>2 DEF Start, PhaseInv
<1>3. CASE Edit
  BY <1>3 DEF Edit, PhaseInv
<1>4. CASE Closed \/ ClosedFails \/ Down
  BY <1>4 DEF Closed, ClosedFails, Down, Reset, NoTree, PhaseInv
<1>5. CASE End \/ EndFails
  <2>1. \A k \in Trees : tree'[k].state # "live"
    BY <1>5 DEF End, EndFails, Alive, STypeInv, TreeRecords, NoTree
  <2> QED
    BY <1>5, <2>1 DEF End, EndFails, Ending, PhaseInv
\* The program is up, and a thread that is not setting a value goes on.
<1>6. ASSUME program = "up", UNCHANGED <<program, property_mtx>>, NEW t \in Threads, pc[t] # "update",
             NEW to, NEW where, Goto(t, to, where) \/ UNCHANGED <<pc, at>>
      PROVE  PhaseInv'
  <2>1. \A u \in Threads : pc[u] = "update" => pc'[u] = pc[u] /\ at'[u] = at[u]
    BY <1>6, GotoAt
  <2> QED
    BY <1>6, <2>1 DEF PhaseInv
<1>7. ASSUME NEW t \in Threads,
             \/ Share(t) \/ Shared(t) \/ SharedNull(t) \/ SharedGone(t) \/ Create(t) \/ Read(t)
             \/ ReadFails(t) \/ CreateProperty(t) \/ PropertyCreated(t) \/ Emplaced(t)
             \/ List(t) \/ Listed(t)
      PROVE  PhaseInv'
  <2>1. program = "up" /\ UNCHANGED <<program, property_mtx>> /\ pc[t] # "update"
    BY <1>7 DEF Share, Shared, SharedNull, SharedGone, Create, Read, ReadFails, Made, CreateProperty,
       PropertyCreated, Emplaced, List, Listed, Step
  <2>2. (\E to, where : Goto(t, to, where)) \/ UNCHANGED <<pc, at>>
    BY <1>7 DEF Share, Shared, SharedNull, SharedGone, Make, Create, Read, ReadFails, Made, CreateProperty,
       PropertyCreated, Emplaced, List, Listed
  <2> QED
    BY <1>6, <2>1, <2>2
<1>71. ASSUME NEW t \in Threads, DtorOpen(t) \/ DtorClose(t) \/ DtorOpenFails(t) \/ DtorCloseFails(t)
       PROVE  PhaseInv'
  <2>1. program = "up" /\ UNCHANGED <<program, property_mtx>> /\ pc[t] # "update"
    BY <1>71 DEF DtorOpen, DtorClose, DtorOpenFails, DtorCloseFails, Destroyed, Step
  <2>2. \E to, where : Goto(t, to, where)
    BY <1>71 DEF DtorOpen, DtorClose, DtorOpenFails, DtorCloseFails, Destroyed
  <2> QED
    BY <1>6, <2>1, <2>2
<1>8. ASSUME NEW t \in Threads, Drop(t) PROVE PhaseInv'
  <2>1. program = "up" /\ UNCHANGED <<program, property_mtx>> /\ pc[t] # "update"
    BY <1>8 DEF Drop, Step
  <2>2. (\E to, where : Goto(t, to, where)) \/ UNCHANGED <<pc, at>>
    BY <1>8 DEF Drop
  <2> QED
    BY <1>6, <2>1, <2>2
<1>9. ASSUME NEW t \in Threads, SetValue(t) PROVE PhaseInv'
  <2>1. /\ program = "up" /\ pc[t] = "idle" /\ UNCHANGED program
    BY <1>9 DEF SetValue, Step
  <2>2. PICK s \in Paths :
          /\ property_mtx' = [property_mtx EXCEPT ![s] = t]
          /\ \E k, v : Goto(t, "update", [tree |-> k, setting |-> s, value |-> v])
    BY <1>9 DEF SetValue, STypeInv
  <2>3. /\ pc'[t] = "update" /\ at'[t].setting = s /\ property_mtx'[s] = t
        /\ \A u \in Threads : u # t => pc'[u] = pc[u] /\ at'[u] = at[u]
        /\ \A r \in Paths : r # s => property_mtx'[r] = property_mtx[r]
    BY <2>2, GotoAt DEF STypeInv
  <2> QED
    BY <2>1, <2>3 DEF PhaseInv
<1>10. ASSUME NEW t \in Threads, Updated(t) PROVE PhaseInv'
  <2>1. /\ program = "up" /\ pc[t] = "update" /\ UNCHANGED program
        /\ property_mtx' = [property_mtx EXCEPT ![at[t].setting] = NoThread]
        /\ Goto(t, "idle", Nowhere)
    BY <1>10 DEF Updated, Step
  <2>2. at[t].setting \in Paths
    BY <2>1 DEF TreeInv, UseInv, Uses
  <2>3. /\ property_mtx'[at[t].setting] = NoThread
        /\ \A u \in Threads : u # t => pc'[u] = pc[u] /\ at'[u] = at[u]
        /\ \A r \in Paths : r # at[t].setting => property_mtx'[r] = property_mtx[r]
    BY <2>1, <2>2, GotoAt DEF STypeInv
  <2> QED
    BY <2>1, <2>3 DEF PhaseInv
<1> QED
  BY <1>1, <1>2, <1>3, <1>4, <1>5, <1>7, <1>71, <1>8, <1>9, <1>10 DEF Next, Crash, Throw

\* A file that is torn, and one that is empty, says nothing.
LEMMA NothingRead ==
  ASSUME NEW s \in Paths
  PROVE  read(Empty, s) = {}
<1>1. CASE s \in Scalars
  <2>1. read_element(Empty, <<s, 1>>) = {}
    BY <1>1, SettingsAssumption DEF read_element, Empty, Nodes
  <2> QED
    BY <1>1, <2>1 DEF read
<1>2. CASE s \notin Scalars
  <2>1. Empty[<<s, 0>>] = None
    BY <1>2, SettingsAssumption DEF Empty, Nodes, Paths
  <2>2. {m \in {Empty[<<s, 0>>]} \cap (0 .. MaxLength) :
           \A i \in 1 .. m : read_element(Empty, <<s, i>>) # {}} = {}
    BY <2>1, SettingsAssumption
  <2> QED
    BY <1>2, <2>2 DEF read, read_list
<1> QED
  BY <1>1, <1>2

LEMMA InFileOf ==
  ASSUME NEW content \in [Nodes -> Texts], NEW s \in Paths
  PROVE  InFile(content)[s] = read(content, s)
BY SettingsAssumption DEF InFile, Texts

\* The trees that save are the same, and what is known is.
LEMMA SameKnown ==
  ASSUME Known, UNCHANGED <<known, setting, property_mtx, file>>,
         \A k \in Trees : Saves(k)' = Saves(k),
         \A k \in Trees : Saves(k) => tree'[k].content = tree[k].content
  PROVE  Known'
BY DEF Known

LEMMA ReadKnows ==
  ASSUME STypeInv, TreeInv, Known, NEW t \in Threads, Read(t) \/ ReadFails(t), ~torn'
  PROVE  Known'
<1>0. PICK k, content : k = at[t].tree /\ Made(t, content) /\ content \in {file, Empty}
                        /\ \/ content = file /\ file # Torn /\ known' = known
                           \/ content = Empty /\ known' = InFile(Empty)
  BY DEF Read, ReadFails
<1>1. /\ k \in Trees /\ tree[k].state = "reading"
      /\ tree' = [tree EXCEPT ![k] = [state |-> "live", content |-> content]]
      /\ UNCHANGED <<setting, property_mtx, file>>
  BY <1>0 DEF Made, Step, TreeInv, ReadInv
<1>2. \A j \in Trees : ~Saves(j)
  <2>1. \A j \in Trees : tree[j].state # "dying"
    BY <1>0 DEF Made
  <2>2. \A j \in Trees : tree[j].state = "live" => j = k
    BY <1>1 DEF TreeInv, OneTreePerFile
  <2> QED
    BY <1>1, <2>1, <2>2 DEF Saves
<1>3. known = InFile(file)
  BY <1>2 DEF Known
<1>4. ASSUME NEW s \in Paths PROVE known'[s] = read(content, s)
  <2>1. Empty # Torn
    BY EmptyText, SettingsAssumption DEF Texts
  <2> QED
    BY <1>0, <1>3, <2>1 DEF InFile
<1>5. /\ tree'[k].state = "live" /\ tree'[k].content = content
      /\ \A j \in Trees : j # k => tree'[j] = tree[j]
  BY <1>1 DEF STypeInv
<1>6. Saves(k)' /\ \A j \in Trees : Saves(j)' => j = k
  BY <1>1, <1>2, <1>5 DEF Saves
\* There are no settings when there is no tree.
<1>7. \A s \in Paths : setting'[s] = {}
  BY <1>1, <1>2 DEF TreeInv, KeepInv, Alive, Saves
<1> QED
  BY <1>1, <1>4, <1>5, <1>6, <1>7 DEF Known

\* Of a tree that is destroyed the file has all or nothing.
LEMMA LostKnows ==
  ASSUME STypeInv, TreeInv, Known, NEW t \in Threads, DtorOpenFails(t) \/ DtorCloseFails(t)
  PROVE  Known'
<1>0. PICK k : k = at[t].tree
  OBVIOUS
<1>1. /\ k \in Trees /\ tree[k].state = "dying"
      /\ tree' = [tree EXCEPT ![k] = NoTree] /\ known' = InFile(file')
      /\ UNCHANGED setting
  BY <1>0 DEF DtorOpenFails, DtorCloseFails, Destroyed, Step, TreeInv, DieInv
<1>2. \A j \in Trees : Saves(j) => j = k
  BY <1>1 DEF Known, Saves
<1>3. \A j \in Trees : ~Saves(j)'
  <2>1. tree'[k] = NoTree /\ \A j \in Trees : j # k => tree'[j] = tree[j]
    BY <1>1 DEF STypeInv
  <2> QED
    BY <1>2, <2>1 DEF Saves, NoTree
<1>4. \A s \in Paths : setting'[s] = {}
  BY <1>1, <1>2 DEF TreeInv, KeepInv, Alive, Saves
<1> QED
  BY <1>1, <1>3, <1>4 DEF Known

LEMMA CloseKnows ==
  ASSUME STypeInv, TreeInv, PhaseInv, KnownType, Known, NEW t \in Threads, DtorClose(t)
  PROVE  Known'
<1>0. PICK k : k = at[t].tree
  OBVIOUS
<1>1. /\ k \in Trees /\ tree[k].state = "dying"
      /\ tree' = [tree EXCEPT ![k] = NoTree] /\ file' = tree[k].content
      /\ UNCHANGED <<known, setting, property_mtx>>
  BY <1>0 DEF DtorClose, Destroyed, Step, TreeInv, DieInv
<1>2. \A j \in Trees : Saves(j) => j = k
  BY <1>1 DEF Known, Saves
<1>3. ASSUME NEW s \in Paths PROVE property_mtx[s] = NoThread
  <2> SUFFICES ASSUME property_mtx[s] # NoThread PROVE FALSE
    OBVIOUS
  <2>1. PICK u \in Threads : pc[u] = "update" /\ at[u].setting = s
    BY DEF PhaseInv
  <2>2. at[u].tree \in Trees /\ tree[at[u].tree].state = "live"
    BY <2>1, AtTree
  <2> QED
    BY <1>1, <1>2, <2>2 DEF Saves
<1>4. \A j \in Trees : ~Saves(j)'
  <2>1. tree'[k] = NoTree /\ \A j \in Trees : j # k => tree'[j] = tree[j]
    BY <1>1 DEF STypeInv
  <2> QED
    BY <1>2, <2>1 DEF Saves, NoTree
<1>5. tree[k].content \in [Nodes -> Texts]
  BY <1>1 DEF STypeInv, TreeRecords
<1>6. known = InFile(tree[k].content)
  <2>1. \A s \in Paths : known[s] = read(tree[k].content, s)
    BY <1>1, <1>3 DEF Known, Saves
  <2>2. \A s \in Paths : InFile(tree[k].content)[s] = known[s]
    BY <1>5, <2>1, InFileOf
  <2> QED
    BY <2>2 DEF InFile, KnownType
<1>7. known' = InFile(file')
  BY <1>1, <1>6
<1> QED
  BY <1>1, <1>4, <1>7 DEF Known

\* At most one value is read.
LEMMA ReadOne ==
  ASSUME NEW content, NEW s \in Paths, NEW v \in read(content, s)
  PROVE  read(content, s) = {v}
<1>1. CASE s \in Scalars
  BY <1>1 DEF read, read_element
<1>2. CASE s \notin Scalars
  <2> DEFINE Value(n) == [i \in 1 .. n |-> content[<<s, i>>]]
             Legible == {m \in {content[<<s, 0>>]} \cap (0 .. MaxLength) :
                           \A i \in 1 .. m : read_element(content, <<s, i>>) # {}}
  <2>1. read(content, s) = {Value(n) : n \in Legible}
    BY <1>2 DEF read, read_list
  <2>2. \A m, n \in Legible : m = n
    OBVIOUS
  <2> HIDE DEF Value, Legible
  <2> QED
    BY <2>1, <2>2
<1> QED
  BY <1>1, <1>2

\* The mutex of a property is free until there is a setting.
LEMMA FreeMutex ==
  ASSUME TreeInv, PhaseInv, NEW s \in Paths, setting[s] = {}
  PROVE  property_mtx[s] = NoThread
<1> SUFFICES ASSUME property_mtx[s] # NoThread PROVE FALSE
  OBVIOUS
<1>1. PICK u \in Threads : pc[u] = "update" /\ at[u].setting = s
  BY DEF PhaseInv
<1>2. setting[s] # {}
  BY <1>1 DEF TreeInv, UseInv, Uses
<1> QED
  BY <1>2

LEMMA CreatedKnows ==
  ASSUME STypeInv, TreeInv, KnownType, Known, NEW t \in Threads, PropertyCreated(t)
  PROVE  Known'
<1> DEFINE Writes(k, s, value) ==
      /\ tree' = [tree EXCEPT ![k].content = write(tree[k].content, s, value)]
      /\ known' = [known EXCEPT ![s] = IF @ = {} THEN {value} ELSE @]
      /\ UNCHANGED <<setting, property_mtx, file>>
<1>1. PICK k, s, value : /\ k = at[t].tree /\ s = at[t].setting
                         /\ value = Created(tree[k].content, s)
  OBVIOUS
<1>2. pc[t] = "property" /\ Writes(k, s, value)
  BY <1>1 DEF PropertyCreated, Created, Step
<1>3. k \in Trees /\ s \in Paths /\ tree[k].content \in [Nodes -> Texts] /\ tree[k].state = "live"
  BY <1>1, <1>2, AtTree
<1>4. Fits(s, value)
  BY <1>1, <1>3, CreatedFits
<1>5. read(tree[k].content, s) # {} => read(tree[k].content, s) = {value}
  <2>1. read(tree[k].content, s) # {} => value \in read(tree[k].content, s)
    BY <1>1 DEF Created
  <2> QED
    BY <1>3, <2>1, ReadOne
<1>6. PICK content : content = write(tree[k].content, s, value)
  OBVIOUS
<1>7. /\ read(content, s) = {value}
      /\ \A r \in Paths : r # s => read(content, r) = read(tree[k].content, r)
  BY <1>3, <1>4, <1>6, ReadOfWritten, ReadOfOther
<1>8. SameStates /\ tree'[k].content = content
  BY <1>2, <1>3, <1>6, ContentAt
<1>9. \A j \in Trees : Saves(j)' <=> Saves(j)
  BY <1>8 DEF SameStates, Saves
<1>10. Saves(k) /\ \A j \in Trees : Saves(j) => j = k
  BY <1>3 DEF Saves, Known
<1>11. /\ known'[s] = IF known[s] = {} THEN {value} ELSE known[s]
       /\ \A r \in Paths : r # s => known'[r] = known[r]
  BY <1>2, <1>3 DEF KnownType
<1>12. \A r \in Paths : \A p \in setting'[r] : known'[r] = {p.value}
  BY <1>2, <1>11 DEF Known
<1>13. ASSUME NEW r \in Paths, property_mtx'[r] = NoThread PROVE known'[r] = read(content, r)
  <2>1. known[r] = read(tree[k].content, r)
    BY <1>2, <1>3, <1>10, <1>13 DEF Known
  <2> QED
    BY <1>5, <1>7, <1>11, <2>1
<1>14. \A j \in Trees, r \in Paths :
         Saves(j)' /\ property_mtx'[r] = NoThread => known'[r] = read(tree'[j].content, r)
  BY <1>8, <1>9, <1>10, <1>13
<1>15. /\ \A i, j \in Trees : Saves(i)' /\ Saves(j)' => i = j
       /\ ~(\A j \in Trees : ~Saves(j)')
  BY <1>3, <1>9, <1>10
<1> QED
  BY <1>12, <1>14, <1>15 DEF Known

LEMMA EmplacedKnows ==
  ASSUME STypeInv, TreeInv, PhaseInv, Hold, Known, NEW t \in Threads, Emplaced(t)
  PROVE  Known'
<1>1. PICK s, p : s = at[t].setting /\ p = [tree |-> at[t].tree, value |-> at[t].value]
  OBVIOUS
<1>2. /\ pc[t] = "emplace" /\ setting' = [setting EXCEPT ![s] = IF @ = {} THEN {p} ELSE @]
      /\ UNCHANGED <<tree, property_mtx, known, file>>
  BY <1>1 DEF Emplaced, Step
<1>3. s \in Paths /\ p.tree \in Trees /\ tree[p.tree].state = "live"
  BY <1>1, <1>2, AtTree
<1>4. \A r \in Paths : setting'[r] = setting[r] \/ (r = s /\ setting[r] = {} /\ setting'[r] = {p})
  BY <1>2, <1>3 DEF STypeInv
<1>5. ASSUME setting[s] = {} PROVE known[s] = {p.value}
  <2>1. read(tree[p.tree].content, s) = {p.value}
    BY <1>1, <1>2, <1>5 DEF Hold, WillBe
  <2>2. property_mtx[s] = NoThread
    BY <1>3, <1>5, FreeMutex
  <2> QED
    BY <1>3, <2>1, <2>2 DEF Known, Saves
<1>6. \A r \in Paths : \A q \in setting'[r] : known'[r] = {q.value}
  BY <1>2, <1>4, <1>5 DEF Known
<1>7. \A j \in Trees : Saves(j)' <=> Saves(j)
  BY <1>2 DEF Saves
<1> QED
  BY <1>2, <1>6, <1>7 DEF Known

LEMMA SetKnows ==
  ASSUME STypeInv, TreeInv, KnownType, Known, NEW t \in Threads, SetValue(t)
  PROVE  Known'
<1>1. PICK s \in Paths : \E p \in setting[s] : \E v \in Values[s] :
        /\ setting' = [setting EXCEPT ![s] = {[p EXCEPT !.value = v]}]
        /\ property_mtx' = [property_mtx EXCEPT ![s] = t]
        /\ known' = [known EXCEPT ![s] = {v}]
  BY DEF SetValue
<1>2. PICK p \in setting[s], v \in Values[s] :
        /\ setting' = [setting EXCEPT ![s] = {[p EXCEPT !.value = v]}]
        /\ property_mtx' = [property_mtx EXCEPT ![s] = t]
        /\ known' = [known EXCEPT ![s] = {v}]
  BY <1>1
<1>3. UNCHANGED <<tree, file>>
  BY DEF SetValue
<1>4. p \in SettingRecords /\ p.tree \in Trees /\ tree[p.tree].state = "live"
  BY DEF STypeInv, TreeInv, KeepInv, Alive
<1>5. /\ setting'[s] = {[p EXCEPT !.value = v]} /\ property_mtx'[s] = t /\ known'[s] = {v}
      /\ \A r \in Paths : r # s => /\ setting'[r] = setting[r] /\ known'[r] = known[r]
                                   /\ property_mtx'[r] = property_mtx[r]
  BY <1>2 DEF STypeInv, KnownType
<1>6. [p EXCEPT !.value = v].value = v
  BY <1>4 DEF SettingRecords
<1>7. \A r \in Paths : \A q \in setting'[r] : known'[r] = {q.value}
  BY <1>5, <1>6 DEF Known
<1>8. Saves(p.tree) /\ \A j \in Trees : Saves(j)' <=> Saves(j)
  BY <1>3, <1>4 DEF Saves
<1>9. \A r \in Paths : property_mtx'[r] = NoThread => r # s /\ property_mtx[r] = NoThread
  BY <1>5, SettingsAssumption
<1> QED
  BY <1>3, <1>4, <1>5, <1>7, <1>8, <1>9 DEF Known

LEMMA UpdatedKnows ==
  ASSUME STypeInv, TreeInv, Known, NEW t \in Threads, Updated(t)
  PROVE  Known'
<1>1. PICK k, s, value : k = at[t].tree /\ s = at[t].setting /\ value = at[t].value
  OBVIOUS
<1>2. PICK content : content = write(tree[k].content, s, value)
  OBVIOUS
<1>3. /\ pc[t] = "update" /\ tree' = [tree EXCEPT ![k].content = content]
      /\ property_mtx' = [property_mtx EXCEPT ![s] = NoThread]
      /\ UNCHANGED <<setting, known, file>>
  BY <1>1, <1>2 DEF Updated, Step
<1>4. /\ k \in Trees /\ s \in Paths /\ Fits(s, value)
      /\ setting[s] = {[tree |-> k, value |-> value]}
  BY <1>1, <1>3 DEF TreeInv, UseInv, Uses
<1>5. tree[k].content \in [Nodes -> Texts] /\ tree[k].state = "live"
  BY <1>1, <1>3, AtTree
<1>6. /\ read(content, s) = {value}
      /\ \A r \in Paths : r # s => read(content, r) = read(tree[k].content, r)
  BY <1>2, <1>4, <1>5, ReadOfWritten, ReadOfOther
<1>7. SameStates /\ tree'[k].content = content
  BY <1>3, <1>4, ContentAt
<1>8. \A j \in Trees : Saves(j)' <=> Saves(j)
  BY <1>7 DEF SameStates, Saves
<1>9. Saves(k) /\ \A j \in Trees : Saves(j) => j = k
  BY <1>4, <1>5 DEF Saves, Known
<1>10. known[s] = {value}
  <2>1. \A p \in setting[s] : known[s] = {p.value}
    BY <1>4 DEF Known
  <2> QED
    BY <1>4, <2>1
<1>11. \A r \in Paths : r # s => property_mtx'[r] = property_mtx[r]
  BY <1>3 DEF STypeInv
<1>12. ASSUME NEW r \in Paths, property_mtx'[r] = NoThread PROVE known'[r] = read(content, r)
  <2>1. CASE r = s
    BY <1>3, <1>6, <1>10, <2>1
  <2>2. CASE r # s
    BY <1>3, <1>4, <1>6, <1>9, <1>11, <1>12, <2>2 DEF Known
  <2> QED
    BY <2>1, <2>2
<1>13. \A j \in Trees, r \in Paths :
         Saves(j)' /\ property_mtx'[r] = NoThread => known'[r] = read(tree'[j].content, r)
  BY <1>7, <1>8, <1>9, <1>12
<1>14. /\ \A i, j \in Trees : Saves(i)' /\ Saves(j)' => i = j
       /\ ~(\A j \in Trees : ~Saves(j)')
  BY <1>4, <1>8, <1>9
<1>15. \A r \in Paths : \A q \in setting'[r] : known'[r] = {q.value}
  BY <1>3 DEF Known
<1> QED
  BY <1>13, <1>14, <1>15 DEF Known

\* The program ends: the tree dies, and is then written.
LEMMA EndKnows ==
  ASSUME STypeInv, Known, End
  PROVE  Known'
<1>0. UNCHANGED <<property_mtx, known>>
  BY DEF End, Ending
<1>1. \A k \in Trees : tree'[k].content = tree[k].content /\ (Saves(k)' <=> Saves(k))
  BY DEF End, Alive, Saves, STypeInv, TreeRecords
<1>2. \A s \in Paths : setting'[s] = {}
  BY DEF End, Ending
<1>3. (\A k \in Trees : ~Saves(k)) => file' = file
  BY DEF End, Alive, Saves
<1> QED
  BY <1>0, <1>1, <1>2, <1>3 DEF Known

LEMMA EndFailsKnows ==
  ASSUME EndFails \/ ClosedFails
  PROVE  Known'
<1>1. /\ \A k \in Trees : tree'[k].state = "none"
      /\ \A s \in Paths : setting'[s] = {}
      /\ known' = InFile(file')
  BY DEF EndFails, Ending, ClosedFails, Reset, NoTree
<1> QED
  BY <1>1 DEF Known, Saves

LEMMA ClosedKnows ==
  ASSUME STypeInv, PhaseInv, KnownType, Known, Closed
  PROVE  Known'
<1>1. (\A k \in Trees : ~Saves(k)') /\ \A s \in Paths : setting'[s] = {}
  BY DEF Closed, Reset, NoTree, Saves
<1>2. known' = InFile(file')
  <2>1. CASE \A k \in Trees : tree[k].state # "dying"
    <3>1. \A k \in Trees : ~Saves(k)
      BY <2>1 DEF Closed, Dying, PhaseInv, Saves
    <3> QED
      BY <2>1, <3>1 DEF Closed, Dying, Known
  <2>2. CASE \E k \in Trees : tree[k].state = "dying"
    <3>1. PICK k \in Trees : tree[k].state = "dying" /\ file' = tree[k].content
      BY <2>2 DEF Closed, Dying
    <3>2. \A s \in Paths : property_mtx[s] = NoThread
      BY DEF Closed, PhaseInv
    <3>3. \A s \in Paths : known[s] = read(tree[k].content, s)
      BY <3>1, <3>2 DEF Known, Saves
    <3>4. tree[k].content \in [Nodes -> Texts]
      BY DEF STypeInv, TreeRecords
    <3>5. \A s \in Paths : InFile(tree[k].content)[s] = known[s]
      BY <3>3, <3>4, InFileOf
    <3>6. known = InFile(tree[k].content)
      BY <3>5 DEF InFile, KnownType
    <3> QED
      BY <3>1, <3>6 DEF Closed
  <2> QED
    BY <2>1, <2>2
<1> QED
  BY <1>1, <1>2 DEF Known

LEMMA KnownTypeStep ==
  ASSUME KnownType, [Next]_vars
  PROVE  KnownType'
<1>1. UNCHANGED known \/ (\E f : known' = InFile(f)) \/ (\E s, v : known' = [known EXCEPT ![s] = v])
  <2>1. CASE UNCHANGED vars
    BY <2>1 DEF vars
  <2>2. CASE Start \/ End \/ EndFails \/ Closed \/ ClosedFails \/ Down \/ Edit
    BY <2>2 DEF Start, End, EndFails, Closed, ClosedFails, Down, Edit
  <2>3. ASSUME NEW t \in Threads, SetValue(t) PROVE \E s, v : known' = [known EXCEPT ![s] = v]
    BY <2>3 DEF SetValue
  <2>4. ASSUME NEW t \in Threads, PropertyCreated(t) PROVE \E s, v : known' = [known EXCEPT ![s] = v]
    BY <2>4 DEF PropertyCreated
  <2>5. ASSUME NEW t \in Threads,
               \/ Share(t) \/ Shared(t) \/ SharedNull(t) \/ SharedGone(t) \/ Create(t) \/ Read(t)
               \/ Drop(t) \/ DtorOpen(t) \/ DtorClose(t)
               \/ CreateProperty(t) \/ Emplaced(t) \/ List(t) \/ Listed(t) \/ Updated(t)
        PROVE  UNCHANGED known
    BY <2>5 DEF Share, Shared, SharedNull, SharedGone, Create, Read, Drop, DtorOpen, DtorClose, CreateProperty,
       Emplaced, List, Listed, Updated
  <2>6. ASSUME NEW t \in Threads, ReadFails(t) \/ DtorOpenFails(t) \/ DtorCloseFails(t)
        PROVE  \E f : known' = InFile(f)
    BY <2>6 DEF ReadFails, DtorOpenFails, DtorCloseFails
  <2> QED
    BY <2>1, <2>2, <2>3, <2>4, <2>5, <2>6 DEF Next, Crash, Throw
<1> QED
  BY <1>1 DEF KnownType, InFile

LEMMA KnownStep ==
  ASSUME STypeInv, TreeInv, HoldInv, PhaseInv, KnownType, KnownInv, [Next]_vars
  PROVE  KnownInv'
<1>1. CASE UNCHANGED vars
  BY <1>1 DEF vars, KnownInv, Known, Saves
\* A failure leaves what is in the file.
<1>2. CASE Down
  BY <1>2 DEF Down, Reset, NoTree, Known, KnownInv, Saves
<1> SUFFICES ASSUME Known, Hold, Next, ~torn', ~undefined', ~Down PROVE Known'
  <2>1. ASSUME NEW t \in Threads,
               \/ Share(t) \/ Shared(t) \/ SharedNull(t) \/ SharedGone(t) \/ Create(t) \/ Read(t)
               \/ ReadFails(t) \/ Drop(t)
               \/ DtorOpen(t) \/ DtorClose(t) \/ DtorOpenFails(t) \/ DtorCloseFails(t)
        PROVE  torn => torn'
    BY <2>1 DEF Share, Shared, SharedNull, SharedGone, Create, Read, ReadFails, Made, Drop, DtorOpen,
       DtorClose, DtorOpenFails, DtorCloseFails, Destroyed
  <2>2. ASSUME NEW t \in Threads,
               \/ CreateProperty(t) \/ PropertyCreated(t) \/ Emplaced(t) \/ List(t) \/ Listed(t)
               \/ SetValue(t) \/ Updated(t)
        PROVE  torn' = torn
    BY <2>2 DEF CreateProperty, PropertyCreated, Emplaced, List, Listed, SetValue, Updated
  <2>3. Start \/ End \/ EndFails \/ Closed \/ ClosedFails \/ Edit => torn' = torn
    BY DEF Start, End, EndFails, Ending, Closed, ClosedFails, Edit
  <2>4. Next /\ ~Down /\ ~torn' => ~undefined /\ ~torn
    BY <2>1, <2>2, <2>3 DEF Next, Crash, Throw
  <2> QED
    BY <1>1, <1>2, <2>4 DEF KnownInv, HoldInv
<1>3. ASSUME NEW t \in Threads,
             Share(t) \/ Shared(t) \/ SharedNull(t) \/ List(t) \/ Listed(t) \/ CreateProperty(t)
      PROVE  Known'
  BY <1>3, SameKnown DEF Share, Shared, SharedNull, List, Listed, CreateProperty, Saves
<1>4. ASSUME NEW t \in Threads, Create(t) \/ SharedGone(t) PROVE Known'
  <2>0. PICK j \in Trees : tree[j].state = "none" /\ tree' = [tree EXCEPT ![j].state = "reading"]
    BY <1>4 DEF Create, SharedGone, Make
  <2>1. \A k \in Trees : /\ Saves(k)' = Saves(k)
                         /\ Saves(k) => tree'[k].content = tree[k].content
    BY <2>0, StateAt DEF Saves
  <2> QED
    BY <1>4, <2>1, SameKnown DEF Create, SharedGone
<1>5. ASSUME NEW t \in Threads, Drop(t) PROVE Known'
  <2>1. core[t] # 0 => core[t] \in Trees /\ tree[core[t]].state = "live"
    BY DEF TreeInv, KeepInv, Alive
  <2>2. \A k \in Trees : /\ Saves(k)' = Saves(k)
                         /\ Saves(k) => tree'[k].content = tree[k].content
    BY <1>5, <2>1 DEF Drop, Saves, STypeInv, TreeRecords
  <2> QED
    BY <1>5, <2>2, SameKnown DEF Drop
<1>6. ASSUME NEW t \in Threads, DtorOpen(t) PROVE Known'
  <2>1. at[t].tree \in Trees /\ Saves(at[t].tree)
    BY <1>6 DEF DtorOpen, Step, TreeInv, DieInv, Saves
  <2>2. UNCHANGED <<tree, setting, property_mtx, known>>
    BY <1>6 DEF DtorOpen
  <2> QED
    BY <2>1, <2>2 DEF Known, Saves
<1>7. CASE Start
  BY <1>7, SameKnown DEF Start, Saves
<1>8. CASE Edit
  <2>1. \A k \in Trees : ~Saves(k)'
    BY <1>8 DEF Edit, PhaseInv, Saves
  <2>2. \A s \in Paths : setting'[s] = {}
    BY <1>8 DEF Edit, PhaseInv
  <2> QED
    BY <1>8, <2>1, <2>2 DEF Edit, Known
<1> QED
  BY <1>3, <1>4, <1>5, <1>6, <1>7, <1>8, ReadKnows, CloseKnows, CreatedKnows, EmplacedKnows, SetKnows,
     UpdatedKnows, LostKnows, EndKnows, EndFailsKnows, ClosedKnows DEF Next, Crash, Throw

-----------------------------------------------------------------------------
SettingsInv == STypeInv /\ TreeInv /\ HoldInv /\ PhaseInv /\ KnownType /\ KnownInv

LEMMA SettingsInit == Init => SettingsInv
<1> SUFFICES ASSUME Init PROVE SettingsInv
  OBVIOUS
<1>1. STypeInv
  BY EmptyText, NowhereType DEF Init, STypeInv, PcStates
<1>2. /\ \A k \in Trees : tree[k].state = "none"
      /\ \A t \in Threads : core[t] = 0 /\ pc[t] = "idle"
      /\ \A s \in Paths : setting[s] = {}
  BY DEF Init, NoTree
<1>3. TreeInv
  BY <1>2 DEF TreeInv, ReadInv, KeepInv, UseInv, Uses, DieInv, OneTreePerFile, Alive
<1>4. HoldInv
  BY <1>2 DEF HoldInv, Hold, WillBe
<1>5. PhaseInv
  BY <1>2 DEF PhaseInv, Init
<1>6. KnownType /\ KnownInv
  BY <1>2 DEF KnownType, KnownInv, Known, Saves, Init, InFile
<1> QED
  BY <1>1, <1>3, <1>4, <1>5, <1>6 DEF SettingsInv

LEMMA SettingsStep == SettingsInv /\ [Next]_vars => SettingsInv'
BY TypeStep, TreeStep, HoldStep, PhaseStep, KnownTypeStep, KnownStep DEF SettingsInv

\* However cores are created and destroyed by however many threads, the trees of the file
\* are one at a time (property_tree.cpp:16, trees_mtx_).
THEOREM TreesAreOne == Spec => []OneTreePerFile
<1>1. SettingsInv => OneTreePerFile
  BY DEF SettingsInv, TreeInv
<1> QED
  BY <1>1, SettingsInit, SettingsStep, PTL DEF Spec

\* Unless two threads have raced, each setting is what its tree says, which lives as long as
\* the setting does: "the value will synchronize with the tree on modification"
\* (property.hpp:10).
THEOREM SettingsInTree == Spec => []TreeHoldsSettings
<1>1. SettingsInv => TreeHoldsSettings
  BY DEF SettingsInv, TreeInv, KeepInv, HoldInv, Hold, Told, TreeHoldsSettings
<1> QED
  BY <1>1, SettingsInit, SettingsStep, PTL DEF Spec

\* Unless two threads have raced, or a tree was read while its predecessor was being written,
\* a setting has the value it was last set to, in this run of the program and, when the
\* program is down, in the file (property_tree.cpp:78, the destructor).  A file that cannot be
\* opened, read or written to its end at any of its uses (property_tree.cpp:70, 85), a size in
\* it that throws and a crash take all that was set since it was last written, and nothing
\* else: what is in the file, or nothing when it is half written, is what is known from then.
THEOREM ValuesSurvive == Spec => []ValueSurvives
<1>1. SettingsInv => ValueSurvives
  BY DEF SettingsInv, PhaseInv, KnownInv, Known, Saves, ValueSurvives
<1> QED
  BY <1>1, SettingsInit, SettingsStep, PTL DEF Spec
=============================================================================
