------------------------------- MODULE Settings -------------------------------
(***************************************************************************)
(* bibstd::core::core_settings (src/bibstd/core/core_settings.hpp) on      *)
(* bibstd::util::property_tree and property (src/bibstd/util).  Every      *)
(* core shares the one tree of the file settings.xml, which is read when   *)
(* the tree is created and written when it is destroyed; every setting     *)
(* that is created stays until the program ends, and keeps the tree.       *)
(*                                                                         *)
(* Threads have a core each; the pointers to the settings are shared.  The *)
(* file may be one that cannot be read or written, which is only logged.   *)
(* Accesses to the tree and to the map of the settings take time: when two *)
(* threads are in the same one, without a lock that both hold, it is a     *)
(* data race, and nothing is said of what happens then.                    *)
(***************************************************************************)
EXTENDS Integers, Sequences, FiniteSets

CONSTANTS
  Threads, NoThread,
  Scalars, Lists,  \* the paths of the settings, by what their values are
  Elements, Bad,   \* texts that can be read as values, and one that cannot
  Huge,            \* a text that is read as a size which no container can have
  None, Torn,      \* what is said of a node that is missing; a file half written
  Values,          \* the values of each setting, as sequences
  Default,         \* the default value of each setting
  MaxLength,       \* of a list
  MaxTrees,        \* trees that are there at a time
  MaxRuns,         \* runs of the program
  MaxOps           \* sets of a value, and edits of the file

Paths == Scalars \cup Lists
Trees == 1 .. MaxTrees
\* The nodes of the tree: node 0 of a list is "size", node i the i-th "index_".
Nodes == (Scalars \X {1}) \cup (Lists \X (0 .. MaxLength))

ASSUME SettingsAssumption ==
  /\ NoThread \notin Threads /\ MaxLength \in Nat /\ MaxTrees \in Nat
  /\ Elements \cap ({Bad, None, Torn, Huge} \cup Nat) = {} /\ {None, Huge} \cap Nat = {}
  /\ Torn \notin [Nodes -> Elements \cup {Bad, None, Huge} \cup Nat]
  /\ \A s \in Paths : Default[s] \in Values[s] /\ Values[s] \subseteq Seq(Elements)
  /\ \A s \in Scalars : \A v \in Values[s] : Len(v) = 1
  /\ \A s \in Lists : \A v \in Values[s] : Len(v) <= MaxLength

VARIABLES
  program,         \* "down", "up" or "closing": the statics are destroyed
  file,            \* what settings.xml says of each node, or Torn
  tree,            \* each property_tree: its state, and the text of each node
  core,            \* the tree of each thread's core, 0 if it has none
  setting,         \* property_map_: nothing, or the tree and the value of a setting
  trees_mtx, mtx,  \* who holds trees_mtx_, and the mtx_ of each tree
  property_mtx,    \* who holds the mutex of each property
  pc, at,          \* where each thread is, and with which tree, setting and value
  runs, ops,
  known,           \* the value each setting must have when it is next created
  undefined,       \* there was a data race, or a null pointer was followed
  torn             \* a tree was read while its predecessor was being destroyed

vars == <<program, file, tree, core, setting, trees_mtx, mtx, property_mtx, pc, at,
          runs, ops, known, undefined, torn>>

-----------------------------------------------------------------------------
(* property_parser.  An optional value is a set of at most one.               *)
Empty == [n \in Nodes |-> None]

read_element(content, n) == {content[n]} \cap Elements

\* A list is read if its size and all its elements are.
read_list(content, s) ==
  {[i \in 1 .. n |-> content[<<s, i>>]] :
     n \in {m \in {content[<<s, 0>>]} \cap (0 .. MaxLength) :
              \A i \in 1 .. m : read_element(content, <<s, i>>) # {}}}

read(content, s) ==
  IF s \in Scalars THEN {<<e>> : e \in read_element(content, <<s, 1>>)} ELSE read_list(content, s)

\* Variant of write: a list is written without its size.
WriteElements(content, s, v) ==
  [n \in Nodes |->
     IF n[1] = s /\ n[2] \in DOMAIN v THEN v[n[2]] ELSE content[n]]

\* The nodes behind the end of a list stay what they were.
write(content, s, v) ==
  [n \in Nodes |->
     IF n = <<s, 0>> THEN Len(v)
     ELSE IF n[1] = s /\ n[2] \in DOMAIN v THEN v[n[2]] ELSE content[n]]

InFile(f) == [s \in Paths |-> IF f = Torn THEN {} ELSE read(f, s)]

-----------------------------------------------------------------------------
NoTree == [state |-> "none", content |-> Empty]
Alive == {k \in Trees : tree[k].state = "live"}
Nowhere == [tree |-> 0, setting |-> None, value |-> << >>]

Reset ==
  /\ tree' = [k \in Trees |-> NoTree]
  /\ core' = [t \in Threads |-> 0] /\ setting' = [s \in Paths |-> {}]
  /\ trees_mtx' = NoThread /\ mtx' = [k \in Trees |-> NoThread]
  /\ property_mtx' = [s \in Paths |-> NoThread]
  /\ pc' = [t \in Threads |-> "idle"] /\ at' = [t \in Threads |-> Nowhere]

Init ==
  /\ program = "down" /\ file = Empty
  /\ tree = [k \in Trees |-> NoTree]
  /\ core = [t \in Threads |-> 0] /\ setting = [s \in Paths |-> {}]
  /\ trees_mtx = NoThread /\ mtx = [k \in Trees |-> NoThread]
  /\ property_mtx = [s \in Paths |-> NoThread]
  /\ pc = [t \in Threads |-> "idle"] /\ at = [t \in Threads |-> Nowhere]
  /\ runs = 0 /\ ops = 0 /\ known = InFile(Empty) /\ undefined = FALSE /\ torn = FALSE

Step(t, from) == program = "up" /\ pc[t] = from
Goto(t, to, where) == pc' = [pc EXCEPT ![t] = to] /\ at' = [at EXCEPT ![t] = where]

\* Thread t begins an access that races with those at the places named.
InTree(k, t) == \E u \in Threads \ {t} : pc[u] \in {"property", "update"} /\ at[u].tree = k
InMap(places, t) == \E u \in Threads \ {t} : pc[u] \in places

-----------------------------------------------------------------------------
(* property_tree::create, and the constructor under trees_mtx_.               *)
\* The weak pointer of a tree is locked once in each stage of the view.
Share(t) ==
  /\ Step(t, "idle") /\ core[t] = 0 /\ trees_mtx = NoThread
  /\ \E k \in Alive : Goto(t, "share", [Nowhere EXCEPT !.tree = k])
  /\ trees_mtx' = t
  /\ UNCHANGED <<program, file, tree, core, setting, mtx, property_mtx, runs, ops, known, undefined, torn>>

Shared(t) ==
  /\ Step(t, "share") /\ at[t].tree \in Alive
  /\ core' = [core EXCEPT ![t] = at[t].tree]
  /\ trees_mtx' = NoThread
  /\ Goto(t, "idle", Nowhere)
  /\ UNCHANGED <<program, file, tree, setting, mtx, property_mtx, runs, ops, known, undefined, torn>>

\* Its last owner goes in between: a pointer that is null is asked for the path of its
\* tree, or it is found at the last lock, and then there is none to share.
SharedNull(t) ==
  /\ Step(t, "share") /\ at[t].tree \notin Alive
  /\ undefined' = TRUE
  /\ UNCHANGED <<program, file, tree, core, setting, trees_mtx, mtx, property_mtx, pc, at,
                 runs, ops, known, torn>>

\* A tree is made; the constructor throws when there is another of the file.
Make(t) ==
  /\ Alive = {}
  /\ \E k \in Trees :
       /\ tree[k].state = "none"
       /\ tree' = [tree EXCEPT ![k].state = "reading"]
       /\ Goto(t, "read", [Nowhere EXCEPT !.tree = k])

SharedGone(t) ==
  /\ Step(t, "share") /\ at[t].tree \notin Alive
  /\ Make(t)
  /\ UNCHANGED <<program, file, core, setting, trees_mtx, mtx, property_mtx, runs, ops, known, undefined, torn>>

\* Variant of Create: without trees_mtx_.
CreateUnlocked(t) ==
  /\ Step(t, "idle") /\ core[t] = 0
  /\ Make(t)
  /\ UNCHANGED <<program, file, core, setting, trees_mtx, mtx, property_mtx, runs, ops, known, undefined, torn>>

Create(t) ==
  /\ Step(t, "idle") /\ core[t] = 0 /\ trees_mtx = NoThread
  /\ Make(t)
  /\ trees_mtx' = t
  /\ UNCHANGED <<program, file, core, setting, mtx, property_mtx, runs, ops, known, undefined, torn>>

\* The tree has what was read, and may be shared.
Made(t, content) ==
  /\ Step(t, "read")
  /\ tree' = [tree EXCEPT ![at[t].tree] = [state |-> "live", content |-> content]]
  /\ core' = [core EXCEPT ![t] = at[t].tree]
  /\ trees_mtx' = NoThread
  /\ torn' = (torn \/ \E j \in Trees : tree[j].state = "dying")
  /\ Goto(t, "idle", Nowhere)
  /\ UNCHANGED <<program, file, setting, mtx, property_mtx, runs, ops, undefined>>

Read(t) ==
  /\ file # Torn /\ Made(t, file)
  /\ UNCHANGED known

\* A file that cannot be opened or parsed is logged, and the tree is empty.
ReadFails(t) ==
  /\ Made(t, Empty)
  /\ known' = InFile(Empty)

\* Variant of LastOwner: the settings do not keep the tree.
LastCore(t, k) == \A u \in Threads \ {t} : core[u] # k

LastOwner(t, k) ==
  /\ \A u \in Threads \ {t} : core[u] # k
  /\ \A s \in Paths : \A p \in setting[s] : p.tree # k

\* A core is destroyed; the tree with it, when nobody else has it.
Drop(t) ==
  LET k == core[t]
  IN  /\ Step(t, "idle") /\ k # 0
      /\ core' = [core EXCEPT ![t] = 0]
      /\ IF LastOwner(t, k)
         THEN tree' = [tree EXCEPT ![k].state = "dying"] /\ Goto(t, "open", [Nowhere EXCEPT !.tree = k])
         ELSE UNCHANGED <<tree, pc, at>>
      /\ UNCHANGED <<program, file, setting, trees_mtx, mtx, property_mtx, runs, ops, known, undefined, torn>>

DtorOpen(t) ==
  /\ Step(t, "open") /\ mtx[at[t].tree] = NoThread
  /\ file' = Torn /\ Goto(t, "close", at[t])
  /\ UNCHANGED <<program, tree, core, setting, trees_mtx, mtx, property_mtx, runs, ops, known, undefined, torn>>

Destroyed(t) ==
  /\ tree' = [tree EXCEPT ![at[t].tree] = NoTree]
  /\ Goto(t, "idle", Nowhere)
  /\ UNCHANGED <<program, core, setting, trees_mtx, mtx, property_mtx, runs, ops, undefined, torn>>

DtorClose(t) ==
  /\ Step(t, "close") /\ Destroyed(t)
  /\ file' = tree[at[t].tree].content
  /\ UNCHANGED known

\* A file that cannot be opened, or not be written to its end, is logged: what the tree
\* says is lost, and the file is what it was or half written.
DtorOpenFails(t) ==
  /\ Step(t, "open") /\ mtx[at[t].tree] = NoThread
  /\ Destroyed(t)
  /\ known' = InFile(file)
  /\ UNCHANGED file

DtorCloseFails(t) ==
  /\ Step(t, "close") /\ Destroyed(t)
  /\ file' = Torn /\ known' = InFile(Torn)

-----------------------------------------------------------------------------
(* core_settings::create_setting.  Its own lock is held by no other thread.   *)
CreateProperty(t) ==
  LET k == core[t]
  IN  /\ Step(t, "idle") /\ k # 0 /\ mtx[k] = NoThread
      /\ \E s \in Paths : Goto(t, "property", [tree |-> k, setting |-> s, value |-> << >>])
      /\ mtx' = [mtx EXCEPT ![k] = t]
      /\ undefined' = (undefined \/ InTree(k, t))
      /\ UNCHANGED <<program, file, tree, core, setting, trees_mtx, property_mtx, runs, ops, known, torn>>

TooLong(t) == at[t].setting \in Lists /\ tree[at[t].tree].content[<<at[t].setting, 0>>] = Huge

\* The value in the tree or the default, which is written into the tree.
PropertyCreated(t) ==
  LET k == at[t].tree  s == at[t].setting
      value == IF read(tree[k].content, s) = {} THEN Default[s] ELSE CHOOSE v \in read(tree[k].content, s) : TRUE
  IN  /\ Step(t, "property") /\ ~TooLong(t)
      /\ tree' = [tree EXCEPT ![k].content = write(@, s, value)]
      /\ mtx' = [mtx EXCEPT ![k] = NoThread]
      /\ known' = [known EXCEPT ![s] = IF @ = {} THEN {value} ELSE @]
      /\ Goto(t, "emplace", [at[t] EXCEPT !.value = value])
      /\ undefined' = (undefined \/ InMap({"emplace", "settings"}, t))
      /\ UNCHANGED <<program, file, core, setting, trees_mtx, property_mtx, runs, ops, torn>>

\* A path that is taken throws, the property is gone and the setting stays.
Emplaced(t) ==
  LET s == at[t].setting
  IN  /\ Step(t, "emplace")
      /\ setting' = [setting EXCEPT ![s] = IF @ = {} THEN {[tree |-> at[t].tree, value |-> at[t].value]} ELSE @]
      /\ Goto(t, "idle", Nowhere)
      /\ UNCHANGED <<program, file, tree, core, trees_mtx, mtx, property_mtx, runs, ops, known, undefined, torn>>

\* core_settings::settings reads the map under the lock of its own core.
List(t) ==
  /\ Step(t, "idle") /\ core[t] # 0
  /\ Goto(t, "settings", Nowhere)
  /\ undefined' = (undefined \/ InMap({"emplace"}, t))
  /\ UNCHANGED <<program, file, tree, core, setting, trees_mtx, mtx, property_mtx, runs, ops, known, torn>>

Listed(t) ==
  /\ Step(t, "settings") /\ Goto(t, "idle", Nowhere)
  /\ UNCHANGED <<program, file, tree, core, setting, trees_mtx, mtx, property_mtx, runs, ops, known, undefined, torn>>

\* property::value(v), by any thread: the tree is written without its lock.
SetValue(t) ==
  /\ Step(t, "idle") /\ ops < MaxOps
  /\ \E s \in Paths : \E p \in setting[s] : \E v \in Values[s] \ {p.value} :
       /\ property_mtx[s] = NoThread
       /\ setting' = [setting EXCEPT ![s] = {[p EXCEPT !.value = v]}]
       /\ property_mtx' = [property_mtx EXCEPT ![s] = t]
       /\ known' = [known EXCEPT ![s] = {v}]
       /\ Goto(t, "update", [tree |-> p.tree, setting |-> s, value |-> v])
       /\ undefined' = (undefined \/ InTree(p.tree, t))
  /\ ops' = ops + 1
  /\ UNCHANGED <<program, file, tree, core, trees_mtx, mtx, runs, torn>>

Updated(t) ==
  /\ Step(t, "update")
  /\ tree' = [tree EXCEPT ![at[t].tree].content = write(@, at[t].setting, at[t].value)]
  /\ property_mtx' = [property_mtx EXCEPT ![at[t].setting] = NoThread]
  /\ Goto(t, "idle", Nowhere)
  /\ UNCHANGED <<program, file, core, setting, trees_mtx, mtx, runs, ops, known, undefined, torn>>

-----------------------------------------------------------------------------
(* The program starts, ends and fails; in between the file may be edited.     *)
Start ==
  /\ program = "down" /\ runs < MaxRuns
  /\ program' = "up" /\ runs' = runs + 1
  /\ UNCHANGED <<file, tree, core, setting, trees_mtx, mtx, property_mtx, pc, at, ops, known, undefined, torn>>

\* The statics are destroyed, and with the settings the tree.
Ending ==
  /\ program = "up" /\ \A t \in Threads : pc[t] = "idle"
  /\ program' = "closing"
  /\ core' = [t \in Threads |-> 0] /\ setting' = [s \in Paths |-> {}]
  /\ UNCHANGED <<trees_mtx, mtx, property_mtx, pc, at, runs, ops, undefined, torn>>

End ==
  /\ Ending
  /\ tree' = [k \in Trees |-> IF k \in Alive THEN [tree[k] EXCEPT !.state = "dying"] ELSE tree[k]]
  /\ file' = IF Alive = {} THEN file ELSE Torn
  /\ UNCHANGED known

\* The file cannot be opened.
EndFails ==
  /\ Ending /\ Alive # {}
  /\ tree' = [k \in Trees |-> NoTree]
  /\ known' = InFile(file)
  /\ UNCHANGED file

Dying == {k \in Trees : tree[k].state = "dying"}

Closed ==
  /\ program = "closing" /\ program' = "down"
  /\ file' = IF Dying = {} THEN file ELSE tree[CHOOSE k \in Dying : TRUE].content
  /\ Reset
  /\ UNCHANGED <<runs, ops, known, undefined, torn>>

\* The file cannot be written to its end.
ClosedFails ==
  /\ program = "closing" /\ program' = "down" /\ Dying # {}
  /\ file' = Torn /\ known' = InFile(Torn)
  /\ Reset
  /\ UNCHANGED <<runs, ops, undefined, torn>>

Down ==
  /\ program' = "down"
  /\ Reset
  /\ known' = InFile(file) /\ torn' = FALSE
  /\ UNCHANGED <<file, runs, ops, undefined>>

Crash == program # "down" /\ Down

\* Making a container of the size in the file throws, and nobody catches it.
Throw(t) == Step(t, "property") /\ TooLong(t) /\ Down

Edit ==
  /\ program = "down" /\ file # Torn /\ ops < MaxOps /\ ops' = ops + 1
  /\ \E n \in Nodes : \E text \in Elements \cup {None, Bad, Huge} \cup 0 .. MaxLength :
       /\ text # file[n]
       /\ n[2] # 0 => text \notin Nat \cup {Huge}
       /\ file' = [file EXCEPT ![n] = text]
  /\ known' = InFile(file')
  /\ UNCHANGED <<program, tree, core, setting, trees_mtx, mtx, property_mtx, pc, at, runs, undefined, torn>>

\* After that there is nothing left to be said.
Next ==
  /\ ~undefined
  /\ \/ \E t \in Threads :
          \/ Share(t) \/ Shared(t) \/ SharedNull(t) \/ SharedGone(t)
          \/ Create(t) \/ Read(t) \/ ReadFails(t) \/ Drop(t)
          \/ DtorOpen(t) \/ DtorClose(t) \/ DtorOpenFails(t) \/ DtorCloseFails(t)
          \/ CreateProperty(t) \/ PropertyCreated(t) \/ Throw(t) \/ Emplaced(t)
          \/ List(t) \/ Listed(t) \/ SetValue(t) \/ Updated(t)
     \/ Start \/ End \/ EndFails \/ Closed \/ ClosedFails \/ Crash \/ Edit

Spec == Init /\ [][Next]_vars
-----------------------------------------------------------------------------
\* "The value will synchronize with the tree on modification" (property.hpp:10):
\* while nobody sets it, what a setting is and what its tree says are the same, and
\* the tree is alive.
TreeHoldsSettings ==
  ~undefined =>
    \A s \in Paths : \A p \in setting[s] :
      /\ p.tree \in Alive
      /\ property_mtx[s] = NoThread => read(tree[p.tree].content, s) = {p.value}

\* No two trees of the file are changed at the same time: all cores share one.
OneTreePerFile ==
  \A j, k \in Trees : {tree[j].state, tree[k].state} \subseteq {"reading", "live"} => j = k

\* What a setting was set to is what it is, and what it is when it is next created: a run
\* that ends leaves all of its values in the file, the default values it used among them,
\* and a run that fails all values of the run before, or none when it fails while it writes.
\* The exception is a file that cannot be read or written, which is only logged
\* (property_tree.cpp:70, 85): then the values are those that the file has, of the run
\* before or none, never some of one run and some of another.
ValueSurvives ==
  ~undefined /\ ~torn =>
    /\ \A s \in Paths : \A p \in setting[s] : known[s] = {p.value}
    /\ program = "down" => known = InFile(file)

\* "This core is thread safe" (core_settings.hpp:16).
ThreadSafe == ~undefined
=============================================================================
