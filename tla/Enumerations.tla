---------------------------- MODULE Enumerations ----------------------------
(***************************************************************************)
(* bibstd::util of enumerations (src/bibstd/util/enum.hpp) and the part of *)
(* magic_enum it is made of: the values and names of an enumeration, as    *)
(* the compiler tells them one by one.                                     *)
(*                                                                         *)
(* An enumeration is its underlying type and its enumerators, pairs of a   *)
(* name and a value in the order of their declaration.  What is optional   *)
(* in the code is a set of no or one value.                                *)
(***************************************************************************)
EXTENDS Arithmetic, Sequences, SequencesExt

-----------------------------------------------------------------------------
(* magic_enum.                                                                 *)

\* The values that are looked at.
range_min == -128
range_max == 127
reflected_min(E) == IF min(E.type) < range_min THEN range_min ELSE min(E.type)
reflected_max(E) == IF range_max < max(E.type) THEN range_max ELSE max(E.type)

\* The name the compiler has for a value: of several the one declared first, "" if none.
n(E, v) ==
  LET named == SelectSeq(E.enumerators, LAMBDA e : e[2] = v)
  IN  IF named = << >> THEN "" ELSE Head(named)[1]

is_valid(E, v) == n(E, v) # ""
ualue(E, i) == i + reflected_min(E)
values(E) ==
  SelectSeq([i \in 1 .. reflected_max(E) - reflected_min(E) + 1 |-> ualue(E, i - 1)],
            LAMBDA v : is_valid(E, v))

\* An enumeration with its values in ascending order, and their names.
Enumeration(T, enumerators) ==
  LET E == [type |-> T, enumerators |-> enumerators]
      all == values(E)
  IN  [type |-> T, enumerators |-> enumerators, values |-> all, names |-> [i \in DOMAIN all |-> n(E, all[i])]]

enum_count(E) == Len(E.values)
min_v(E) == IF enum_count(E) > 0 THEN Head(E.values) ELSE 0
max_v(E) == IF enum_count(E) > 0 THEN Last(E.values) ELSE 0
is_sparse(E) == enum_count(E) # 0 /\ max_v(E) - min_v(E) + 1 # enum_count(E)

enum_value(E, i) == IF is_sparse(E) THEN E.values[i + 1] ELSE min_v(E) + i
Between(E, v) == min_v(E) <= v /\ v <= max_v(E)

\* Without a gap between the values an index is a difference, else it is looked for.
enum_index(E, v) ==
  IF is_sparse(E) THEN {i \in 0 .. enum_count(E) - 1 : enum_value(E, i) = v}
  ELSE IF Between(E, v) THEN {v - min_v(E)} ELSE {}

enum_name(E, v) ==
  LET index == enum_index(E, v)
  IN  IF index = {} THEN "" ELSE E.names[(CHOOSE i \in index : TRUE) + 1]

enum_cast(E, v) ==
  IF is_sparse(E) THEN {u \in {enum_value(E, i) : i \in 0 .. enum_count(E) - 1} : u = v}
  ELSE IF Between(E, v) THEN {v} ELSE {}

enum_cast_name(E, name) ==
  LET i == SelectInSeq(E.names, LAMBDA s : s = name)
  IN  IF i = 0 THEN {} ELSE {enum_value(E, i - 1)}

-----------------------------------------------------------------------------
(* bibstd::util; an enumerator is its value.  The program has enumerations of  *)
(* names from 0 on, some of them between BEGIN and END.                        *)
Plain(T, names) == Enumeration(T, [i \in DOMAIN names |-> <<names[i], i - 1>>])
Fenced(T, names) ==
  Enumeration(T, <<<<"BEGIN", 0>>>> \o [i \in DOMAIN names |-> <<names[i], i - 1>>] \o <<<<"END", Len(names)>>>>)

to_string_view(E, e) == enum_name(E, e)
to_enum(E, name) == enum_cast_name(E, name)
valid(E, e) == enum_cast(E, e) # {}

\* What throws if it has no value.
next(E, e) == add(E.type, e, 1)
prev(E, e) == subtract(E.type, e, 1)

-----------------------------------------------------------------------------
Named(E) == {e[2] : e \in ToSet(E.enumerators)}
InRange(E, v) == reflected_min(E) <= v /\ v <= reflected_max(E)

\* An enumerator in the range has a name, by which it is found again, no other value
\* has one, END among them; a name finds its own value, unless it is an alias that is
\* declared after another name of the same value; and a step forward is undone by a
\* step back.
FoundByName(E, e) ==
  LET name == to_string_view(E, e)
  IN  /\ valid(E, e) <=> e \in Named(E) /\ InRange(E, e)
      /\ to_enum(E, name) = IF valid(E, e) THEN {e} ELSE {}
      /\ \A i \in DOMAIN E.enumerators :
           E.enumerators[i][2] = e =>
             to_enum(E, E.enumerators[i][1]) =
               IF valid(E, e) /\ \A j \in 1 .. i - 1 : E.enumerators[j][2] # e THEN {e} ELSE {}
      /\ has_value(next(E, e)) => prev(E, next(E, e).value) = Expected(e)
=============================================================================
