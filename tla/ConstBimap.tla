----------------------------- MODULE ConstBimap -----------------------------
(***************************************************************************)
(* bibstd::util::const_bimap (src/bibstd/util/const_bimap.hpp): a table of *)
(* pairs, read from either side.  It is the sequence of its pairs.         *)
(***************************************************************************)
EXTENDS Naturals, Sequences

\* The constructor throws if a value stands twice on one side.
Duplicates(pairs) ==
  \E i, j \in DOMAIN pairs : i < j /\ \E side \in {1, 2} : pairs[i][side] = pairs[j][side]

\* The pairs that have a value on a side; no more than one of a table that was made.
PairsOf(map, side, value) == {i \in DOMAIN map : map[i][side] = value}

contains(map, first) == PairsOf(map, 1, first) # {}
contains_second(map, second) == PairsOf(map, 2, second) # {}

\* The other value of the pair; at() throws for a value that is not contained.
at(map, first) == map[CHOOSE i \in PairsOf(map, 1, first) : TRUE][2]
at_second(map, second) == map[CHOOSE i \in PairsOf(map, 2, second) : TRUE][1]

entry_count(map) == Len(map)
=============================================================================
