----------------------------- MODULE BibleTable -----------------------------
(***************************************************************************)
(* The verses of the bible (src/bibstd/bible/common.cpp), and what a       *)
(* reference to one of them and a range of references are made of          *)
(* (reference.cpp, reference_range.cpp).                                   *)
(***************************************************************************)
EXTENDS Naturals, Sequences, FiniteSets

CONSTANTS
  LastBook,           \* the last book_id, END - 1; the first one is 0
  Verses,             \* books(): per book the verse counts of its chapters
  total_verse_count   \* the constant of common.hpp

Books == 0 .. LastBook

\* The verses of the bible, each as its book, chapter and verse, and their order.
Places ==
  UNION {UNION {{<<b, c, v>> : v \in 1 .. Verses[b][c]} : c \in DOMAIN Verses[b]} : b \in Books}

Before(p, q) ==
  \/ p[1] < q[1]
  \/ p[1] = q[1] /\ p[2] < q[2]
  \/ p[1] = q[1] /\ p[2] = q[2] /\ p[3] < q[3]

\* The table has one verse more than total_verse_count says.
ASSUME BibleAssumption ==
  /\ LastBook \in Nat /\ total_verse_count \in Nat
  /\ Verses \in [Books -> Seq(Nat \ {0})]
  /\ \A b \in Books : Verses[b] # <<>>
  /\ IsFiniteSet(Places) /\ Cardinality(Places) <= total_verse_count + 1

-----------------------------------------------------------------------------
(* A definition whose comment begins with "Variant of" is a faulty form of   *)
(* the one it names.  No behaviour uses it: put in the place of the real one *)
(* it shows that a property can fail.                                        *)
chapter_count(b) == Len(Verses[b])

\* Zero stands for std::nullopt: every chapter has a verse.
verse_count(b, c) == IF c \in 1 .. chapter_count(b) THEN Verses[b][c] ELSE 0

\* The constructor.
Reference(b, c, v) ==
  [book |-> b, chapter |-> c, verse |-> v,
   chapter_count |-> chapter_count(b), verse_count |-> verse_count(b, c)]

\* Variant of Creatable: only numbers that are too large are refused.
CreatableZero(b, c, v) == v <= verse_count(b, c)

\* When create() returns a reference.
Creatable(b, c, v) == v # 0 /\ verse_count(b, c) # 0 /\ v <= verse_count(b, c)

\* The defaulted operator<=> compares the members in their order, the cached
\* counts included.
Less(r, s) ==
  \/ r.book < s.book
  \/ /\ r.book = s.book
     /\ \/ r.chapter < s.chapter
        \/ /\ r.chapter = s.chapter
           /\ \/ r.verse < s.verse
              \/ /\ r.verse = s.verse
                 /\ \/ r.chapter_count < s.chapter_count
                    \/ r.chapter_count = s.chapter_count /\ r.verse_count < s.verse_count

\* The constructor of a range puts its two references in order.
ReferenceRange(first, second) ==
  [from |-> IF Less(second, first) THEN second ELSE first,
   to |-> IF Less(first, second) THEN second ELSE first]

-----------------------------------------------------------------------------
Members ==
  [book : Books, chapter : Nat \ {0}, verse : Nat \ {0},
   chapter_count : Nat \ {0}, verse_count : Nat \ {0}]

\* A reference that create() can have returned.
IsReference(r) ==
  /\ r \in Members
  /\ <<r.book, r.chapter, r.verse>> \in Places
  /\ r.chapter_count = Len(Verses[r.book])
  /\ r.verse_count = Verses[r.book][r.chapter]

Place(r) == <<r.book, r.chapter, r.verse>>

IsLast(r) == \A p \in Places : ~Before(Place(r), p)
=============================================================================
