--------------------------- MODULE BibleReference ---------------------------
(***************************************************************************)
(* bibstd::bible::reference and reference_range (src/bibstd/bible/         *)
(* reference.cpp, reference_range.cpp) over the table of common.cpp.       *)
(*                                                                         *)
(* A reference keeps, beside its book, chapter and verse, the number of    *)
(* chapters of its book and of verses of its chapter; ++ and -- move it    *)
(* with these cached counts.  Here one reference is in use: by a client    *)
(* that starts at the begin() of a range and goes up and down as it likes  *)
(* (use = "client"), or as the local variable of size() of the range       *)
(* ("size", and "counted" when size() returns).                            *)
(***************************************************************************)
EXTENDS BibleTable

CONSTANT
  Numbers             \* the chapters and verses create() is called with

ASSUME NumbersAssumption == Numbers \subseteq Nat

VARIABLES
  use,       \* what the reference is used for
  ref,       \* the reference
  crossed,   \* history: -- has been called at the first verse of a chapter
  from, to,  \* from_ and to_ of the range
  counter    \* the local variable of size()

brVars == <<use, ref, crossed, from, to, counter>>

-----------------------------------------------------------------------------
(* A definition whose comment begins with "Variant of" is a faulty form of   *)
(* the one it names.  No behaviour uses it: put in the place of the real one *)
(* it shows that a property can fail.                                        *)
Created ==
  {Reference(x[1], x[2], x[3]) :
     x \in {y \in Books \X Numbers \X Numbers : Creatable(y[1], y[2], y[3])}}

\* The range of two references.
BRInit ==
  /\ \E first, second \in Created :
       /\ from = ReferenceRange(first, second).from
       /\ to = ReferenceRange(first, second).to
  /\ ref = from
  /\ crossed = FALSE /\ counter = 0
  /\ use \in {"client", "size"}

-----------------------------------------------------------------------------
(* increment()                                                               *)
\* Variant of NextVerse: one verse too far.
NextVerseTooFar ==
  /\ ref.verse <= ref.verse_count
  /\ ref' = [ref EXCEPT !.verse = @ + 1]

NextVerse ==
  /\ ref.verse < ref.verse_count
  /\ ref' = [ref EXCEPT !.verse = @ + 1]

\* Variant of NextChapter: the number of verses of the old chapter stays.
NextChapterOldCount ==
  /\ ref.verse >= ref.verse_count /\ ref.chapter < ref.chapter_count
  /\ ref' = [ref EXCEPT !.chapter = @ + 1, !.verse = 1]

NextChapter ==
  /\ ref.verse >= ref.verse_count /\ ref.chapter < ref.chapter_count
  /\ ref' = [ref EXCEPT !.chapter = @ + 1, !.verse = 1,
                        !.verse_count = verse_count(ref.book, ref.chapter + 1)]

\* Variant of NextBook: the number of chapters of the old book stays.
NextBookOldCount ==
  /\ ref.verse >= ref.verse_count /\ ref.chapter >= ref.chapter_count
  /\ ref.book < LastBook
  /\ ref' = [ref EXCEPT !.book = @ + 1, !.chapter = 1, !.verse = 1,
                        !.verse_count = verse_count(ref.book + 1, 1)]

NextBook ==
  /\ ref.verse >= ref.verse_count /\ ref.chapter >= ref.chapter_count
  /\ ref.book < LastBook
  /\ ref' = Reference(ref.book + 1, 1, 1)

AtEnd ==
  /\ ref.verse >= ref.verse_count /\ ref.chapter >= ref.chapter_count
  /\ ref.book >= LastBook
  /\ ref' = ref

Increment == NextVerse \/ NextChapter \/ NextBook \/ AtEnd

-----------------------------------------------------------------------------
(* decrement()                                                               *)
PrevVerse ==
  /\ ref.verse > 1
  /\ ref' = [ref EXCEPT !.verse = @ - 1]

\* The number of verses is the one of the chapter that is left.
PrevChapter ==
  /\ ref.verse <= 1 /\ ref.chapter > 1
  /\ verse_count(ref.book, ref.chapter) # 0
  /\ LET count == verse_count(ref.book, ref.chapter)
     IN  ref' = [ref EXCEPT !.verse_count = count, !.chapter = @ - 1, !.verse = count]

\* value() throws when the chapter is not one of the book.
PrevThrows ==
  /\ ref.verse <= 1 /\ ref.chapter > 1
  /\ verse_count(ref.book, ref.chapter) = 0
  /\ ref' = ref

\* Both counts are those of the book that is left, and the second book is
\* never left.
PrevBook ==
  /\ ref.verse <= 1 /\ ref.chapter <= 1 /\ ref.book > 1
  /\ LET chapters == chapter_count(ref.book)
         count == verse_count(ref.book, chapters)
     IN  ref' = [book |-> ref.book - 1, chapter |-> chapters, verse |-> count,
                 chapter_count |-> chapters, verse_count |-> count]

AtBegin ==
  /\ ref.verse <= 1 /\ ref.chapter <= 1 /\ ref.book <= 1
  /\ ref' = ref

Decrement == PrevVerse \/ PrevChapter \/ PrevThrows \/ PrevBook \/ AtBegin

-----------------------------------------------------------------------------
ClientUp ==
  /\ use = "client" /\ Increment
  /\ UNCHANGED <<use, crossed, from, to, counter>>

ClientDown ==
  /\ use = "client" /\ Decrement
  /\ crossed' = (crossed \/ ref.verse = 1)
  /\ UNCHANGED <<use, from, to, counter>>

\* Variant of SizeStep: the last reference is not counted.
SizeStepOpen ==
  /\ use = "size" /\ ~Less(to, ref) /\ counter <= total_verse_count
  /\ counter' = IF ref = to THEN counter ELSE counter + 1
  /\ Increment
  /\ UNCHANGED <<use, crossed, from, to>>

\* size(): one turn of the loop, and its end.
SizeStep ==
  /\ use = "size" /\ ~Less(to, ref) /\ counter <= total_verse_count
  /\ counter' = counter + 1
  /\ Increment
  /\ UNCHANGED <<use, crossed, from, to>>

SizeReturn ==
  /\ use = "size" /\ (Less(to, ref) \/ counter > total_verse_count)
  /\ use' = "counted"
  /\ UNCHANGED <<ref, crossed, from, to, counter>>

BRNext == ClientUp \/ ClientDown \/ SizeStep \/ SizeReturn

BRSpec == BRInit /\ [][BRNext]_brVars

-----------------------------------------------------------------------------
BRTypeOK ==
  /\ use \in {"client", "size", "counted"}
  /\ ref \in Members
  /\ crossed \in BOOLEAN
  /\ IsReference(from) /\ IsReference(to)
  /\ counter \in 0 .. total_verse_count + 1

\* ++ keeps a reference one that create() could have returned, with the counts
\* of its own book and chapter, however long it goes on and whatever -- does
\* inside a chapter: only a -- at the first verse of a chapter spoils it.
Coherent == ~crossed => IsReference(ref)

\* ++ takes a reference to the next verse of the bible, over the ends of
\* chapters and books, and leaves none out; the last verse it does not leave.
IncrementIsNext ==
  [][Increment /\ IsReference(ref) =>
       IF IsLast(ref) THEN ref' = ref
       ELSE /\ Place(ref') \in Places
            /\ Before(Place(ref), Place(ref'))
            /\ \A p \in Places : ~(Before(Place(ref), p) /\ Before(p, Place(ref')))]_brVars

\* Whatever -- has made of the cached counts, the reference is in order again
\* as soon as ++ takes it into the next book.
NewBookRepairs == [][NextBook => IsReference(ref')]_brVars

InRange(p) == ~Before(p, Place(from)) /\ ~Before(Place(to), p)

\* size() is the number of the verses from begin() to end(), unless end() is
\* the last verse of the bible.
SizeInside ==
  use = "counted" /\ ~IsLast(to) =>
    counter = Cardinality({p \in Places : InRange(p)})

\* "This algorithm is correct" (reference_range.cpp:25).
SizeCorrect ==
  use = "counted" => counter = Cardinality({p \in Places : InRange(p)})
=============================================================================
