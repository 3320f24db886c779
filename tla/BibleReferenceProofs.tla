------------------------ MODULE BibleReferenceProofs ------------------------
(***************************************************************************)
(* ++ and size() are right for every table of verses, whatever -- does     *)
(* meanwhile.                                                              *)
(***************************************************************************)
EXTENDS BibleReference, FiniteSetTheorems, TLAPS

\* A chapter that has a successor is one of the book: ++ never looks up a
\* chapter that does not exist, although -- may leave the reference in one.
ChapterInv ==
  /\ ref.chapter <= ref.chapter_count
  /\ ref.chapter < ref.chapter_count => ref.chapter_count <= Len(Verses[ref.book])

\* The verses of the range that size() has passed.
Passed == {p \in Places : ~Before(p, Place(from)) /\ Before(p, Place(ref))}

\* size() has counted what it passed, and has gone one verse past the end at
\* most.
CountInv ==
  /\ use # "client" => ~crossed
  /\ use # "client" /\ ~IsLast(to) =>
       /\ counter = Cardinality(Passed)
       /\ ~Before(Place(ref), Place(from))
       /\ \A p \in Places : ~(Before(Place(to), p) /\ Before(p, Place(ref)))
  /\ use = "counted" => Less(to, ref) \/ counter > total_verse_count

IInv == BRTypeOK /\ Coherent /\ ChapterInv /\ CountInv

-----------------------------------------------------------------------------
(* The books are numbers, and ++ is careful with the last. *)
LEMMA NumbersOfBooks ==
  /\ LastBook \in Nat
  /\ \A b \in Books : b \in Nat /\ b <= LastBook /\ (b < LastBook => b + 1 \in Books)
<1>1. LastBook \in Nat
  BY BibleAssumption
<1>2. QED
  BY <1>1 DEF Books

(* The verses of the bible, and the table. *)
LEMMA PlacesMember ==
  ASSUME NEW b, NEW c, NEW v
  PROVE  <<b, c, v>> \in Places <=>
           b \in Books /\ c \in DOMAIN Verses[b] /\ v \in 1 .. Verses[b][c]
  BY DEF Places

LEMMA PlacesTriples ==
  ASSUME NEW p \in Places
  PROVE  /\ p = <<p[1], p[2], p[3]>>
         /\ p[1] \in Books /\ p[2] \in 1 .. Len(Verses[p[1]])
         /\ p[3] \in 1 .. Verses[p[1]][p[2]]
         /\ p[1] \in Nat /\ p[2] \in Nat \ {0} /\ p[3] \in Nat \ {0}
<1>1. PICK b \in Books : \E c \in DOMAIN Verses[b] : \E v \in 1 .. Verses[b][c] : p = <<b, c, v>>
  BY DEF Places
<1>2. PICK c \in DOMAIN Verses[b] : \E v \in 1 .. Verses[b][c] : p = <<b, c, v>>
  BY <1>1
<1>3. PICK v \in 1 .. Verses[b][c] : p = <<b, c, v>>
  BY <1>2
<1>4. Verses[b] \in Seq(Nat \ {0}) /\ DOMAIN Verses[b] = 1 .. Len(Verses[b])
  BY BibleAssumption
<1>5. Verses[b][c] \in Nat \ {0}
  BY <1>2, <1>4
<1>6. QED
  BY <1>3, <1>4, <1>5, BibleAssumption DEF Books

LEMMA Table ==
  ASSUME NEW b \in Books
  PROVE  /\ b \in Nat
         /\ chapter_count(b) \in Nat \ {0}
         /\ chapter_count(b) = Len(Verses[b]) /\ DOMAIN Verses[b] = 1 .. Len(Verses[b])
         /\ \A c \in 1 .. chapter_count(b) :
              verse_count(b, c) = Verses[b][c] /\ Verses[b][c] \in Nat \ {0}
         /\ \A c : c \notin 1 .. chapter_count(b) => verse_count(b, c) = 0
<1>1. Verses[b] \in Seq(Nat \ {0}) /\ Verses[b] # <<>> /\ DOMAIN Verses[b] = 1 .. Len(Verses[b])
  BY BibleAssumption
<1>2. Len(Verses[b]) \in Nat \ {0}
  BY <1>1
<1>3. QED
  BY <1>1, <1>2, BibleAssumption DEF Books, chapter_count, verse_count

(* What the constructor returns is a reference when there is the verse. *)
LEMMA ReferenceCorrect ==
  ASSUME NEW b \in Books, NEW c \in 1 .. chapter_count(b), NEW v \in 1 .. Verses[b][c]
  PROVE  IsReference(Reference(b, c, v))
<1>1. Verses[b][c] \in Nat \ {0} /\ verse_count(b, c) = Verses[b][c]
      /\ chapter_count(b) \in Nat \ {0} /\ chapter_count(b) = Len(Verses[b])
      /\ c \in DOMAIN Verses[b]
  BY Table
<1>2. <<b, c, v>> \in Places
  BY <1>1, PlacesMember
<1>3. Reference(b, c, v) \in Members
  BY <1>1 DEF Reference, Members
<1>4. QED
  BY <1>1, <1>2, <1>3 DEF IsReference, Reference

(* What create() accepts is a verse of the bible. *)
LEMMA CreatedCorrect ==
  ASSUME NEW r \in Created
  PROVE  IsReference(r)
<1>1. PICK b \in Books, c \in Numbers, v \in Numbers :
        r = Reference(b, c, v) /\ Creatable(b, c, v)
  BY DEF Created
<1>2. c \in 1 .. chapter_count(b) /\ v \in Nat
  BY <1>1, Table, NumbersAssumption DEF Creatable
<1>3. v \in 1 .. Verses[b][c]
  BY <1>1, <1>2, Table DEF Creatable
<1>4. QED
  BY <1>1, <1>2, <1>3, ReferenceCorrect

(* On references operator<=> is the order of the verses. *)
LEMMA LessIsBefore ==
  ASSUME NEW r, NEW s, IsReference(r), IsReference(s)
  PROVE  Less(r, s) <=> Before(Place(r), Place(s))
<1>1. r.book = s.book => r.chapter_count = s.chapter_count
  BY DEF IsReference
<1>2. r.book = s.book /\ r.chapter = s.chapter => r.verse_count = s.verse_count
  BY DEF IsReference
<1>3. r.chapter_count \in Nat /\ r.verse_count \in Nat
  BY DEF IsReference, Members
<1>4. QED
  BY <1>1, <1>2, <1>3 DEF Less, Before, Place

-----------------------------------------------------------------------------
(* What IsReference says of the counts. *)
LEMMA ReferenceParts ==
  ASSUME NEW r, IsReference(r)
  PROVE  /\ r \in Members /\ r.book \in Books /\ r.book \in Nat
         /\ r.chapter \in Nat \ {0} /\ r.verse \in Nat \ {0}
         /\ r.chapter_count = chapter_count(r.book) /\ r.chapter_count \in Nat \ {0}
         /\ r.verse_count = Verses[r.book][r.chapter] /\ r.verse_count \in Nat \ {0}
         /\ r.chapter \in 1 .. r.chapter_count /\ r.verse \in 1 .. r.verse_count
<1>1. r \in Members /\ r.book \in Books /\ r.chapter \in DOMAIN Verses[r.book]
      /\ r.verse \in 1 .. Verses[r.book][r.chapter]
  BY PlacesMember DEF IsReference
<1>2. r.book \in Nat /\ DOMAIN Verses[r.book] = 1 .. chapter_count(r.book)
      /\ chapter_count(r.book) = Len(Verses[r.book])
  BY <1>1, Table
<1>3. QED
  BY <1>1, <1>2 DEF IsReference, Members

(* ++ on a reference: the next verse, with the counts of its place. *)
LEMMA IncrementCorrect ==
  ASSUME IsReference(ref), Increment
  PROVE  /\ IsReference(ref')
         /\ IF IsLast(ref) THEN ref' = ref
            ELSE /\ Place(ref') \in Places
                 /\ Before(Place(ref), Place(ref'))
                 /\ \A p \in Places : ~(Before(Place(ref), p) /\ Before(p, Place(ref')))
<1> DEFINE b == ref.book
           c == ref.chapter
           v == ref.verse
<1>1. /\ ref \in Members /\ b \in Books /\ b \in Nat /\ c \in Nat \ {0} /\ v \in Nat \ {0}
      /\ ref.chapter_count = chapter_count(b) /\ ref.chapter_count \in Nat \ {0}
      /\ ref.verse_count = Verses[b][c] /\ ref.verse_count \in Nat \ {0}
      /\ c \in 1 .. chapter_count(b) /\ v \in 1 .. Verses[b][c]
  BY ReferenceParts
<1>2. ref = Reference(b, c, v)
  BY <1>1, Table DEF Reference, Members
<1>3. CASE NextVerse
  <2>1. v + 1 \in 1 .. Verses[b][c]
    BY <1>1, <1>3 DEF NextVerse
  <2>2. ref' = Reference(b, c, v + 1)
    BY <1>1, <1>2, <1>3 DEF NextVerse, Reference
  <2>3. IsReference(ref')
    BY <1>1, <2>1, <2>2, ReferenceCorrect
  <2>4. Place(ref) = <<b, c, v>> /\ Place(ref') = <<b, c, v + 1>>
    BY <2>2 DEF Place, Reference
  <2>5. Place(ref') \in Places
    BY <2>3 DEF IsReference, Place
  <2>6. Before(Place(ref), Place(ref'))
    BY <1>1, <2>4 DEF Before
  <2>7. ASSUME NEW p \in Places, Before(Place(ref), p), Before(p, Place(ref')) PROVE FALSE
    BY <1>1, <2>4, <2>7, PlacesTriples DEF Before
  <2>8. QED
    BY <2>3, <2>5, <2>6, <2>7 DEF IsLast
<1>4. CASE NextChapter
  <2>1. c + 1 \in 1 .. chapter_count(b) /\ v = Verses[b][c]
    BY <1>1, <1>4 DEF NextChapter
  <2>2. ref' = Reference(b, c + 1, 1)
    BY <1>1, <1>2, <1>4 DEF NextChapter, Reference
  <2>3. 1 \in 1 .. Verses[b][c + 1]
    BY <1>1, <2>1, Table
  <2>4. IsReference(ref')
    BY <1>1, <2>1, <2>2, <2>3, ReferenceCorrect
  <2>5. Place(ref) = <<b, c, v>> /\ Place(ref') = <<b, c + 1, 1>>
    BY <2>2 DEF Place, Reference
  <2>6. Place(ref') \in Places
    BY <2>4 DEF IsReference, Place
  <2>7. Before(Place(ref), Place(ref'))
    BY <1>1, <2>5 DEF Before
  <2>8. ASSUME NEW p \in Places, Before(Place(ref), p), Before(p, Place(ref')) PROVE FALSE
    BY <1>1, <2>1, <2>5, <2>8, PlacesTriples DEF Before
  <2>9. QED
    BY <2>4, <2>6, <2>7, <2>8 DEF IsLast
<1>5. CASE NextBook
  <2>1. c = chapter_count(b) /\ v = Verses[b][c] /\ b + 1 \in Books
    BY <1>1, <1>5, NumbersOfBooks DEF NextBook
  <2>2. ref' = Reference(b + 1, 1, 1)
    BY <1>5 DEF NextBook
  <2>3. 1 \in 1 .. chapter_count(b + 1) /\ 1 \in 1 .. Verses[b + 1][1]
    BY <2>1, Table
  <2>4. IsReference(ref')
    BY <2>1, <2>2, <2>3, ReferenceCorrect
  <2>5. Place(ref) = <<b, c, v>> /\ Place(ref') = <<b + 1, 1, 1>>
    BY <2>2 DEF Place, Reference
  <2>6. Place(ref') \in Places
    BY <2>4 DEF IsReference, Place
  <2>7. Before(Place(ref), Place(ref'))
    BY <1>1, <2>5 DEF Before
  <2>8. ASSUME NEW p \in Places, Before(Place(ref), p), Before(p, Place(ref')) PROVE FALSE
    <3>1. p[1] = b => p[2] \in 1 .. chapter_count(b)
      BY PlacesTriples DEF chapter_count
    <3>2. QED
      BY <1>1, <2>1, <2>5, <2>8, <3>1, PlacesTriples DEF Before
  <2>9. QED
    BY <2>4, <2>6, <2>7, <2>8 DEF IsLast
<1>6. CASE AtEnd
  <2>1. c = chapter_count(b) /\ v = Verses[b][c] /\ b = LastBook
    BY <1>1, <1>6, NumbersOfBooks DEF AtEnd
  <2>2. ASSUME NEW p \in Places, Before(Place(ref), p) PROVE FALSE
    <3>1. p[1] = b => p[2] \in 1 .. chapter_count(b)
      BY PlacesTriples DEF chapter_count
    <3>2. p[1] <= LastBook
      BY PlacesTriples, NumbersOfBooks
    <3>3. QED
      BY <1>1, <2>1, <2>2, <3>1, <3>2, PlacesTriples DEF Before, Place
  <2>3. QED
    BY <1>6, <2>2 DEF IsLast, AtEnd
<1>7. QED
  BY <1>3, <1>4, <1>5, <1>6 DEF Increment

(* Whatever the counts are, the next book starts with the right ones. *)
LEMMA NewBookCorrect ==
  ASSUME ref \in Members, NextBook
  PROVE  IsReference(ref')
<1>1. ref.book + 1 \in Books /\ ref' = Reference(ref.book + 1, 1, 1)
  BY NumbersOfBooks DEF NextBook, Members
<1>2. 1 \in 1 .. chapter_count(ref.book + 1) /\ 1 \in 1 .. Verses[ref.book + 1][1]
  BY <1>1, Table
<1>3. QED
  BY <1>1, <1>2, ReferenceCorrect

(* Before is a strict total order of the verses. *)
LEMMA BeforeOrder ==
  ASSUME NEW p \in Places, NEW q \in Places, NEW r \in Places
  PROVE  /\ ~Before(p, p)
         /\ Before(p, q) => ~Before(q, p)
         /\ Before(p, q) /\ Before(q, r) => Before(p, r)
         /\ Before(p, q) /\ ~Before(r, q) => Before(p, r)
         /\ ~Before(q, p) /\ Before(q, r) => Before(p, r)
         /\ Before(p, q) \/ Before(q, p) \/ p = q
<1>1. /\ p = <<p[1], p[2], p[3]>> /\ p[1] \in Nat /\ p[2] \in Nat /\ p[3] \in Nat
      /\ q = <<q[1], q[2], q[3]>> /\ q[1] \in Nat /\ q[2] \in Nat /\ q[3] \in Nat
      /\ r[1] \in Nat /\ r[2] \in Nat /\ r[3] \in Nat
  BY PlacesTriples
<1>2. p[1] = q[1] /\ p[2] = q[2] /\ p[3] = q[3] => p = q
  BY <1>1
<1>3. QED
  BY <1>1, <1>2 DEF Before

(* ++ and -- keep the types and ChapterInv, with right counts or wrong ones. *)
LEMMA IncrementKeeps ==
  ASSUME ref \in Members, ChapterInv, Increment
  PROVE  ref' \in Members /\ ChapterInv'
<1>1. ref.book \in Books /\ ref.chapter \in Nat \ {0} /\ ref.verse \in Nat \ {0}
      /\ ref.chapter_count \in Nat \ {0} /\ ref.verse_count \in Nat \ {0}
  BY DEF Members
<1>2. CASE NextVerse
  BY <1>1, <1>2 DEF NextVerse, Members, ChapterInv
<1>3. CASE NextChapter
  <2> DEFINE count == verse_count(ref.book, ref.chapter + 1)
  <2>1. ref.chapter + 1 \in 1 .. chapter_count(ref.book)
        /\ ref.chapter_count <= Len(Verses[ref.book]) /\ ref.chapter + 1 <= ref.chapter_count
    BY <1>1, <1>3, Table DEF NextChapter, ChapterInv
  <2>2. count \in Nat \ {0} /\ ref.chapter + 1 \in Nat \ {0} /\ 1 \in Nat \ {0}
    BY <1>1, <2>1, Table
  <2>3. ref' = [ref EXCEPT !.chapter = ref.chapter + 1, !.verse = 1, !.verse_count = count]
    BY <1>3 DEF NextChapter
  <2> HIDE DEF count
  <2>4. ref' \in Members
    BY <1>1, <2>2, <2>3 DEF Members
  <2>5. ref'.book = ref.book /\ ref'.chapter = ref.chapter + 1
        /\ ref'.chapter_count = ref.chapter_count
    BY <1>1, <2>3 DEF Members
  <2>6. QED
    BY <1>1, <2>1, <2>4, <2>5 DEF ChapterInv
<1>4. CASE NextBook
  <2>1. IsReference(ref')
    BY <1>4, NewBookCorrect
  <2>2. QED
    BY <2>1, ReferenceParts, Table DEF ChapterInv
<1>5. CASE AtEnd
  BY <1>5 DEF AtEnd, ChapterInv
<1>6. QED
  BY <1>2, <1>3, <1>4, <1>5 DEF Increment

LEMMA DecrementKeeps ==
  ASSUME ref \in Members, ChapterInv, Decrement
  PROVE  ref' \in Members /\ ChapterInv'
<1>1. ref.book \in Books /\ ref.chapter \in Nat \ {0} /\ ref.verse \in Nat \ {0}
      /\ ref.chapter_count \in Nat \ {0} /\ ref.verse_count \in Nat \ {0}
  BY DEF Members
<1>2. CASE PrevVerse
  BY <1>1, <1>2 DEF PrevVerse, Members, ChapterInv
<1>3. CASE PrevChapter
  <2> DEFINE count == verse_count(ref.book, ref.chapter)
  <2>1. ref.chapter \in 1 .. chapter_count(ref.book) /\ count \in Nat \ {0}
        /\ ref.chapter <= Len(Verses[ref.book])
    BY <1>1, <1>3, Table DEF PrevChapter
  <2>2. ref.chapter - 1 \in Nat \ {0}
        /\ ref' = [ref EXCEPT !.verse_count = count, !.chapter = ref.chapter - 1, !.verse = count]
    BY <1>1, <1>3 DEF PrevChapter
  <2> HIDE DEF count
  <2>3. ref' \in Members
    BY <1>1, <2>1, <2>2 DEF Members
  <2>4. ref'.book = ref.book /\ ref'.chapter = ref.chapter - 1
        /\ ref'.chapter_count = ref.chapter_count
    BY <1>1, <2>2 DEF Members
  <2>5. QED
    BY <1>1, <2>1, <2>3, <2>4 DEF ChapterInv
<1>4. CASE PrevThrows \/ AtBegin
  BY <1>4 DEF PrevThrows, AtBegin, ChapterInv
<1>5. CASE PrevBook
  <2> DEFINE chapters == chapter_count(ref.book)
             count == verse_count(ref.book, chapters)
  <2>1. chapters \in Nat \ {0} /\ count \in Nat \ {0}
    BY <1>1, Table
  <2>2. ref.book - 1 \in Books
    BY <1>1, <1>5, NumbersOfBooks DEF PrevBook, Books
  <2>3. ref' = [book |-> ref.book - 1, chapter |-> chapters, verse |-> count,
                chapter_count |-> chapters, verse_count |-> count]
    BY <1>5 DEF PrevBook
  <2> HIDE DEF chapters, count
  <2>4. QED
    BY <2>1, <2>2, <2>3 DEF Members, ChapterInv
<1>6. QED
  BY <1>2, <1>3, <1>4, <1>5 DEF Decrement

-----------------------------------------------------------------------------
LEMMA InvInit ==
  BRInit => IInv
<1> SUFFICES ASSUME BRInit PROVE IInv
  OBVIOUS
<1>1. PICK first \in Created, second \in Created :
        /\ from = IF Less(second, first) THEN second ELSE first
        /\ to = IF Less(first, second) THEN second ELSE first
  BY DEF BRInit, ReferenceRange
<1>2. IsReference(first) /\ IsReference(second)
  BY CreatedCorrect
<1>3. Place(first) \in Places /\ Place(second) \in Places
  BY <1>2 DEF IsReference, Place
<1>4. IsReference(from) /\ IsReference(to) /\ ~Before(Place(to), Place(from))
  <2>1. CASE Less(second, first)
    BY <1>1, <1>2, <1>3, <2>1, LessIsBefore, BeforeOrder
  <2>2. CASE ~Less(second, first) /\ Less(first, second)
    BY <1>1, <1>2, <1>3, <2>2, LessIsBefore, BeforeOrder
  <2>3. CASE ~Less(second, first) /\ ~Less(first, second)
    BY <1>1, <1>2, <1>3, <2>3, BeforeOrder
  <2>4. QED
    BY <2>1, <2>2, <2>3
<1>5. ref = from /\ ~crossed /\ crossed \in BOOLEAN /\ counter = 0 /\ use \in {"client", "size"}
  BY DEF BRInit
<1>6. BRTypeOK
  <2>1. 0 \in 0 .. total_verse_count + 1
    BY BibleAssumption
  <2>2. QED
    BY <1>4, <1>5, <2>1 DEF BRTypeOK, IsReference
<1>7. Coherent
  BY <1>4, <1>5 DEF Coherent
<1>8. ChapterInv
  BY <1>4, <1>5, ReferenceParts, Table DEF ChapterInv
<1>9. CountInv
  <2>1. Passed = {}
    BY <1>5 DEF Passed
  <2>2. \A p \in Places : ~(Before(Place(to), p) /\ Before(p, Place(ref)))
    <3>1. Place(to) \in Places /\ Place(from) \in Places
      BY <1>4 DEF IsReference, Place
    <3>2. QED
      BY <1>4, <1>5, <3>1, BeforeOrder
  <2>3. ~Before(Place(ref), Place(from))
    <3>1. Place(from) \in Places
      BY <1>4 DEF IsReference, Place
    <3>2. QED
      BY <1>5, <3>1, BeforeOrder
  <2>4. QED
    BY <1>5, <2>1, <2>2, <2>3, FS_EmptySet DEF CountInv
<1>10. QED
  BY <1>6, <1>7, <1>8, <1>9 DEF IInv

(* A turn of the loop passes and counts one verse. *)
LEMMA TurnCounts ==
  ASSUME IInv, SizeStep, ~IsLast(to)
  PROVE  /\ counter' = Cardinality(Passed')
         /\ ~Before(Place(ref'), Place(from))
         /\ \A p \in Places : ~(Before(Place(to), p) /\ Before(p, Place(ref')))
<1>1. IsReference(ref) /\ IsReference(from) /\ IsReference(to)
  BY DEF IInv, Coherent, CountInv, BRTypeOK, SizeStep
<1>2. Place(ref) \in Places /\ Place(from) \in Places /\ Place(to) \in Places
  BY <1>1 DEF IsReference, Place
<1>3. ~Before(Place(to), Place(ref))
  BY <1>1, LessIsBefore DEF SizeStep
<1>4. ~IsLast(ref)
  <2>1. PICK p \in Places : Before(Place(to), p)
    BY DEF IsLast
  <2>2. Before(Place(ref), p)
    BY <1>2, <1>3, <2>1, BeforeOrder
  <2>3. QED
    BY <2>2 DEF IsLast
<1>5. /\ Place(ref') \in Places /\ Before(Place(ref), Place(ref'))
      /\ \A p \in Places : ~(Before(Place(ref), p) /\ Before(p, Place(ref')))
  BY <1>1, <1>4, IncrementCorrect DEF SizeStep
<1>6. counter = Cardinality(Passed) /\ ~Before(Place(ref), Place(from))
      /\ counter' = counter + 1 /\ from' = from /\ to' = to
  BY DEF IInv, CountInv, SizeStep
<1>7. Passed' = Passed \cup {Place(ref)}
  <2>1. Passed' = {p \in Places : ~Before(p, Place(from)) /\ Before(p, Place(ref'))}
    BY <1>6 DEF Passed, Place
  <2>2. ASSUME NEW p \in Places
        PROVE  ~Before(p, Place(from)) /\ Before(p, Place(ref'))
                 <=> (~Before(p, Place(from)) /\ Before(p, Place(ref))) \/ p = Place(ref)
    BY <1>2, <1>5, <1>6, BeforeOrder
  <2>3. QED
    BY <1>2, <2>1, <2>2 DEF Passed
<1>8. Place(ref) \notin Passed /\ IsFiniteSet(Passed)
  <2>1. Passed \in SUBSET Places
    BY DEF Passed
  <2>2. QED
    BY <1>2, <2>1, BeforeOrder, BibleAssumption, FS_Subset DEF Passed
<1>9. Cardinality(Passed') = Cardinality(Passed) + 1
  BY <1>7, <1>8, FS_AddElement
<1>10. ~Before(Place(ref'), Place(from))
  BY <1>2, <1>5, <1>6, BeforeOrder
<1>11. ASSUME NEW p \in Places, Before(Place(to), p), Before(p, Place(ref')) PROVE FALSE
  <2>1. Before(Place(ref), p)
    BY <1>2, <1>3, <1>11, BeforeOrder
  <2>2. QED
    BY <1>5, <1>11, <2>1
<1>12. QED
  BY <1>6, <1>9, <1>10, <1>11

LEMMA InvStep ==
  IInv /\ [BRNext]_brVars => IInv'
<1> SUFFICES ASSUME IInv, [BRNext]_brVars PROVE IInv'
  OBVIOUS
<1> USE DEF IInv
<1>1. CASE UNCHANGED brVars
  BY <1>1 DEF brVars, BRTypeOK, Coherent, ChapterInv, CountInv, Passed, InRange, IsReference,
     Place, IsLast, Less
<1>2. CASE ClientUp
  <2>1. use = "client" /\ Increment /\ UNCHANGED <<use, crossed, from, to, counter>>
    BY <1>2 DEF ClientUp
  <2>2. ref' \in Members /\ ChapterInv'
    BY <2>1, IncrementKeeps DEF BRTypeOK
  <2>3. Coherent'
    BY <2>1, IncrementCorrect DEF Coherent
  <2>4. BRTypeOK'
    BY <2>1, <2>2 DEF BRTypeOK
  <2>5. CountInv'
    BY <2>1 DEF CountInv
  <2>6. QED
    BY <2>2, <2>3, <2>4, <2>5
<1>3. CASE ClientDown
  <2>1. use = "client" /\ Decrement /\ crossed' = (crossed \/ ref.verse = 1)
        /\ UNCHANGED <<use, from, to, counter>>
    BY <1>3 DEF ClientDown
  <2>2. ref' \in Members /\ ChapterInv'
    BY <2>1, DecrementKeeps DEF BRTypeOK
  <2>3. ASSUME ~crossed' PROVE IsReference(ref')
    <3>1. IsReference(ref) /\ ref.verse # 1
      BY <2>1, <2>3 DEF Coherent
    <3>2. ref \in Members /\ ref.verse \in Nat \ {0} /\ ref.chapter \in Nat \ {0}
          /\ ref.book \in Books /\ ref.verse \in 1 .. ref.verse_count
      BY <3>1, ReferenceParts
    <3>3. ref' = [ref EXCEPT !.verse = @ - 1] /\ ref.verse - 1 \in 1 .. ref.verse_count
      BY <2>1, <3>1, <3>2, ReferenceParts
      DEF Decrement, PrevVerse, PrevChapter, PrevThrows, PrevBook, AtBegin
    <3>4. <<ref.book, ref.chapter, ref.verse - 1>> \in Places
      BY <3>1, <3>3, PlacesMember DEF IsReference
    <3>5. ref'.book = ref.book /\ ref'.chapter = ref.chapter /\ ref'.verse = ref.verse - 1
          /\ ref'.chapter_count = ref.chapter_count /\ ref'.verse_count = ref.verse_count
      BY <3>2, <3>3 DEF Members
    <3>6. QED
      BY <2>2, <3>1, <3>4, <3>5 DEF IsReference
  <2>4. BRTypeOK'
    BY <2>1, <2>2 DEF BRTypeOK
  <2>5. CountInv'
    BY <2>1 DEF CountInv
  <2>6. QED
    BY <2>2, <2>3, <2>4, <2>5 DEF Coherent
<1>4. CASE SizeStep
  <2>1. use = "size" /\ Increment /\ counter <= total_verse_count /\ counter' = counter + 1
        /\ UNCHANGED <<use, crossed, from, to>>
    BY <1>4 DEF SizeStep
  <2>2. ref' \in Members /\ ChapterInv'
    BY <2>1, IncrementKeeps DEF BRTypeOK
  <2>3. Coherent'
    BY <2>1, IncrementCorrect DEF Coherent
  <2>4. BRTypeOK'
    <3>1. counter' \in 0 .. total_verse_count + 1
      BY <2>1, BibleAssumption DEF BRTypeOK
    <3>2. QED
      BY <2>1, <2>2, <3>1 DEF BRTypeOK
  <2>5. CountInv'
    BY <1>4, <2>1, TurnCounts DEF CountInv, IsLast, Place
  <2>6. QED
    BY <2>2, <2>3, <2>4, <2>5
<1>5. CASE SizeReturn
  <2>1. use = "size" /\ use' = "counted" /\ (Less(to, ref) \/ counter > total_verse_count)
        /\ UNCHANGED <<ref, crossed, from, to, counter>>
    BY <1>5 DEF SizeReturn
  <2>2. CountInv'
    BY <2>1 DEF CountInv, Passed, Place, IsLast, Less
  <2>3. QED
    BY <2>1, <2>2 DEF BRTypeOK, Coherent, ChapterInv
<1>6. QED
  BY <1>1, <1>2, <1>3, <1>4, <1>5 DEF BRNext

LEMMA Inductive ==
  BRSpec => []IInv
BY InvInit, InvStep, PTL DEF BRSpec

(* The members stay in their types; in particular no operation looks up a
   chapter that does not exist, except the -- that throws. *)
THEOREM ReferenceTypeCorrect ==
  BRSpec => []BRTypeOK
<1>1. IInv => BRTypeOK
  BY DEF IInv
<1>2. QED
  BY <1>1, Inductive, PTL

(* A reference from create() stays one that create() could return, as long as
   no -- is called at the first verse of a chapter. *)
THEOREM ReferenceCoherent ==
  BRSpec => []Coherent
<1>1. IInv => Coherent
  BY DEF IInv
<1>2. QED
  BY <1>1, Inductive, PTL

(* ++ goes to the next verse of the bible and leaves none out. *)
THEOREM IncrementGoesOn ==
  BRSpec => IncrementIsNext
<1>1. [BRNext]_brVars =>
        [Increment /\ IsReference(ref) =>
          IF IsLast(ref) THEN ref' = ref
          ELSE /\ Place(ref') \in Places
               /\ Before(Place(ref), Place(ref'))
               /\ \A p \in Places : ~(Before(Place(ref), p) /\ Before(p, Place(ref')))]_brVars
  BY IncrementCorrect
<1>2. QED
  BY <1>1, PTL DEF BRSpec, IncrementIsNext

(* ++ into the next book repairs what -- has done to the counts. *)
THEOREM NewBookInOrder ==
  BRSpec => NewBookRepairs
<1>1. IInv /\ [BRNext]_brVars => [NextBook => IsReference(ref')]_brVars
  BY NewBookCorrect DEF IInv, BRTypeOK
<1>2. QED
  BY <1>1, Inductive, PTL DEF BRSpec, NewBookRepairs

(* size() counts the verses of a range that does not end at the last verse. *)
THEOREM SizeCounts ==
  BRSpec => []SizeInside
<1>1. ASSUME IInv, use = "counted", ~IsLast(to)
      PROVE  counter = Cardinality({p \in Places : InRange(p)})
  <2>1. IsReference(ref) /\ IsReference(to) /\ counter = Cardinality(Passed)
        /\ \A p \in Places : ~(Before(Place(to), p) /\ Before(p, Place(ref)))
    BY <1>1 DEF IInv, Coherent, CountInv, BRTypeOK
  <2>2. Place(ref) \in Places /\ Place(to) \in Places
    BY <2>1 DEF IsReference, Place
  <2>3. counter <= total_verse_count
    <3>1. Passed \in SUBSET Places /\ Place(ref) \notin Passed
      BY <2>2, BeforeOrder DEF Passed
    <3>2. Cardinality(Passed) <= Cardinality(Places) /\ Cardinality(Passed) # Cardinality(Places)
      BY <2>2, <3>1, BibleAssumption, FS_Subset
    <3>3. Cardinality(Passed) \in Nat /\ Cardinality(Places) \in Nat
      BY <3>1, BibleAssumption, FS_Subset, FS_CardinalityType
    <3>4. QED
      BY <2>1, <3>2, <3>3, BibleAssumption
  <2>4. Before(Place(to), Place(ref))
    BY <1>1, <2>1, <2>3, LessIsBefore, BibleAssumption DEF IInv, CountInv, BRTypeOK
  <2>5. ASSUME NEW p \in Places PROVE Before(p, Place(ref)) <=> ~Before(Place(to), p)
    BY <2>1, <2>2, <2>4, BeforeOrder
  <2>6. Passed = {p \in Places : InRange(p)}
    BY <2>5 DEF Passed, InRange
  <2>7. QED
    BY <2>1, <2>6
<1>2. IInv => SizeInside
  BY <1>1 DEF SizeInside
<1>3. QED
  BY <1>2, Inductive, PTL
=============================================================================
