-------------------------- MODULE CoreBibleReference --------------------------
(***************************************************************************)
(* bibstd::core::core_bible_reference (src/bibstd/core/                    *)
(* core_bible_reference.cpp): parse() finds the book whose name and        *)
(* numbers the cursor is in, makes a template of the numbers and the       *)
(* characters between them, and reads the template once with each of the   *)
(* characters as the one between chapter and verse.  The reading with the  *)
(* fewest verses is the result.                                            *)
(*                                                                         *)
(* Texts, positions, find_book() and create_passage_template() are those   *)
(* of module BookNames.                                                    *)
(* One turn of the loop over the sections of a template is one step.       *)
(***************************************************************************)
EXTENDS BibleTable, BookNames

CONSTANTS
  Inputs,              \* the texts and the places of the cursor parse() is called with
  Numerals,            \* the sequences of digits that numbers are written as
  Citations            \* lists of ranges that are written as texts

\* The order of the keys of std::map<char, ...>.
CharOrder == <<",", ".", ":", ";">>

ASSUME TableAssumption == \A k \in DOMAIN name_variants_list : name_variants_list[k].book \in Books
ASSUME InputsAssumption == \A x \in Inputs : IsSequence(x[1])

VARIABLES
  text, cursor,    \* the parameters of parse()
  state,           \* "parse", "match" or "done"
  found,           \* the result of find_book
  template,        \* the numbers and the characters between them
  trying,          \* the down_transition_chars still to be tried
  section,         \* the section that is matched next
  current_level, current_chapter,
  readings,        \* reference_ranges, per character
  ranges           \* the ranges of the parse_result

vars == <<text, cursor, state, found, template, trying, section, current_level,
          current_chapter, readings, ranges>>

-----------------------------------------------------------------------------
\* passage_template_transition_chars.  The code matches a template without any
\* on its own, in the same way: here with a character that is not in it.
DownChars(t) ==
  LET order == InOrder({i \in DOMAIN t.chars : t.chars[i] # "-" /\ \A j \in 1 .. i - 1 : t.chars[j] # t.chars[i]})
  IN  IF order = << >> THEN <<"none">> ELSE [n \in DOMAIN order |-> t.chars[order[n]]]

\* create_passage_sections: between two cuts there are only "-" and c.
Sections(t, c) ==
  LET cuts == InOrder({i \in DOMAIN t.chars : t.chars[i] \notin {"-", c}})
      lo(n) == IF n = 1 THEN 1 ELSE cuts[n - 1] + 1
      hi(n) == IF n > Len(cuts) THEN Len(t.numbers) ELSE cuts[n]
  IN  [n \in 1 .. Len(cuts) + 1 |->
         [numbers |-> SubSeq(t.numbers, lo(n), hi(n)),
          shape |-> [i \in 1 .. hi(n) - lo(n) |-> IF t.chars[lo(n) + i - 1] = "-" THEN "-" ELSE "X"]]]

-----------------------------------------------------------------------------
Init ==
  /\ \E x \in Inputs : text = x[1] /\ cursor = x[2]
  /\ state = "parse" /\ found = {} /\ template = [numbers |-> << >>, chars |-> << >>]
  /\ trying = << >> /\ section = 1 /\ current_level = "chapter" /\ current_chapter = 0
  /\ readings = << >> /\ ranges = << >>

NoBook ==
  /\ state = "parse" /\ find_book(text, cursor) = {}
  /\ state' = "done"
  /\ UNCHANGED <<text, cursor, found, template, trying, section, current_level, current_chapter,
                 readings, ranges>>

\* The book, the template, and the first section with the first character; a
\* name without numbers is the first verse of its book.
FindBook ==
  /\ state = "parse" /\ find_book(text, cursor) # {}
  /\ \E f \in find_book(text, cursor) :
       LET t == create_passage_template(text, f.numbers)
           verse == Reference(f.book, 1, 1)
       IN  /\ found' = {f} /\ template' = t
           /\ IF t.numbers = << >>
                THEN /\ state' = "done" /\ ranges' = <<ReferenceRange(verse, verse)>>
                     /\ UNCHANGED <<trying, current_chapter>>
                ELSE /\ state' = "match" /\ trying' = DownChars(t)
                     /\ current_chapter' = t.numbers[1]
                     /\ UNCHANGED ranges
  /\ UNCHANGED <<text, cursor, section, current_level, readings>>

-----------------------------------------------------------------------------
(* match_passage_template_section                                            *)
Book == (CHOOSE f \in found : TRUE).book
Separator == Head(trying)
Section == Sections(template, Separator)[section]
Without(f, c) == [d \in DOMAIN f \ {c} |-> f[d]]

NextSeparator ==
  /\ trying' = Tail(trying) /\ section' = 1
  /\ current_level' = "chapter" /\ current_chapter' = template.numbers[1]

\* A section that is no reference ends the reading, of which nothing is left.
Fail == NextSeparator /\ readings' = Without(readings, Separator)

\* The section goes from p to q, and leaves level and chapter to the next one.
Match(p, q, level, chapter) ==
  IF Creatable(Book, p[1], p[2]) /\ Creatable(Book, q[1], q[2])
    THEN LET range == ReferenceRange(Reference(Book, p[1], p[2]), Reference(Book, q[1], q[2]))
             before == IF Separator \in DOMAIN readings THEN readings[Separator] ELSE << >>
         IN  /\ readings' = [c \in DOMAIN readings \cup {Separator} |->
                               IF c = Separator THEN Append(before, range) ELSE readings[c]]
             /\ IF section = Len(Sections(template, Separator))
                  THEN NextSeparator
                  ELSE /\ section' = section + 1
                       /\ current_level' = level /\ current_chapter' = chapter
                       /\ UNCHANGED trying
    ELSE Fail

Matching(shape) ==
  /\ state = "match" /\ trying # << >> /\ Section.shape = shape
  /\ UNCHANGED <<text, cursor, state, found, template, ranges>>

\* Chapter, verse - chapter, verse.
VerseToVerse ==
  LET n == Section.numbers
  IN  Matching(<<"X", "-", "X">>) /\ Match(<<n[1], n[2]>>, <<n[3], n[4]>>, "verse", n[3])

\* Chapter, verse - verse.
VerseToVerseOfChapter ==
  LET n == Section.numbers
  IN  Matching(<<"X", "-">>) /\ Match(<<n[1], n[2]>>, <<n[1], n[3]>>, "verse", n[1])

\* Verse or chapter - chapter, verse.
VerseToOtherChapter ==
  LET n == Section.numbers
  IN  /\ current_level = "verse"
      /\ Matching(<<"-", "X">>) /\ Match(<<current_chapter, n[1]>>, <<n[2], n[3]>>, "verse", n[2])

ChapterToVerse ==
  LET n == Section.numbers
  IN  /\ current_level = "chapter"
      /\ Matching(<<"-", "X">>) /\ Match(<<n[1], 1>>, <<n[2], n[3]>>, "verse", n[2])

\* Variant of Verse: the chapter is not kept for the sections that follow.
VerseForgets ==
  LET n == Section.numbers
  IN  Matching(<<"X">>) /\ Match(<<n[1], n[2]>>, <<n[1], n[2]>>, "verse", current_chapter)

\* Chapter, verse.
Verse ==
  LET n == Section.numbers
  IN  Matching(<<"X">>) /\ Match(<<n[1], n[2]>>, <<n[1], n[2]>>, "verse", n[1])

\* Verse - verse or chapter - chapter.
VersesOfCurrent ==
  LET n == Section.numbers
  IN  /\ current_level = "verse" /\ Matching(<<"-">>)
      /\ Match(<<current_chapter, n[1]>>, <<current_chapter, n[2]>>, "verse", current_chapter)

Chapters ==
  LET n == Section.numbers
  IN  /\ current_level = "chapter" /\ Matching(<<"-">>)
      /\ Match(<<n[1], 1>>, <<n[2], verse_count(Book, n[2])>>, "chapter", n[2])

\* Verse or chapter.
VerseOfCurrent ==
  LET n == Section.numbers
  IN  /\ current_level = "verse" /\ Matching(<< >>)
      /\ Match(<<current_chapter, n[1]>>, <<current_chapter, n[1]>>, "verse", current_chapter)

Chapter ==
  LET n == Section.numbers
  IN  /\ current_level = "chapter" /\ Matching(<< >>)
      /\ Match(<<n[1], 1>>, <<n[1], verse_count(Book, n[1])>>, "chapter", n[1])

Shapes == {<<"X", "-", "X">>, <<"X", "-">>, <<"-", "X">>, <<"X">>, <<"-">>, << >>}

OtherShape == state = "match" /\ trying # << >> /\ Section.shape \notin Shapes /\ Matching(Section.shape) /\ Fail

-----------------------------------------------------------------------------
\* size() of a range of which end() is the last verse of the bible counts to
\* its bound (module BibleReference).
Size(r) ==
  IF IsLast(r.to) THEN total_verse_count + 1
  ELSE Cardinality({p \in Places : ~Before(p, Place(r.from)) /\ ~Before(Place(r.to), p)})

Total(reading) == SumFunction([i \in DOMAIN reading |-> Size(reading[i])])

\* Variant of Smallest: the reading with most verses.
SmallestLargest(f) ==
  CHOOSE c \in DOMAIN f : \A d \in DOMAIN f : Total(f[c]) >= Total(f[d])

\* min_element: of the readings with fewest verses the one with the first key.
Position(c) == IF c = "none" THEN 0 ELSE CHOOSE i \in DOMAIN CharOrder : CharOrder[i] = c
Smallest(f) ==
  CHOOSE c \in DOMAIN f : \A d \in DOMAIN f :
    Total(f[c]) < Total(f[d]) \/ (Total(f[c]) = Total(f[d]) /\ Position(c) <= Position(d))

Choose ==
  /\ state = "match" /\ trying = << >>
  /\ state' = "done"
  /\ ranges' = IF DOMAIN readings = {} THEN << >> ELSE readings[Smallest(readings)]
  /\ UNCHANGED <<text, cursor, found, template, trying, section, current_level, current_chapter, readings>>

Next ==
  \/ NoBook \/ FindBook \/ VerseToVerse \/ VerseToVerseOfChapter \/ VerseToOtherChapter
  \/ ChapterToVerse \/ Verse \/ VersesOfCurrent \/ Chapters \/ VerseOfCurrent \/ Chapter
  \/ OtherShape \/ Choose

Spec == Init /\ [][Next]_vars
-----------------------------------------------------------------------------
\* What a reading and the result consist of are references create() can return,
\* whatever the numbers of the text are.
CBTypeOK ==
  /\ state \in {"parse", "match", "done"}
  /\ \A f \in found : f.book \in Books
  /\ template.numbers \in Seq(Nat) /\ template.chars \in Seq(transition_chars)
  /\ trying \in Seq(transition_chars \cup {"none"})
  /\ section \in Nat \ {0} /\ current_level \in {"chapter", "verse"} /\ current_chapter \in Nat
  /\ DOMAIN readings \subseteq transition_chars \cup {"none"}
  /\ \A c \in DOMAIN readings : \A i \in DOMAIN readings[c] :
       IsReference(readings[c][i].from) /\ IsReference(readings[c][i].to)
  /\ \A i \in DOMAIN ranges : IsReference(ranges[i].from) /\ IsReference(ranges[i].to)

(* What a template t means in book b, read with c between chapter and verse.   *)
(* A number before a c is a chapter; any other one is a verse of the last     *)
(* chapter before it, or a whole chapter if there is none.                    *)
Heading(t, c, j) == j \in DOMAIN t.chars /\ t.chars[j] = c
Headings(t, c, j) == {m \in 1 .. j - 1 : Heading(t, c, m)}

Begins(t, c, j) ==
  IF Headings(t, c, j) = {} THEN <<t.numbers[j], 1>>
  ELSE <<t.numbers[Max(Headings(t, c, j))], t.numbers[j]>>

Ends(t, b, c, j) ==
  IF Headings(t, c, j) = {} THEN <<t.numbers[j], verse_count(b, t.numbers[j])>>
  ELSE <<t.numbers[Max(Headings(t, c, j))], t.numbers[j]>>

\* The numbers of the n-th part, and of these the ones that are no chapters
\* of a verse; from where to where it goes.
Parts(t, c) == 1 .. Cardinality({i \in DOMAIN t.chars : t.chars[i] \notin {"-", c}}) + 1
Part(t, c, n) ==
  {j \in DOMAIN t.numbers : Cardinality({i \in 1 .. j - 1 : t.chars[i] \notin {"-", c}}) = n - 1}
Points(t, c, n) == {j \in Part(t, c, n) : ~Heading(t, c, j)}
From(t, c, n) == Begins(t, c, Min(Points(t, c, n)))
To(t, b, c, n) == Ends(t, b, c, Max(Points(t, c, n)))

\* A part can be read if it is one point or goes from one to another, and these
\* are verses and chapters of the book.
PartReadable(t, b, c, n) ==
  /\ Cardinality(Points(t, c, n)) <= 2
  /\ \A j \in Part(t, c, n) : ~(Heading(t, c, j) /\ Heading(t, c, j + 1))
  /\ Creatable(b, From(t, c, n)[1], From(t, c, n)[2])
  /\ Creatable(b, To(t, b, c, n)[1], To(t, b, c, n)[2])
Readable(t, b, c) == \A n \in Parts(t, c) : PartReadable(t, b, c, n)

PartMeaning(t, b, c, n) ==
  ReferenceRange(Reference(b, From(t, c, n)[1], From(t, c, n)[2]),
                 Reference(b, To(t, b, c, n)[1], To(t, b, c, n)[2]))
Meaning(t, b, c) == [n \in Parts(t, c) |-> PartMeaning(t, b, c, n)]

Matched == found # {} /\ template.numbers # << >>

\* With each character that has been tried the sections have been read as the
\* whole template means it, although they are matched one by one, with a level
\* and a chapter carried along; of a reading that failed nothing is left.
ReadsAsMeant ==
  Matched =>
    \A c \in ToSet(DownChars(template)) \ ToSet(trying) :
      IF Readable(template, Book, c) THEN c \in DOMAIN readings /\ readings[c] = Meaning(template, Book, c)
      ELSE c \notin DOMAIN readings

VersesOf(r) == {p \in Places : ~Before(p, Place(r.from)) /\ ~Before(Place(r.to), p)}
Count(reading) == SumFunction([i \in DOMAIN reading |-> Cardinality(VersesOf(reading[i]))])

\* The result is one whole reading of the template, and no other reading has
\* fewer verses, unless size() is wrong for a range that ends at the last verse
\* of the bible; there is no result only if there is no reading.
SmallestReading ==
  state = "done" /\ Matched =>
    LET good == {c \in ToSet(DownChars(template)) : Readable(template, Book, c)}
        meaning(c) == Meaning(template, Book, c)
        counted(c) == \A i \in DOMAIN meaning(c) : ~IsLast(meaning(c)[i].to)
    IN  IF good = {} THEN ranges = << >>
        ELSE \E c \in good :
               /\ ranges = meaning(c)
               /\ (\A d \in good : counted(d)) =>
                     \A d \in good : Count(meaning(c)) <= Count(meaning(d))

\* Of the characters: a letter is nothing else, nor are the "," and the ";" of
\* a citation, and what may follow a number begins with a letter.
CharactersFit ==
  /\ Letters \cap (Whitespaces \cup Lines \cup {".", "*"}) = {}
  /\ {",", ";"} \cap (Letters \cup Whitespaces \cup Lines) = {} /\ "-" \notin Letters \cup Whitespaces
  /\ \A j \in DOMAIN number_postfixes : number_postfixes[j] # << >> /\ number_postfixes[j][1] \in Letters
  /\ \A c \in DigitChars : Digit[c] \in 0 .. 9
ASSUME CharactersAssumption == CharactersFit

NumberOf(w) == Value(w, 1, Len(w))
Written(n) == CHOOSE w \in Numerals : NumberOf(w) = n

\* A citation is a range, or two of one book, each of them in one chapter and
\* with an end that size() counts right; their numbers can be written.
InOneChapter(r) == r.from.chapter = r.to.chapter /\ ~IsLast(r.to)
Writable(r) ==
  \A n \in {r.from.chapter, r.from.verse, r.to.chapter, r.to.verse} :
    n <= UintMax /\ \E w \in Numerals : NumberOf(w) = n
IsCited(b, r) ==
  /\ r = ReferenceRange(r.from, r.to) /\ IsReference(r.from) /\ IsReference(r.to)
  /\ r.from.book = b /\ r.to.book = b /\ Writable(r)
CitationsFit ==
  /\ \A w \in Numerals : w \in Seq(DigitChars) /\ w # << >>
  /\ \A l \in Citations :
       \/ l = <<l[1]>> /\ \E b \in Books : IsCited(b, l[1])
       \/ l = <<l[1], l[2]>> /\ \E b \in Books : \A i \in 1 .. 2 : IsCited(b, l[i]) /\ InOneChapter(l[i])
ASSUME CitationsAssumption == CitationsFit

Cite(r) == Written(r.chapter) \o <<",">> \o Written(r.verse)
Citation(r) ==
  IF r.from = r.to THEN Cite(r.from)
  ELSE Cite(r.from) \o <<"-">> \o
       (IF r.from.chapter = r.to.chapter THEN Written(r.to.verse) ELSE Cite(r.to))

Cited(k, l) ==
  name_variants_list[k].name \o
  FlattenSeq([i \in DOMAIN l |-> IF i = 1 THEN Citation(l[i]) ELSE <<";">> \o Citation(l[i])])

\* What is cited as chapter, verse - verse, or chapter, verse - chapter, verse,
\* with ";" between the ranges, is found as it is meant.
RoundTrip ==
  state = "done" /\ cursor = 1 =>
    \A k \in {j \in DOMAIN name_variants_list : Occurs(name_variants_list[j].name, text, 1)} :
      \A l \in Citations :
        l[1].from.book = name_variants_list[k].book /\ text = Cited(k, l) => ranges = l

\* "For John and X_John the first match would be taken even if it should be the
\* second one" (core_bible_reference.cpp:179): the name that is found is no part
\* of a longer one that would do as well; and its numbers end before the name of
\* the next book, the digit of that name included.
NamesWhole ==
  \A f \in found :
    LET end(y) == y[2] + Len(name_variants_list[y[1]].name)
        s == Normalized(text)
    IN  /\ \A x \in Hits(text, cursor) :
             x[2] <= f.name[2] /\ end(x) >= end(f.name) => x = f.name
        /\ \A k \in DOMAIN name_variants_list, p \in end(f.name) .. Len(s) :
             Occurs(name_variants_list[k].name, s, p) =>
               f.numbers[2] <= Kept(text)[p] /\ f.origin[2] <= Kept(text)[p]
=============================================================================
