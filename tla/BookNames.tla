------------------------------ MODULE BookNames ------------------------------
(***************************************************************************)
(* core_bible_reference::find_book (src/bibstd/core/                       *)
(* core_bible_reference.cpp): the book whose name, with the numbers after  *)
(* it, the cursor is in; and create_passage_template, the numbers and what *)
(* is between them.                                                        *)
(*                                                                         *)
(* A text is a sequence of characters.  Positions start at 1, and a range  *)
(* of positions is <<begin, end>> without its end.                         *)
(***************************************************************************)
EXTENDS Naturals, FiniteSetsExt, SequencesExt

CONSTANTS
  Letters, Whitespaces, Lines,   \* the characters of txt::chars
  Digit,               \* the value of each character that is a digit
  number_postfixes,    \* sequences of characters, the first that fits counts
  name_variants_list,  \* the names, each with its book, in their order
  UintMax              \* the largest std::uint32_t

number_postfix_chars == UNION {ToSet(number_postfixes[i]) \cap Letters : i \in DOMAIN number_postfixes}
transition_chars == {",", ";", ".", "-", ":"}

DigitChars == DOMAIN Digit
IsSequence(s) == s \in Seq(ToSet(s))
Occurs(name, s, p) ==
  /\ p + Len(name) - 1 <= Len(s)
  /\ \A i \in 1 .. Len(name) : s[p + i - 1] = name[i]

\* Of the table of names the code relies on: a name does not overlap itself and
\* is one digit at most and then letters, the first of which is not one that may
\* follow a number; and when the rest of a longer name could be taken for what
\* follows a number, then the longer name is later in the list.
NamesFit ==
  /\ IsSequence(name_variants_list) /\ IsSequence(number_postfixes)
  /\ \A j \in DOMAIN number_postfixes : IsSequence(number_postfixes[j])
  /\ \A c \in DigitChars : c \notin Letters \cup Whitespaces \cup Lines \cup {"*"} \cup transition_chars
  /\ \A k \in DOMAIN name_variants_list :
       LET name == name_variants_list[k].name
       IN  /\ IsSequence(name)
           /\ \E h \in 1 .. Len(name) :
                /\ h \in {1, 2} /\ name[h] \in Letters \ number_postfix_chars
                /\ \A i \in 1 .. Len(name) : name[i] \in IF i < h THEN DigitChars ELSE Letters
           /\ \A d \in 1 .. Len(name) - 1 : \E i \in 1 .. Len(name) - d : name[i] # name[i + d]
  /\ \A k, l \in DOMAIN name_variants_list :
       LET short == name_variants_list[k].name  long == name_variants_list[l].name
       IN  \A p \in 1 .. Len(long) :
             /\ k # l /\ Occurs(short, long, p)
             /\ \A i \in p + Len(short) .. Len(long) : long[i] \in number_postfix_chars
             => k < l
ASSUME NamesAssumption == NamesFit

-----------------------------------------------------------------------------
(* find_book                                                                 *)
\* The numbers of a finite set in their order: the n-th one has n - 1 below it.
\* (SubSeq has TLC keep the sequence, and not its definition.)
InOrder(S) ==
  LET nth == [n \in 1 .. Cardinality(S) |-> CHOOSE i \in S : Cardinality({j \in S : j < i}) = n - 1]
  IN  SubSeq(nth, 1, Cardinality(S))

\* The positions of the characters of normalized_text, and the text itself.
Kept(t) == InOrder({i \in DOMAIN t : t[i] \notin Whitespaces \cup Lines \cup {"."}})
Normalized(t) ==
  LET raw == Kept(t)
  IN  [i \in DOMAIN raw |-> IF t[raw[i]] \in Letters \cup DigitChars THEN t[raw[i]] ELSE "*"]

\* Where a visit of the characters of s from position b on ends, which goes on until a
\* character of a set.
for_each_char_while(s, b, stops) == Min({i \in b .. Len(s) : s[i] \in stops} \cup {Len(s) + 1})

\* The end of the numbers that start at position b of s, whether there are any.
NumbersEnd(s, b) == for_each_char_while(s, b, Letters \ number_postfix_chars)
NumbersFound(s, b) == \E i \in b .. NumbersEnd(s, b) - 1 : s[i] \in DigitChars

\* Variant of ValidatedEnd: the digit of the next book is not given back.
ValidatedEndKept(s, b) == NumbersEnd(s, b)

\* validate_index_range_numbers_end: the last character may belong to a name.
ValidatedEnd(s, b) ==
  LET e == NumbersEnd(s, b)
      name == \E k \in DOMAIN name_variants_list : Occurs(name_variants_list[k].name, s, e - 1)
  IN  IF e <= Len(s) /\ e > b /\ name THEN e - 1 ELSE e

\* What find_book makes of name k at position p.  The range of the numbers is
\* put in order when all of them have been given back.
Candidate(t, k, p) ==
  LET raw == Kept(t)
      s == Normalized(t)
      b == p + Len(name_variants_list[k].name)
      begin == raw[b]
      end == raw[ValidatedEnd(s, b) - 1] + 1
  IN  [book |-> name_variants_list[k].book, name |-> <<k, p>>,
       origin |-> <<raw[p], end>>,
       numbers |-> IF begin <= end THEN <<begin, end>> ELSE <<end, begin>>]

Hits(t, c) ==
  LET s == Normalized(t)
  IN  {x \in (DOMAIN name_variants_list) \X DOMAIN s :
         /\ Occurs(name_variants_list[x[1]].name, s, x[2])
         /\ NumbersFound(s, x[2] + Len(name_variants_list[x[1]].name))
         /\ LET o == Candidate(t, x[1], x[2]).origin IN o[1] <= c /\ c < o[2]}

\* Variant of Preferred: the names are tried in their order.
PreferredForward(h) == Min({x[1] : x \in h})

\* The names are tried from the last to the first.
Preferred(h) == Max({x[1] : x \in h})

\* The empty set, or the one result: the first place of the preferred name.
find_book(t, c) ==
  LET h == Hits(t, c)
      k == Preferred(h)
  IN  IF h = {} THEN {} ELSE {Candidate(t, k, Min({x[2] : x \in {y \in h : y[1] = k}}))}

-----------------------------------------------------------------------------
(* create_passage_template                                                   *)
PostfixLength(t, i) ==
  LET fits == {j \in DOMAIN number_postfixes : Occurs(number_postfixes[j], t, i)}
  IN  IF fits = {} THEN 0 ELSE Len(number_postfixes[Min(fits)])

normalize_passage_text(t) ==
  LET rest[i \in 1 .. Len(t) + 1] ==
        IF i > Len(t) THEN << >>
        ELSE IF PostfixLength(t, i) > 0 THEN rest[i + PostfixLength(t, i)]
        ELSE IF t[i] \in Letters \cup Whitespaces THEN rest[i + 1]
        ELSE <<IF t[i] \in Lines THEN "-" ELSE t[i]>> \o rest[i + 1]
  IN  rest[1]

\* The value of the digits of s from i to j.
Value(s, i, j) ==
  LET v[k \in i .. j] == Digit[s[k]] + (IF k = i THEN 0 ELSE 10 * v[k - 1])
  IN  v[j]

\* The numbers of s up to the first character that neither belongs to a number
\* nor is a transition, or the first number that is too large; of the
\* characters between two numbers the first one.
TemplateOf(s) ==
  LET stop == Min({i \in DOMAIN s : s[i] \notin DigitChars \cup transition_chars} \cup {Len(s) + 1})
      first(i) == i < stop /\ s[i] \in DigitChars /\ (i = 1 \/ s[i - 1] \notin DigitChars)
      last(i) == Min({j \in i .. stop - 1 : j = stop - 1 \/ s[j + 1] \notin DigitChars})
      fits(i) == first(i) => Value(s, i, last(i)) <= UintMax
      order == InOrder({i \in DOMAIN s : first(i) /\ \A j \in 1 .. i : fits(j)})
  IN  [numbers |-> [n \in DOMAIN order |-> Value(s, order[n], last(order[n]))],
       chars |-> [n \in 1 .. Len(order) - 1 |-> s[last(order[n]) + 1]]]

create_passage_template(t, r) == TemplateOf(normalize_passage_text(SubSeq(t, r[1], r[2] - 1)))
=============================================================================
