------------------------------- MODULE MCBible -------------------------------
(* BibleReference and CoreBibleReference with one bible of four books and     *)
(* twenty-four verses: chapters that grow and shrink, books with fewer and    *)
(* more chapters than the one before, and a book of a single verse.  As in    *)
(* the table of the code, the constant is one less than the number of verses. *)
(*                                                                            *)
(* Only the last two books have names.  The name of the last ends in a name   *)
(* of the other, as "1Joh" does, and that name begins another one, as "Joh"   *)
(* begins "Johannes".  The texts are all the short ones, a name with up to    *)
(* five numbers, two names with numbers, and the citations.                   *)
(*                                                                            *)
(* The two do not work on each other's state: a behaviour is one of the one   *)
(* or of the other, while the other one rests.                                *)
EXTENDS BibleReference, CoreBibleReference

VARIABLE part     \* "reference" or "parse"

MCLastBook == 3
MCVerses == (0 :> <<2, 1>>) @@ (1 :> <<1>>) @@ (2 :> <<3, 1, 12>>) @@ (3 :> <<2, 2>>)
MCTotal == 23
MCNumbers == 0 .. 13
MCDigit == ("1" :> 1) @@ ("2" :> 2) @@ ("3" :> 3)
MCPostfixes == <<<<"f", "f", ".">>, <<"f", ".">>, <<"a">>>>
MCNames ==
  <<[book |-> 2, name |-> <<"J", "o">>], [book |-> 2, name |-> <<"J">>],
    [book |-> 3, name |-> <<"1", "J">>]>>

Short == SeqOf({"J", "o", "1", "2", " ", ",", "-", "f", "."}, 4)
Number == {"1", "2", "3"}
Between == {",", ";", "-"}
Numbered(name, n, numbers) ==
  {name \o [i \in 1 .. 2 * n - 1 |-> IF i % 2 = 1 THEN x[1][(i + 1) \div 2] ELSE x[2][i \div 2]] :
     x \in [1 .. n -> numbers] \X [1 .. n - 1 -> Between]}
TwoNames ==
  {<<"J", a, s, b>> \o t \o <<"J", c>> :
     a, b, c \in {"1", "2"}, s \in {",", "-", "a"},
     t \in {<<";", " ", "1">>, <<" ", "1">>, <<"f", ".", "1">>, <<" ">>}}

MCNumerals == {<<"1">>, <<"2">>, <<"3">>, <<"1", "1">>, <<"1", "2">>}
InBook(b) == {Reference(p[1], p[2], p[3]) : p \in {q \in Places : q[1] = b /\ q[3] \in {1, 2, 3, 11, 12}}}
Ordered(b) == {ReferenceRange(x[1], x[2]) : x \in InBook(b) \X InBook(b)}
OneChapter(b) == {r \in Ordered(b) : r.from.chapter = r.to.chapter}
MCCitations ==
  {<<r>> : r \in Ordered(2)} \cup {<<x[1], x[2]>> : x \in OneChapter(2) \X OneChapter(2)}

MCInputs ==
  {x \in (Short \cup TwoNames) \X (1 .. 9) : x[2] <= Len(x[1]) + 1}
  \cup ((UNION {Numbered(name, n, Number) : name \in {<<"J">>, <<"1", "J">>}, n \in 1 .. 4}) \X {1})
  \cup (Numbered(<<"J">>, 5, {"1", "2"}) \X {1})
  \cup ({Cited(2, l) : l \in MCCitations} \X {1})

-----------------------------------------------------------------------------
First == Reference(0, 1, 1)

ReferenceRests ==
  /\ use = "client" /\ ref = First /\ from = First /\ to = First
  /\ crossed = FALSE /\ counter = 0

ParseRests ==
  /\ text = << >> /\ cursor = 1
  /\ state = "parse" /\ found = {} /\ template = [numbers |-> << >>, chars |-> << >>]
  /\ trying = << >> /\ section = 1 /\ current_level = "chapter" /\ current_chapter = 0
  /\ readings = << >> /\ ranges = << >>

MCInit ==
  \/ part = "reference" /\ BRInit /\ ParseRests
  \/ part = "parse" /\ Init /\ ReferenceRests

MCNext ==
  \/ part = "reference" /\ BRNext /\ UNCHANGED <<vars, part>>
  \/ part = "parse" /\ Next /\ UNCHANGED <<brVars, part>>

MCSpec == MCInit /\ [][MCNext]_<<vars, brVars, part>>
=============================================================================
