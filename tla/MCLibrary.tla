------------------------------ MODULE MCLibrary ------------------------------
(* Library with types of three to five bits, rectangles in a square of three  *)
(* points a side, names over two letters and a digit, one letter of two       *)
(* bytes, a bible of two books, pictures of up to five pixels a side; what is *)
(* printed and cited is of the real bible.                                    *)
EXTENDS Library

MCTypes == {Math!Type(bits, signed) : bits \in 3 .. 5, signed \in BOOLEAN}
MCRectType == Math!Type(4, TRUE)
MCCoordinates == -1 .. 1

MCDigits == {1}
MCLetters == {<<2>>, <<3, 4>>}
MCWhitespaces == {<<5>>, <<3, 5>>}
MCLines == {<<6>>}
MCNames == <<<<1, 2>>, <<2>>, <<2, 3, 4>>, <<2, 3, 4, 2>>, <<3, 4, 3, 4>>>>

\* A character and what else it may be; a symbol may be two characters, and one may be
\* found twice.
MCSymbols == {<<1>>, <<2>>, <<3, 4>>, <<2, 3, 4>>, <<7>>}
MCFound == {<< >>} \cup {<<Choice(s, 2)>> : s \in MCSymbols} \cup {<<Choice(<<2>>, 0), Choice(s, 3)>> : s \in MCSymbols}
MCLists ==
  UNION {[1 .. n -> [found : MCFound, main : {Choice(s, 2) : s \in MCSymbols}]] : n \in 1 .. 2}
  \cup [1 .. 3 -> [found : {<< >>} \cup {<<Choice(s, 3)>> : s \in {<<2>>, <<3, 4>>}}, main : {Choice(s, 2) : s \in MCSymbols}]]

MCLastBook == 1
MCVerses == [b \in 0 .. 1 |-> IF b = 0 THEN <<2, 1, 3>> ELSE <<2, 2>>]
MCTotal == 9
MCReferences == {Reference(p[1], p[2], p[3]) : p \in Places}
MCRanges == {ReferenceRange(r, s) : r, s \in MCReferences}
MCTranslations == {<< >>, <<"elb">>, <<"ngu", "END", "elb">>, <<"END">>}
MCMap == Data!translations_map_de

\* A book with a digit, and two of which one ends as the other.
MCNeighbours == {0, 42, 61}
=============================================================================
