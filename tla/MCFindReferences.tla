--------------------------- MODULE MCFindReferences ---------------------------
(* FindReferences on a window with three lines of ten characters.  The        *)
(* reference stands anywhere in it, with and without a number before its      *)
(* name, alone or right before another one; the cursor is on one of its       *)
(* characters, at the upper border of one, or below one, and for two of the   *)
(* places on any character.                                                   *)
EXTENDS FindReferences

MCWindow == Rect(0, 0, 84, 46)

Citing(before, numbers) ==
  (IF before THEN <<"number">> ELSE << >>) \o <<"name">> \o [i \in 1 .. numbers |-> "number"]
Page(f, c, exists) ==
  [kinds |-> [i \in Characters |-> IF i \in f .. f + Len(c) - 1 THEN c[i - f + 1] ELSE "other"],
   exists |-> exists]
MCCitations ==
  {Citing(b, n) : b \in BOOLEAN, n \in {1, 2, 5}}
  \cup {Citing(FALSE, 1) \o Citing(b, 1) : b \in BOOLEAN}

At(i, y) == <<12 + ((i - 1) % 10) * 6 + 3, 12 + ((i - 1) \div 10) * 8 + y>>

\* Most citations are there to be read, some are not.
Placed == {x \in Characters \X MCCitations : x[1] + Len(x[2]) - 1 \in Characters}
OnCitation(x) == {At(i, y) : i \in x[1] .. x[1] + Len(x[2]) - 1, y \in {0, 2, 6}}
MCInputs ==
  UNION {{<<Page(x[1], x[2], exists), where>> :
            exists \in IF x[1] % 6 = 1 THEN BOOLEAN ELSE {TRUE}, where \in OnCitation(x)} : x \in Placed}
  \cup UNION {{<<Page(x[1], x[2], TRUE), At(i, 2)>> : i \in Characters} : x \in {y \in Placed : y[1] \in {1, 23}}}
=============================================================================
