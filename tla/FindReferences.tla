---------------------------- MODULE FindReferences ----------------------------
(***************************************************************************)
(* bibstd::workflow::workflow_bible_reference_ocr (src/bibstd/workflow/    *)
(* workflow_bible_reference_ocr.cpp): one search, a task on the strand of  *)
(* the workflow.  It captures one area after the other, recognises and     *)
(* parses it, and stops at the first valid one that has a reference.       *)
(*                                                                         *)
(* The screen shows one paragraph of text.  A character is the name of a   *)
(* book, a number or other text; a name and the number right before it are *)
(* the name of another book (see module CoreBibleReference, the second and *)
(* third part of NamesAssumption).  Recognition is external: it finds the  *)
(* characters that are whole in the image, and may fail, or take the name  *)
(* for other text, of which one of its choices is right.                   *)
(***************************************************************************)
EXTENDS CaptureArea

CONSTANTS
  Inputs,          \* what the screen may show, see IsPage, and the places of the cursor
  Window,          \* the rectangle of the window
  Rows, Columns,   \* the lines of the text, and the characters of a line
  CharWidth, CharHeight, Pitch,   \* of a character, and from line to line
  Left, Top,       \* where the text begins
  assumed_initial_char_height

Characters == 1 .. Rows * Columns
Kinds == {"name", "number", "other"}
\* The kinds of the characters, and whether there is what is cited.
IsPage(p) == p.kinds \in [Characters -> Kinds] /\ p.exists \in BOOLEAN

ASSUME PageAssumption ==
  /\ Window \in Rectangles
  /\ \A x \in Inputs : IsPage(x[1]) /\ x[2] \in Int \X Int /\ contains_point(Window, x[2])
  /\ Rows \in Nat \ {0} /\ Columns \in Nat \ {0} /\ CharWidth \in Nat \ {0} /\ CharHeight \in Nat \ {0}
  /\ Pitch \in Nat /\ Pitch >= CharHeight /\ Left \in Int /\ Top \in Int
  /\ assumed_initial_char_height \in Nat

VARIABLES
  page, cursor,
  state,           \* "start", "search", "parse" or "done"
  areas,           \* the areas that are still to be captured
  image,           \* the area core_tesseract has the image of, and what is seen in it
  result,          \* the parse_result: valid, references
  trouble          \* what has gone wrong so far, no part of the program

vars == <<page, cursor, state, areas, image, result, trouble>>

-----------------------------------------------------------------------------
(* What the screen shows, and what recognition makes of an image of it.       *)
Line(i) == (i - 1) \div Columns + 1
Box == [i \in Characters |->
  Rect(Left + ((i - 1) % Columns) * CharWidth, Top + (Line(i) - 1) * Pitch, CharWidth, CharHeight)]

\* The text is in the window; its lines are apart, and its characters are at most twice as
\* wide as high, or the margins of a valid area could hide one.
ASSUME LayoutAssumption ==
  /\ CharHeight < Pitch /\ CharWidth <= 2 * CharHeight
  /\ \A i \in Characters : contains(Window, Box[i])

\* The characters in the image; they are read line by line, in the order of their numbers.
Seen(area) == {i \in Characters : contains(area, Box[i])}

NoImage == [area |-> Rect(0, 0, 0, 0), seen |-> {}]
InImage(i) == Minus(Box[i], <<image.area.x, image.area.y>>)
Lines ==
  LET numbers == {Line(i) : i \in image.seen}
      row(l) == {i \in image.seen : Line(i) = l}
  IN  [n \in 1 .. Max(numbers) - Min(numbers) + 1 |-> hull({InImage(i) : i \in row(Min(numbers) + n - 1)})]
Paragraph == hull({InImage(i) : i \in image.seen})

\* Variant of Relative: the place on the screen.
RelativeToScreen(area) == cursor

Relative(area) == <<cursor[1] - area.x, cursor[2] - area.y>>

\* min_distance_index: the first of the boxes whose centers are nearest to a point.
Distance(box, p) ==
  LET x == box.x + box.w \div 2 - p[1]  y == box.y + box.h \div 2 - p[2]
  IN  x * x + y * y
Nearest(boxes, p) ==
  LET least == Min({Distance(boxes[n], p) : n \in DOMAIN boxes})
  IN  Min({n \in DOMAIN boxes : Distance(boxes[n], p) = least})

\* recognize: the part of a box that is in the image, and the characters read there.
RecognizedPart(box) == overlap(Rect(0, 0, image.area.w, image.area.h), box)
ReadIn(box) == LET part == RecognizedPart(box) IN {i \in image.seen : contains(part, InImage(i))}

\* The text of the paragraph, and which of its characters is nearest to the cursor.
find_main_reference_position_data(relative_cursor_position) ==
  LET seen == ReadIn(Paragraph)
  IN  [seen |-> seen, index |-> Nearest([i \in seen |-> InImage(i)], relative_cursor_position)]

\* parse(): the characters of the book and its numbers at character n of those seen, or
\* the empty set; names are those that are read as names.  The last number may be
\* part of the next name.
Citation(seen, names, n) ==
  LET numbers == {m \in seen : page.kinds[m] = "number"}
      last(k) == Max({m \in seen : m < k} \cup {0})
      after(k) == Min({m \in seen \ numbers : k < m} \cup {Rows * Columns + 1})
      end(k) == IF after(k) \in names THEN last(after(k)) ELSE after(k)
      begin(k) == IF last(k) \in numbers THEN last(k) ELSE k
      found == {k \in seen \cap names : begin(k) <= n /\ n < end(k) /\ \E m \in numbers : k < m /\ m < after(k)}
      name == Min(found)
      first == begin(name)
      behind == end(name)
  IN  IF found = {} THEN {} ELSE {m \in seen : first <= m /\ m < behind}

Names == {i \in Characters : page.kinds[i] = "name"}

-----------------------------------------------------------------------------
Init ==
  /\ \E x \in Inputs : page = x[1] /\ cursor = x[2]
  /\ state = "start" /\ areas = << >> /\ image = NoImage /\ trouble = {}
  /\ result = [valid |-> FALSE, references |-> {}]

\* WindowFromPoint finds no window, or an area is empty.
NoAreas ==
  /\ state = "start" /\ state' = "done" /\ trouble' = trouble \cup {"failed"}
  /\ UNCHANGED <<page, cursor, areas, image, result>>

GenerateAreas ==
  /\ state = "start"
  /\ areas' = generate_capture_areas(Window, cursor, assumed_initial_char_height)
  /\ areas' # << >> /\ state' = "search"
  /\ UNCHANGED <<page, cursor, image, result, trouble>>

\* capture_and_set_ocr_area fails: the image stays the one it was.
CaptureFails ==
  /\ state = "search" /\ areas # << >>
  /\ areas' = Tail(areas) /\ trouble' = trouble \cup {"failed"}
  /\ UNCHANGED <<page, cursor, state, image, result>>

Capture ==
  /\ state = "search" /\ areas # << >>
  /\ image' = [area |-> Head(areas), seen |-> Seen(Head(areas))]
  /\ state' = "parse"
  /\ UNCHANGED <<page, cursor, areas, result, trouble>>

\* A reference is kept until there is another one.
Kept(area_result) == IF area_result.references # {} THEN area_result ELSE result

\* Variant of Stops: every reference is good enough.
StopsSoon(r) == r.references # {}

Stops(r) == r.valid

GoOn(area_result, wrong) ==
  /\ areas' = Tail(areas)
  /\ result' = Kept(area_result)
  /\ state' = IF Stops(result') THEN "done" ELSE "search"
  /\ trouble' = trouble \cup wrong
  /\ UNCHANGED <<page, cursor, image>>

Paragraphless == image.seen = {} \/ ~contains_point(Paragraph, Relative(Head(areas)))

\* Without a paragraph under the cursor, or when tesseract fails.
NothingRecognized ==
  /\ state = "parse"
  /\ GoOn([valid |-> FALSE, references |-> {}], IF Paragraphless THEN {} ELSE {"failed"})

\* What a citation refers to.
Existing(citation) == IF page.exists THEN citation ELSE {}

\* parse_tesseract_recognition: the area is judged by what the main text has been
\* read as; if that is no reference, one of the choices may be.  It is read as it
\* is written, or the name is missing from it.
Recognized ==
  LET area == Head(areas)
      data == find_main_reference_position_data(Relative(area))
      written == Citation(data.seen, Names, data.index)
      valid(read) == is_valid_capture_area(
        Relative(area), Rect(0, 0, area.w, area.h), Paragraph, Lines, {InImage(i) : i \in read})
  IN  /\ state = "parse" /\ ~Paragraphless
      /\ \E names \in {Names, Names \ written} :
           LET read == Citation(data.seen, names, data.index)
           IN  \E references \in IF Existing(read) = {} THEN {{}, Existing(written)} ELSE {read} :
                 GoOn([valid |-> valid(read), references |-> references],
                      IF read = written THEN {} ELSE IF read = {} THEN {"failed"} ELSE {"failed", "deceived"})

\* The end of any_of, after which the references are opened.
Exhausted ==
  /\ state = "search" /\ areas = << >>
  /\ state' = "done"
  /\ UNCHANGED <<page, cursor, areas, image, result, trouble>>

Next ==
  \/ NoAreas \/ GenerateAreas \/ CaptureFails \/ Capture
  \/ NothingRecognized \/ Recognized \/ Exhausted

Spec == Init /\ [][Next]_vars
-----------------------------------------------------------------------------
\* What is found is a set of characters of the page.
FRTypeOK ==
  /\ IsPage(page) /\ state \in {"start", "search", "parse", "done"}
  /\ \A i \in DOMAIN areas : ~IsEmpty(areas[i]) /\ contains(Window, areas[i])
  /\ result.valid \in BOOLEAN /\ result.references \subseteq Characters
  /\ trouble \subseteq {"failed", "deceived"}

\* "The generated list is sorted from the smallest to the largest area"
\* (core_bible_reference_ocr.hpp:40): an area that is still to be captured shows
\* all that is in the image, the cursor included.
AreasGrow ==
  /\ \A i \in DOMAIN areas : contains_point(areas[i], cursor)
  /\ \A i, j \in DOMAIN areas : i < j => contains(areas[j], areas[i])
  /\ image # NoImage => \A i \in DOMAIN areas : contains(areas[i], image.area)

\* The cursor is on a character, and not at its border with the one before or above.
OnCharacter(i) ==
  contains_point(Box[i], cursor) /\ Box[i].x < cursor[1] /\ (Box[i].y < cursor[2] \/ CharHeight < Pitch)

\* A reference that is found has the character under the cursor in it.
FoundUnderCursor ==
  result.references # {} => \A i \in Characters : OnCharacter(i) => i \in result.references

\* What there is to be found: the reference, if all the text is read as it is.
Whole == Existing(Citation(Characters, Names, Nearest(Box, cursor)))
AtBorder(citation) == \E i \in citation : i % Columns \in {0, 1}
OnText == \E i \in Characters : contains_point(Box[i], cursor)

\* The search stops before it has seen more only if it has seen all: no number
\* of the reference, nor the number of its book, is outside the valid area, as long
\* as what it has found is inside a line: a number at the end of the line before is
\* not looked for (nor what it finds if the name was taken for other text, and what
\* was left was a citation as well).
ValidIsWhole ==
  result.valid /\ "deceived" \notin trouble /\ ~AtBorder(result.references) => result.references = Whole

\* A search in which all went well finds the reference under the cursor, unless
\* it is, or seems to be, in two lines.
WholeFound ==
  state = "done" /\ trouble = {} /\ OnText /\ ~AtBorder(result.references) =>
    LET whole == Whole IN whole # {} /\ ~AtBorder(whole) => result.references = whole

\* "[T]here must be a complete text line or margin above and below the line where
\* the cursor is contained" (core_bible_reference_ocr.cpp:239): if the search
\* stops, and all went well, with a reference that reaches the end of a line, it
\* has seen the next line.
NextLineSeen ==
  result.valid /\ trouble = {} =>
    \A i \in result.references :
      i % Columns = 0 /\ i + 1 \in Characters => i + 1 \in image.seen
=============================================================================
