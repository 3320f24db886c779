----------------------------- MODULE CaptureArea -----------------------------
(***************************************************************************)
(* The rectangles of core_bible_reference_ocr (src/bibstd/core/            *)
(* core_bible_reference_ocr.cpp): the areas of the screen that are         *)
(* captured around the cursor, and when one of them is valid.  y grows     *)
(* downwards, on the screen as in the image that is recognised.            *)
(***************************************************************************)
EXTENDS Integers, Sequences, FiniteSetsExt

\* A rectangle is its left upper corner, its width and its height; it reaches
\* up to x + w and y + h, which are outside.
Rect(x, y, w, h) == [x |-> x, y |-> y, w |-> w, h |-> h]
Rectangles == [x : Int, y : Int, w : Nat, h : Nat]
IsEmpty(r) == r.w = 0 \/ r.h = 0
contains(r, s) ==
  /\ ~IsEmpty(r) /\ ~IsEmpty(s)
  /\ r.x <= s.x /\ s.x + s.w <= r.x + r.w
  /\ r.y <= s.y /\ s.y + s.h <= r.y + r.h
contains_point(r, p) ==
  r.x <= p[1] /\ p[1] < r.x + r.w /\ r.y <= p[2] /\ p[2] < r.y + r.h

Greater(a, b) == IF a < b THEN b ELSE a
Smaller(a, b) == IF a < b THEN a ELSE b

\* Variant of overlap: the second one is not cut.
overlap_uncut(r, s) == s

\* The common part of two rectangles; empty stands for std::nullopt.
overlap(r, s) ==
  LET x == Greater(r.x, s.x)  y == Greater(r.y, s.y)
      right == Smaller(r.x + r.w, s.x + s.w)  bottom == Smaller(r.y + r.h, s.y + s.h)
  IN  IF IsEmpty(r) \/ IsEmpty(s) \/ right <= x \/ bottom <= y THEN Rect(0, 0, 0, 0)
      ELSE Rect(x, y, right - x, bottom - y)

\* The least rectangle around all of them.
hull(rects) ==
  LET x == Min({r.x : r \in rects})  y == Min({r.y : r \in rects})
  IN  Rect(x, y, Max({r.x + r.w : r \in rects}) - x, Max({r.y + r.h : r \in rects}) - y)

Minus(r, p) == [r EXCEPT !.x = @ - p[1], !.y = @ - p[2]]

-----------------------------------------------------------------------------
area_generation_steps == 4
area_generation_char_height_multiplier == 2
area_generation_height_to_width_ratio == 9

Around(cursor, assumed_char_height, i) ==
  LET height == area_generation_char_height_multiplier * assumed_char_height
      width == height * area_generation_height_to_width_ratio
      half_width == (i * width) \div 2
      half_height == (i * height) \div 2
  IN  Rect(cursor[1] - half_width, cursor[2] - half_height, 2 * half_width, 2 * half_height)

\* Variant of generate_capture_areas: the window is the first area.
WindowFirst(window, cursor, assumed_char_height) ==
  <<window>> \o [i \in 1 .. area_generation_steps |-> overlap(window, Around(cursor, assumed_char_height, i))]

\* Four areas around the cursor, cut at the borders of the window, then the
\* window; none at all if one of them is empty.
generate_capture_areas(window, cursor, assumed_char_height) ==
  LET areas == [i \in 1 .. area_generation_steps |-> overlap(window, Around(cursor, assumed_char_height, i))]
  IN  IF \E i \in DOMAIN areas : IsEmpty(areas[i]) THEN << >> ELSE Append(areas, window)

-----------------------------------------------------------------------------
(* is_valid_capture_area.  What it calls top and bottom is named as in the    *)
(* code, where y is taken to grow upwards.                                    *)
top(r) == r.y + r.h
bottom(r) == r.y
left(r) == r.x
right(r) == r.x + r.w

\* The margins 0.2 and 2.0 of the height of a character, rounded down.
vertical_margin(char_height) == char_height \div 5
horizontal_margin(char_height) == 2 * char_height

\* cursor_line_index: the last line that contains the cursor, or 0.
CursorLine(lines, cursor) == Max({0} \cup {i \in DOMAIN lines : contains_point(lines[i], cursor)})

prev_and_next_lines_within_bounds(lines, k, image) ==
  LET char_height == lines[k].h
  IN  /\ IF k = 1 THEN top(lines[1]) + 2 * char_height < top(image)
         ELSE top(lines[k - 1]) + vertical_margin(char_height) < top(image)
      /\ IF k < Len(lines) THEN bottom(lines[k + 1]) > bottom(image) + vertical_margin(char_height)
         ELSE bottom(lines[k]) > bottom(image) + 2 * char_height

paragraph_within_bounds(paragraph, image, margin) ==
  left(image) + margin < left(paragraph) /\ right(paragraph) + margin < right(image)

Widened(r, char_height) ==
  Rect(r.x - horizontal_margin(char_height), r.y - vertical_margin(char_height),
       r.w + 2 * horizontal_margin(char_height), r.h + 2 * vertical_margin(char_height))

\* Variant of is_valid_capture_area: the characters need no margin.
ValidWithoutMargin(cursor, image, paragraph, lines, boxes) == CursorLine(lines, cursor) # 0

\* boxes are those of the characters parse() has read, or none.
is_valid_capture_area(cursor, image, paragraph, lines, boxes) ==
  LET k == CursorLine(lines, cursor)
      margin == horizontal_margin(lines[k].h)
      borders == /\ paragraph_within_bounds(paragraph, image, margin)
                 /\ prev_and_next_lines_within_bounds(lines, k, image)
  IN  /\ k # 0
      /\ (boxes # {} /\ \A b \in boxes : right(b) + margin < right(paragraph)) \/ borders
      /\ \A b \in boxes : contains(image, Widened(b, lines[k].h))
=============================================================================
