------------------------ MODULE FindReferencesProofs ------------------------
(***************************************************************************)
(* A search finds what is under the cursor: for every window, every page   *)
(* of characters of one size, and every place of the cursor.               *)
(***************************************************************************)
EXTENDS FindReferences, FiniteSetTheorems, WellFoundedInduction, TLAPS

-----------------------------------------------------------------------------
(* Numbers.                                                                  *)

(* A larger number has the larger square. *)
LEMMA Squares ==
  ASSUME NEW m \in Nat, NEW n \in Nat
  PROVE  /\ m * m \in Nat
         /\ m <= n => m * m <= n * n
         /\ m < n => m * m < n * n
<1>1. m * m \in Nat /\ n * n \in Nat /\ n * m \in Nat
  OBVIOUS
<1>2. ASSUME m < n PROVE m * m < n * n
  <2>1. PICK k \in Nat : n = m + 1 + k
    <3>1. n - m - 1 \in Nat /\ n = m + 1 + (n - m - 1)
      BY <1>2
    <3>2. QED
      BY <3>1
  <2>2. n * n = m * m + 2 * m * (1 + k) + (1 + k) * (1 + k)
    BY <2>1
  <2>3. 2 * m * (1 + k) \in Nat /\ (1 + k) * (1 + k) >= 1
    OBVIOUS
  <2>4. QED
    BY <1>1, <2>2, <2>3
<1>3. m <= n => m = n \/ m < n
  OBVIOUS
<1>4. QED
  BY <1>1, <1>2, <1>3

(* A number between -m and m has a smaller square than one beyond. *)
LEMMA SquareBeyond ==
  ASSUME NEW m \in Nat, NEW d \in Int, -m <= d, d <= m, NEW e \in Int
  PROVE  /\ d * d \in Nat /\ e * e \in Nat
         /\ e >= m \/ e <= -m => d * d <= e * e
         /\ e > m \/ e < -m => d * d < e * e
<1>1. ASSUME NEW z \in Int PROVE \E n \in Nat : (n = z \/ n = -z) /\ n * n = z * z
  <2>1. CASE z >= 0
    BY <2>1
  <2>2. CASE z < 0
    <3>1. -z \in Nat /\ (-z) * (-z) = z * z
      BY <2>2
    <3>2. QED
      BY <3>1
  <2>3. QED
    BY <2>1, <2>2
<1>2. PICK a \in Nat : (a = d \/ a = -d) /\ a * a = d * d
  BY <1>1
<1>3. PICK b \in Nat : (b = e \/ b = -e) /\ b * b = e * e
  BY <1>1
<1>4. a <= m
  BY <1>2
<1>5. (e >= m \/ e <= -m => a <= b) /\ (e > m \/ e < -m => a < b)
  BY <1>3, <1>4
<1>6. QED
  BY <1>2, <1>3, <1>5, Squares

(* Of the numbers on a scale, a later one is farther by a step. *)
LEMMA Steps ==
  ASSUME NEW step \in Nat, NEW a \in Nat, NEW b \in Nat
  PROVE  a * step \in Nat /\ b * step \in Nat /\ (a < b => a * step + step <= b * step)
<1>1. ASSUME a < b PROVE a * step + step <= b * step
  <2>1. PICK k \in Nat : b = a + 1 + k
    <3>1. b - a - 1 \in Nat /\ b = a + 1 + (b - a - 1)
      BY <1>1
    <3>2. QED
      BY <3>1
  <2>2. b * step = a * step + step + k * step /\ k * step \in Nat /\ a * step \in Nat
    BY <2>1
  <2>3. QED
    BY <2>2
<1>2. QED
  BY <1>1

(* A point within x and x + size is nearer to the center there than to any other one *)
(* that is a step away.                                                              *)
LEMMA CenterNearest ==
  ASSUME NEW size \in Nat \ {0}, NEW step \in Nat, step >= size,
         NEW x \in Int, NEW y \in Int, NEW p \in Int,
         x <= p, p < x + size, y >= x + step \/ y <= x - step,
         NEW d \in Int, d = x + size \div 2 - p, NEW e \in Int, e = y + size \div 2 - p
  PROVE  /\ d * d \in Nat /\ e * e \in Nat /\ d * d <= e * e
         /\ x < p \/ size < step => d * d < e * e
<1>1. PICK h \in Nat : h = size \div 2 /\ 2 * h <= size /\ size <= 2 * h + 1
  <2>1. size \div 2 \in Nat /\ 2 * (size \div 2) <= size /\ size <= 2 * (size \div 2) + 1
    OBVIOUS
  <2>2. QED
    BY <2>1
<1>2. d = x + h - p /\ e = y + h - p
  BY <1>1
<1>3. -h <= d /\ d <= h
  BY <1>1, <1>2
<1>4. e >= h \/ e <= -h
  BY <1>1, <1>2
<1>5. x < p \/ size < step => e > h \/ e < -h
  BY <1>1, <1>2
<1>6. QED
  BY <1>3, <1>4, <1>5, SquareBeyond

-----------------------------------------------------------------------------
(* The characters.                                                           *)

(* Two characters are in different columns, or in different lines. *)
LEMMA Cells ==
  ASSUME NEW i \in Characters
  PROVE  /\ i \in Nat /\ (i - 1) % Columns \in Nat /\ Line(i) - 1 \in Nat /\ Line(i) \in Nat
         /\ i = (Line(i) - 1) * Columns + ((i - 1) % Columns) + 1
<1>1. Columns \in Nat \ {0} /\ Rows \in Nat \ {0}
  BY PageAssumption
<1>2. Rows * Columns \in Nat
  BY <1>1
<1>3. PICK m \in Nat : m = i - 1 /\ i = m + 1
  BY <1>2 DEF Characters
<1>4. m % Columns \in Nat /\ m \div Columns \in Nat /\ m = (m \div Columns) * Columns + (m % Columns)
  BY <1>1
<1>5. QED
  BY <1>3, <1>4 DEF Line

(* Its box, with the numbers it is made of. *)
LEMMA BoxOf ==
  ASSUME NEW i \in Characters
  PROVE  /\ Box[i].x = Left + ((i - 1) % Columns) * CharWidth /\ Box[i].w = CharWidth
         /\ Box[i].y = Top + (Line(i) - 1) * Pitch /\ Box[i].h = CharHeight
         /\ Box[i].x \in Int /\ Box[i].y \in Int /\ Box[i] \in Rectangles
<1>1. /\ Box[i].x = Left + ((i - 1) % Columns) * CharWidth /\ Box[i].w = CharWidth
      /\ Box[i].y = Top + (Line(i) - 1) * Pitch /\ Box[i].h = CharHeight
      /\ Box[i] = Rect(Box[i].x, Box[i].y, CharWidth, CharHeight)
  BY DEF Box, Rect
<1>2. (i - 1) % Columns \in Nat /\ Line(i) - 1 \in Nat
  BY Cells
<1>3. ((i - 1) % Columns) * CharWidth \in Nat /\ (Line(i) - 1) * Pitch \in Nat
  BY <1>2, PageAssumption
<1>4. Box[i].x \in Int /\ Box[i].y \in Int
  BY <1>1, <1>3, PageAssumption
<1>5. QED
  BY <1>1, <1>4, PageAssumption DEF Rect, Rectangles

(* Along each axis a character that is not in the same column, or line, is a step away, *)
(* and on the side where its number is.                                                *)
LEMMA BoxesApart ==
  ASSUME NEW i \in Characters, NEW j \in Characters
  PROVE  /\ (i - 1) % Columns < (j - 1) % Columns => Box[i].x + CharWidth <= Box[j].x
         /\ Line(i) < Line(j) => Box[i].y + Pitch <= Box[j].y
         /\ (i - 1) % Columns = (j - 1) % Columns => Box[i].x = Box[j].x
         /\ Line(i) = Line(j) => Box[i].y = Box[j].y
         /\ (i - 1) % Columns = (j - 1) % Columns /\ Line(i) = Line(j) => i = j
<1>1. PICK a \in Nat, b \in Nat, k \in Nat, l \in Nat :
        /\ a = (i - 1) % Columns /\ b = (j - 1) % Columns /\ k = Line(i) - 1 /\ l = Line(j) - 1
        /\ Line(i) \in Nat /\ Line(j) \in Nat /\ i = k * Columns + a + 1 /\ j = l * Columns + b + 1
  BY Cells
<1>2. /\ Box[i].x = Left + a * CharWidth /\ Box[j].x = Left + b * CharWidth
      /\ Box[i].y = Top + k * Pitch /\ Box[j].y = Top + l * Pitch
  BY <1>1, BoxOf
<1>3. CharWidth \in Nat /\ Pitch \in Nat /\ Left \in Int /\ Top \in Int
  BY PageAssumption
<1>4. /\ a * CharWidth \in Nat /\ b * CharWidth \in Nat /\ (a < b => a * CharWidth + CharWidth <= b * CharWidth)
      /\ k * Pitch \in Nat /\ l * Pitch \in Nat /\ (k < l => k * Pitch + Pitch <= l * Pitch)
  BY <1>3, Steps
<1>5. (Line(i) < Line(j) <=> k < l) /\ (Line(i) = Line(j) <=> k = l)
  BY <1>1
<1>6. /\ a < b => Box[i].x + CharWidth <= Box[j].x
      /\ a = b => Box[i].x = Box[j].x
  BY <1>2, <1>3, <1>4
<1>7. /\ k < l => Box[i].y + Pitch <= Box[j].y
      /\ k = l => Box[i].y = Box[j].y
  BY <1>2, <1>3, <1>4
<1>8. a = b /\ k = l => i = j
  BY <1>1
<1>9. QED
  BY <1>1, <1>5, <1>6, <1>7, <1>8

(* The character under a point is nearer to it than any other. *)
LEMMA NearestOfAll ==
  ASSUME NEW px \in Int, NEW py \in Int, NEW i \in Characters, NEW j \in Characters, i # j,
         contains_point(Box[i], <<px, py>>), Box[i].x < px, Box[i].y < py \/ CharHeight < Pitch
  PROVE  /\ Distance(Box[i], <<px, py>>) \in Nat /\ Distance(Box[j], <<px, py>>) \in Nat
         /\ Distance(Box[i], <<px, py>>) < Distance(Box[j], <<px, py>>)
<1>1. PICK x \in Int, y \in Int, u \in Int, v \in Int, w \in Nat \ {0}, h \in Nat \ {0}, step \in Nat :
        /\ x = Box[i].x /\ y = Box[i].y /\ u = Box[j].x /\ v = Box[j].y
        /\ w = CharWidth /\ h = CharHeight /\ step = Pitch /\ step >= h
        /\ Box[i].w = w /\ Box[i].h = h /\ Box[j].w = w /\ Box[j].h = h
  BY BoxOf, PageAssumption
<1>2. x < px /\ px < x + w /\ y <= py /\ py < y + h /\ (y < py \/ h < step)
  BY <1>1 DEF contains_point
<1>3. PICK d \in Int, e \in Int, f \in Int, g \in Int :
        /\ d = x + w \div 2 - px /\ e = u + w \div 2 - px /\ f = y + h \div 2 - py /\ g = v + h \div 2 - py
  OBVIOUS
<1>4. Distance(Box[i], <<px, py>>) = d * d + f * f /\ Distance(Box[j], <<px, py>>) = e * e + g * g
  BY <1>1, <1>3 DEF Distance
<1>5. d * d \in Nat /\ e * e \in Nat /\ (u = x => e * e = d * d) /\ (u # x => d * d < e * e)
  <2>1. d * d \in Nat /\ e * e \in Nat
    BY SquareBeyond
  <2>2. u # x => u >= x + w \/ u <= x - w
    <3>1. (i - 1) % Columns \in Nat /\ (j - 1) % Columns \in Nat
      BY Cells
    <3>2. QED
      BY <1>1, <3>1, BoxesApart
  <2>3. u # x => d * d < e * e
    BY <1>2, <1>3, <2>2, CenterNearest
  <2>4. QED
    BY <1>3, <2>1, <2>3
<1>6. f * f \in Nat /\ g * g \in Nat /\ (v = y => g * g = f * f) /\ (v # y => f * f < g * g)
  <2>1. v # y => v >= y + step \/ v <= y - step
    <3>1. Line(i) \in Nat /\ Line(j) \in Nat
      BY Cells
    <3>2. QED
      BY <1>1, <3>1, BoxesApart
  <2>2. ASSUME v # y PROVE f * f < g * g
    <3>1. step >= h /\ y <= py /\ py < y + h /\ (v >= y + step \/ v <= y - step)
      BY <1>1, <1>2, <2>1, <2>2
    <3>2. f = y + h \div 2 - py /\ g = v + h \div 2 - py
      BY <1>3
    <3>3. y < py \/ h < step => f * f < g * g
      BY <3>1, <3>2, CenterNearest
    <3>4. QED
      BY <1>2, <3>3
  <2>3. QED
    BY <1>3, <2>2, SquareBeyond
<1>7. u # x \/ v # y
  <2>1. SUFFICES ASSUME u = x, v = y PROVE FALSE
    OBVIOUS
  <2>2. /\ (i - 1) % Columns \in Nat /\ (j - 1) % Columns \in Nat /\ Line(i) \in Nat /\ Line(j) \in Nat
    BY Cells
  <2>3. (i - 1) % Columns = (j - 1) % Columns
    <3>1. ~((i - 1) % Columns < (j - 1) % Columns) /\ ~((j - 1) % Columns < (i - 1) % Columns)
      <4>1. ~(x + w <= u) /\ ~(u + w <= x)
        BY <2>1
      <4>2. QED
        BY <1>1, <4>1, BoxesApart
    <3>2. QED
      BY <2>2, <3>1
  <2>4. Line(i) = Line(j)
    <3>1. ~(Line(i) < Line(j)) /\ ~(Line(j) < Line(i))
      <4>1. ~(y + step <= v) /\ ~(v + step <= y)
        BY <1>1, <2>1
      <4>2. QED
        BY <1>1, <4>1, BoxesApart
    <3>2. QED
      BY <2>2, <3>1
  <2>5. QED
    BY <2>3, <2>4, BoxesApart
<1>8. QED
  BY <1>4, <1>5, <1>6, <1>7

-----------------------------------------------------------------------------
(* The image, and what is read in it.                                        *)

(* A set of numbers that is not empty has a least element, and Min is it. *)
LEMMA MinOfNumbers ==
  ASSUME NEW T \in SUBSET Nat, T # {}
  PROVE  Min(T) \in T /\ \A y \in T : Min(T) <= y
<1> DEFINE R == {ss \in Nat \X Nat : ss[1] < ss[2]}
<1>1. IsWellFoundedOn(R, Nat)
  BY NatLessThanWellFounded DEF OpToRel
<1>2. PICK x \in T : \A y \in T : <<y, x>> \notin R
  <2> HIDE DEF R
  <2> QED
    BY <1>1, WFMin
<1>3. ASSUME NEW y \in T PROVE x <= y
  <2>1. <<y, x>> \in Nat \X Nat /\ <<y, x>>[1] = y /\ <<y, x>>[2] = x
    OBVIOUS
  <2>2. ~(y < x)
    BY <1>2, <2>1
  <2>3. QED
    BY <2>2
<1>4. QED
  BY <1>3 DEF Min

(* A set of numbers up to a limit has a greatest element, and Max is it. *)
LEMMA MaxOfNumbers ==
  ASSUME NEW n \in Nat, NEW T \in SUBSET (0 .. n), T # {}
  PROVE  Max(T) \in T /\ \A y \in T : Max(T) >= y
<1> DEFINE U == {n - y : y \in T}
<1>1. /\ \A y \in T : y \in Nat /\ y <= n /\ n - y \in Nat
      /\ U \in SUBSET Nat /\ U # {}
  <2>1. \A y \in T : y \in 0 .. n
    OBVIOUS
  <2>2. \A y \in T : y \in Nat /\ y <= n /\ n - y \in Nat
    BY <2>1
  <2>3. QED
    BY <2>2
<1>2. PICK u \in U : \A y \in U : u <= y
  <2> HIDE DEF U
  <2>1. QED
    BY <1>1, MinOfNumbers
<1>3. PICK x \in T : u = n - x
  BY <1>2
<1>4. ASSUME NEW y \in T PROVE x >= y
  <2>1. n - y \in U
    OBVIOUS
  <2>2. n - x <= n - y /\ x \in Nat /\ y \in Nat
    BY <1>1, <1>2, <1>3, <2>1
  <2>3. QED
    BY <2>2
<1>5. QED
  BY <1>4 DEF Max

(* The hull touches a rectangle on each of its sides, and has them all inside. *)
LEMMA HullOf ==
  ASSUME NEW rects, rects # {}, NEW m \in Nat, NEW n \in Nat,
         \A r \in rects : r.x \in Nat /\ r.y \in Nat /\ r.x + r.w \in 1 .. m /\ r.y + r.h \in 1 .. n
  PROVE  \E x, y, u, v \in Nat :
           /\ hull(rects) = Rect(x, y, u - x, v - y)
           /\ \E r \in rects : r.x = x
           /\ \E r \in rects : r.y = y
           /\ \E r \in rects : r.x + r.w = u
           /\ \E r \in rects : r.y + r.h = v
           /\ \A r \in rects : x <= r.x /\ y <= r.y /\ r.x + r.w <= u /\ r.y + r.h <= v
<1> DEFINE X == {r.x : r \in rects}
           Y == {r.y : r \in rects}
           R == {r.x + r.w : r \in rects}
           B == {r.y + r.h : r \in rects}
           x == Min(X)
           y == Min(Y)
           u == Max(R)
           v == Max(B)
<1>1. /\ X \in SUBSET Nat /\ X # {} /\ Y \in SUBSET Nat /\ Y # {}
      /\ R \in SUBSET (0 .. m) /\ R # {} /\ B \in SUBSET (0 .. n) /\ B # {}
  OBVIOUS
<1>2. hull(rects) = Rect(x, y, u - x, v - y)
  BY DEF hull
<1>3. x \in X /\ (\A z \in X : x <= z) /\ y \in Y /\ (\A z \in Y : y <= z)
  <2> HIDE DEF X, Y
  <2>1. QED
    BY <1>1, MinOfNumbers
<1>4. u \in R /\ (\A z \in R : u >= z) /\ v \in B /\ (\A z \in B : v >= z)
  <2> HIDE DEF R, B
  <2>1. QED
    BY <1>1, MaxOfNumbers
<1>5. x \in Nat /\ y \in Nat /\ u \in Nat /\ v \in Nat
  <2>1. u \in 0 .. m /\ v \in 0 .. n /\ x \in Nat /\ y \in Nat
    <3> HIDE DEF X, Y, R, B, x, y, u, v
    <3>1. QED
      BY <1>1, <1>3, <1>4
  <2> HIDE DEF x, y, u, v
  <2>2. QED
    BY <2>1
<1> HIDE DEF x, y, u, v
<1>6. /\ \E r \in rects : r.x = x
      /\ \E r \in rects : r.y = y
      /\ \E r \in rects : r.x + r.w = u
      /\ \E r \in rects : r.y + r.h = v
  BY <1>3, <1>4
<1>7. \A r \in rects : x <= r.x /\ y <= r.y /\ r.x + r.w <= u /\ r.y + r.h <= v
  BY <1>3, <1>4, <1>5
<1>8. QED
  BY <1>2, <1>5, <1>6, <1>7, Zenon

\* The image is that of an area, with the characters that are whole in it.
Imaged(area) == area \in Rectangles /\ image = [area |-> area, seen |-> Seen(area)]

(* A character in the image, seen from the image. *)
LEMMA SeenFrom ==
  ASSUME NEW area, Imaged(area), NEW i \in Characters
  PROVE  /\ InImage(i).x = Box[i].x - area.x /\ InImage(i).y = Box[i].y - area.y
         /\ InImage(i).w = CharWidth /\ InImage(i).h = CharHeight
         /\ InImage(i).x \in Int /\ InImage(i).y \in Int
         /\ image.area = area /\ image.seen = Seen(area) /\ image.seen \subseteq Characters
         /\ i \in Seen(area) =>
              /\ InImage(i).x \in Nat /\ InImage(i).y \in Nat
              /\ InImage(i).x + CharWidth \in 1 .. area.w /\ InImage(i).y + CharHeight \in 1 .. area.h
<1>1. image.area = area /\ image.seen = Seen(area) /\ image.seen \subseteq Characters
  BY DEF Imaged, Seen
<1>2. area.x \in Int /\ area.y \in Int /\ area.w \in Nat /\ area.h \in Nat
  BY DEF Imaged, Rectangles
<1>3. /\ Box[i].x \in Int /\ Box[i].y \in Int /\ Box[i] \in Rectangles
      /\ Box[i].w = CharWidth /\ Box[i].h = CharHeight
  BY BoxOf
<1>4. /\ InImage(i).x = Box[i].x - area.x /\ InImage(i).y = Box[i].y - area.y
      /\ InImage(i).w = CharWidth /\ InImage(i).h = CharHeight
  BY <1>1, <1>3 DEF InImage, Minus, Rectangles
<1>5. CharWidth \in Nat \ {0} /\ CharHeight \in Nat \ {0}
  BY PageAssumption
<1>6. ASSUME i \in Seen(area)
      PROVE  /\ InImage(i).x \in Nat /\ InImage(i).y \in Nat
             /\ InImage(i).x + CharWidth \in 1 .. area.w /\ InImage(i).y + CharHeight \in 1 .. area.h
  BY <1>2, <1>3, <1>4, <1>5, <1>6 DEF Seen, contains
<1>7. QED
  BY <1>1, <1>2, <1>3, <1>4, <1>6

(* The paragraph is made of what is seen, and reaches from one character to another. *)
LEMMA ParagraphOf ==
  ASSUME NEW area, Imaged(area), Seen(area) # {}
  PROVE  \E x, y, u, v \in Nat :
           /\ Paragraph = Rect(x, y, u - x, v - y)
           /\ \E k \in Seen(area) : InImage(k).x = x
           /\ \E k \in Seen(area) : InImage(k).y = y
           /\ \E k \in Seen(area) : InImage(k).x + CharWidth = u
           /\ \E k \in Seen(area) : InImage(k).y + CharHeight = v
           /\ \A k \in Seen(area) : /\ x <= InImage(k).x /\ InImage(k).x + CharWidth <= u
                                   /\ y <= InImage(k).y /\ InImage(k).y + CharHeight <= v
<1> DEFINE rects == {InImage(k) : k \in Seen(area)}
<1>1. Seen(area) \subseteq Characters /\ image.seen = Seen(area)
  BY DEF Seen, Imaged
<1>2. area.w \in Nat /\ area.h \in Nat
  BY DEF Imaged, Rectangles
<1>3. \A k \in Seen(area) : /\ InImage(k).x \in Nat /\ InImage(k).y \in Nat
                           /\ InImage(k).w = CharWidth /\ InImage(k).h = CharHeight
                           /\ InImage(k).x + CharWidth \in 1 .. area.w /\ InImage(k).y + CharHeight \in 1 .. area.h
  BY <1>1, SeenFrom
<1>4. /\ rects # {}
      /\ \A r \in rects : r.x \in Nat /\ r.y \in Nat /\ r.x + r.w \in 1 .. area.w /\ r.y + r.h \in 1 .. area.h
  BY <1>3
<1>5. Paragraph = hull(rects)
  BY <1>1 DEF Paragraph
<1>6. PICK x \in Nat, y \in Nat, u \in Nat, v \in Nat :
        /\ hull(rects) = Rect(x, y, u - x, v - y)
        /\ \E r \in rects : r.x = x
        /\ \E r \in rects : r.y = y
        /\ \E r \in rects : r.x + r.w = u
        /\ \E r \in rects : r.y + r.h = v
        /\ \A r \in rects : x <= r.x /\ y <= r.y /\ r.x + r.w <= u /\ r.y + r.h <= v
  <2> HIDE DEF rects
  <2>1. QED
    BY <1>2, <1>4, HullOf
<1>7. /\ \E k \in Seen(area) : InImage(k).x = x
      /\ \E k \in Seen(area) : InImage(k).y = y
      /\ \E k \in Seen(area) : InImage(k).x + CharWidth = u
      /\ \E k \in Seen(area) : InImage(k).y + CharHeight = v
  BY <1>3, <1>6
<1>8. \A k \in Seen(area) : /\ x <= InImage(k).x /\ InImage(k).x + CharWidth <= u
                           /\ y <= InImage(k).y /\ InImage(k).y + CharHeight <= v
  BY <1>3, <1>6
<1>9. Paragraph = Rect(x, y, u - x, v - y)
  BY <1>5, <1>6, Zenon
<1>10. QED
  BY <1>7, <1>8, <1>9, Zenon

(* The character under the cursor is whole in the image if there is a paragraph under *)
(* the cursor: on each side of it there is one of its column, or line, or beyond.     *)
LEMMA UnderCursorSeen ==
  ASSUME NEW area, Imaged(area), cursor \in Int \X Int, NEW i \in Characters,
         contains_point(Box[i], cursor), Seen(area) # {}, contains_point(Paragraph, Relative(area))
  PROVE  /\ i \in Seen(area)
         /\ contains(RecognizedPart(Paragraph), InImage(i))
<1>1. PICK x \in Nat, y \in Nat, u \in Nat, v \in Nat :
        /\ Paragraph = Rect(x, y, u - x, v - y)
        /\ \E k \in Seen(area) : InImage(k).x = x
        /\ \E k \in Seen(area) : InImage(k).y = y
        /\ \E k \in Seen(area) : InImage(k).x + CharWidth = u
        /\ \E k \in Seen(area) : InImage(k).y + CharHeight = v
        /\ \A k \in Seen(area) : /\ x <= InImage(k).x /\ InImage(k).x + CharWidth <= u
                                /\ y <= InImage(k).y /\ InImage(k).y + CharHeight <= v
  BY ParagraphOf
<1>1a. PICK a \in Seen(area), b \in Seen(area), c \in Seen(area), d \in Seen(area) :
        /\ InImage(a).x = x /\ InImage(c).y = y
        /\ InImage(b).x + CharWidth = u /\ InImage(d).y + CharHeight = v
  BY <1>1
<1>2. PICK px \in Int, py \in Int : cursor = <<px, py>>
  OBVIOUS
<1>3. area.x \in Int /\ area.y \in Int /\ area.w \in Nat /\ area.h \in Nat /\ Seen(area) \subseteq Characters
      /\ CharWidth \in Nat \ {0} /\ CharHeight \in Nat \ {0} /\ Pitch \in Nat /\ CharHeight <= Pitch
  BY PageAssumption DEF Imaged, Rectangles, Seen
<1>4. \A k \in Characters :
        /\ Box[k].x \in Int /\ Box[k].y \in Int /\ Box[k].w = CharWidth /\ Box[k].h = CharHeight
        /\ InImage(k).x = Box[k].x - area.x /\ InImage(k).y = Box[k].y - area.y
        /\ InImage(k).w = CharWidth /\ InImage(k).h = CharHeight
  BY BoxOf, SeenFrom
<1>5. x <= px - area.x /\ px - area.x < u /\ y <= py - area.y /\ py - area.y < v
  BY <1>1, <1>2, <1>3 DEF contains_point, Relative, Rect
<1>6. /\ Box[a].x <= px /\ px < Box[b].x + CharWidth /\ Box[c].y <= py /\ py < Box[d].y + CharHeight
      /\ Box[i].x <= px /\ px < Box[i].x + CharWidth /\ Box[i].y <= py /\ py < Box[i].y + CharHeight
  BY <1>1a, <1>2, <1>3, <1>4, <1>5 DEF contains_point
<1>7. Box[a].x <= Box[i].x /\ Box[i].x <= Box[b].x
  <2>1. \A k \in Characters : (k - 1) % Columns \in Nat
    BY Cells
  <2>2. ASSUME NEW k \in Characters, NEW l \in Characters, Box[k].x <= px, px < Box[l].x + CharWidth
        PROVE  Box[k].x <= Box[l].x
    <3>1. ~((l - 1) % Columns < (k - 1) % Columns)
      BY <1>3, <1>4, <2>2, BoxesApart
    <3>2. CASE (k - 1) % Columns = (l - 1) % Columns
      BY <1>4, <3>2, BoxesApart
    <3>3. CASE (k - 1) % Columns < (l - 1) % Columns
      BY <1>3, <1>4, <3>3, BoxesApart
    <3>4. QED
      BY <2>1, <3>1, <3>2, <3>3
  <2>3. QED
    BY <1>3, <1>6, <2>2
<1>8. Box[c].y <= Box[i].y /\ Box[i].y <= Box[d].y
  <2>1. \A k \in Characters : Line(k) \in Nat
    BY Cells
  <2>2. ASSUME NEW k \in Characters, NEW l \in Characters, Box[k].y <= py, py < Box[l].y + CharHeight
        PROVE  Box[k].y <= Box[l].y
    <3>1. ~(Line(l) < Line(k))
      BY <1>3, <1>4, <2>2, BoxesApart
    <3>2. CASE Line(k) = Line(l)
      BY <1>4, <3>2, BoxesApart
    <3>3. CASE Line(k) < Line(l)
      BY <1>3, <1>4, <3>3, BoxesApart
    <3>4. QED
      BY <2>1, <3>1, <3>2, <3>3
  <2>3. QED
    BY <1>3, <1>6, <2>2
<1>9. i \in Seen(area)
  BY <1>3, <1>4, <1>7, <1>8 DEF Seen, contains, IsEmpty
<1>10. contains(RecognizedPart(Paragraph), InImage(i))
  <2>1. x < u /\ u <= area.w /\ y < v /\ v <= area.h
    <3>1. \A k \in Seen(area) :
            /\ InImage(k).x \in Nat /\ InImage(k).y \in Nat
            /\ InImage(k).x + CharWidth \in 1 .. area.w /\ InImage(k).y + CharHeight \in 1 .. area.h
      BY <1>3, SeenFrom
    <3>2. u \in 1 .. area.w /\ v \in 1 .. area.h
      BY <1>1a, <3>1
    <3>3. /\ x <= InImage(i).x /\ InImage(i).x + CharWidth <= u /\ InImage(i).x \in Nat
          /\ y <= InImage(i).y /\ InImage(i).y + CharHeight <= v /\ InImage(i).y \in Nat
      BY <1>1, <1>9, <3>1
    <3>4. QED
      BY <1>3, <3>2, <3>3
  <2>2. Paragraph = Rect(x, y, u - x, v - y)
    BY <1>1
  <2>3. RecognizedPart(Paragraph) = Rect(x, y, u - x, v - y)
    <3>1. RecognizedPart(Paragraph) = overlap(Rect(0, 0, area.w, area.h), Rect(x, y, u - x, v - y))
      BY <2>2, SeenFrom DEF RecognizedPart
    <3>2. QED
      BY <1>3, <2>1, <3>1 DEF overlap, Rect, IsEmpty, Greater, Smaller
  <2>4. /\ x <= InImage(i).x /\ InImage(i).x + CharWidth <= u
        /\ y <= InImage(i).y /\ InImage(i).y + CharHeight <= v
    BY <1>1, <1>9, <2>1
  <2>5. InImage(i).x \in Int /\ InImage(i).y \in Int /\ InImage(i).w = CharWidth /\ InImage(i).h = CharHeight
    BY <1>3, <1>4
  <2>6. QED
    BY <1>3, <2>1, <2>3, <2>4, <2>5 DEF contains, IsEmpty, Rect
<1>11. QED
  BY <1>9, <1>10

(* A box that is nearer to a point than all the others is the nearest one. *)
LEMMA NearestIs ==
  ASSUME NEW S \in SUBSET Nat, NEW boxes, DOMAIN boxes = S, NEW p, NEW i \in S,
         \A k \in S : Distance(boxes[k], p) \in Nat,
         \A k \in S \ {i} : Distance(boxes[i], p) < Distance(boxes[k], p)
  PROVE  Nearest(boxes, p) = i
<1> DEFINE D == {Distance(boxes[k], p) : k \in DOMAIN boxes}
           least == Min(D)
<1>1. D \in SUBSET Nat /\ D # {}
  OBVIOUS
<1>2. least \in D /\ \A z \in D : least <= z
  <2> HIDE DEF D
  <2>1. QED
    BY <1>1, MinOfNumbers
<1>3. PICK k \in S : least = Distance(boxes[k], p)
  BY <1>2
<1>4. least <= Distance(boxes[i], p)
  BY <1>2
<1>5. Nearest(boxes, p) = Min({n \in S : Distance(boxes[n], p) = least})
  BY DEF Nearest
<1> HIDE DEF least
<1>6. k = i
  BY <1>3, <1>4
<1>7. {n \in S : Distance(boxes[n], p) = least} = {i}
  <2>1. ASSUME NEW n \in S, Distance(boxes[n], p) = Distance(boxes[i], p) PROVE n = i
    <3>1. Distance(boxes[n], p) \in Nat /\ (n # i => Distance(boxes[i], p) < Distance(boxes[n], p))
      OBVIOUS
    <3>2. QED
      BY <2>1, <3>1
  <2>2. QED
    BY <1>3, <1>6, <2>1
<1>8. Min({i}) = i
  <2>1. {i} \in SUBSET Nat /\ {i} # {}
    OBVIOUS
  <2>2. Min({i}) \in {i}
    BY <2>1, MinOfNumbers
  <2>3. QED
    BY <2>2
<1>9. QED
  BY <1>5, <1>7, <1>8

(* What is read at a character that was seen has the character in it. *)
LEMMA CitedThere ==
  ASSUME NEW seen \in SUBSET Characters, NEW names, NEW i \in seen, Citation(seen, names, i) # {}
  PROVE  i \in Citation(seen, names, i)
<1> DEFINE numbers == {m \in seen : page.kinds[m] = "number"}
           last(k) == Max({m \in seen : m < k} \cup {0})
           after(k) == Min({m \in seen \ numbers : k < m} \cup {Rows * Columns + 1})
           end(k) == IF after(k) \in names THEN last(after(k)) ELSE after(k)
           begin(k) == IF last(k) \in numbers THEN last(k) ELSE k
           found == {k \in seen \cap names : begin(k) <= i /\ i < end(k) /\ \E m \in numbers : k < m /\ m < after(k)}
<1>1. Citation(seen, names, i) =
        IF found = {} THEN {} ELSE {m \in seen : begin(Min(found)) <= m /\ m < end(Min(found))}
  BY DEF Citation
<1>2. found # {}
  <2> HIDE DEF found
  <2>1. QED
    BY <1>1
<1>3. found \in SUBSET Nat
  BY Cells
<1>4. Min(found) \in found
  <2> HIDE DEF found
  <2>1. QED
    BY <1>2, <1>3, MinOfNumbers
<1>5. begin(Min(found)) <= i /\ i < end(Min(found))
  <2> HIDE DEF begin, end, after
  <2>1. \A k \in found : begin(k) <= i /\ i < end(k)
    OBVIOUS
  <2> HIDE DEF found
  <2>2. QED
    BY <1>4, <2>1
<1> HIDE DEF found, begin, end
<1>6. QED
  BY <1>1, <1>2, <1>5

(* The main text is read at the character under the cursor. *)
LEMMA ReadAtCursor ==
  ASSUME NEW area, Imaged(area), cursor \in Int \X Int, NEW i \in Characters, OnCharacter(i),
         image.seen # {}, contains_point(Paragraph, Relative(area))
  PROVE  LET data == find_main_reference_position_data(Relative(area))
         IN  data.seen \in SUBSET Characters /\ data.index = i /\ i \in data.seen
<1>1. Seen(area) # {} /\ Seen(area) \subseteq Characters /\ image.seen = Seen(area) /\ Characters \subseteq Nat
  BY Cells DEF Imaged, Seen
<1>2. contains_point(Box[i], cursor) /\ Box[i].x < cursor[1] /\ (Box[i].y < cursor[2] \/ CharHeight < Pitch)
  BY DEF OnCharacter
<1>3. i \in Seen(area) /\ contains(RecognizedPart(Paragraph), InImage(i))
  BY <1>1, <1>2, UnderCursorSeen
<1> DEFINE S == ReadIn(Paragraph)
           boxes == [k \in S |-> InImage(k)]
<1>4. i \in S /\ S \in SUBSET Characters /\ S \in SUBSET Nat
  BY <1>1, <1>3 DEF ReadIn
<1>5. PICK px \in Int, py \in Int : cursor = <<px, py>>
  OBVIOUS
<1>6. area.x \in Int /\ area.y \in Int
  BY DEF Imaged, Rectangles
<1>7. ASSUME NEW k \in Characters
      PROVE  Distance(InImage(k), Relative(area)) = Distance(Box[k], cursor)
  <2>1. /\ InImage(k).x = Box[k].x - area.x /\ InImage(k).y = Box[k].y - area.y
        /\ InImage(k).w = CharWidth /\ InImage(k).h = CharHeight
    BY SeenFrom
  <2>2. /\ Box[k].x \in Int /\ Box[k].y \in Int /\ Box[k].w = CharWidth /\ Box[k].h = CharHeight
    BY BoxOf
  <2>3. PICK x \in Int, y \in Int, w \in Int, h \in Int, u \in Int, v \in Int :
          /\ x = Box[k].x /\ y = Box[k].y /\ w = CharWidth \div 2 /\ h = CharHeight \div 2 /\ u = area.x /\ v = area.y
    <3>1. CharWidth \div 2 \in Int /\ CharHeight \div 2 \in Int
      BY PageAssumption
    <3>2. QED
      BY <1>6, <2>2, <3>1
  <2>4. Relative(area) = <<px - u, py - v>>
    BY <1>5, <2>3 DEF Relative
  <2>5. x - u + w - (px - u) = x + w - px /\ y - v + h - (py - v) = y + h - py
    OBVIOUS
  <2>6. Distance(InImage(k), Relative(area)) =
          (x - u + w - (px - u)) * (x - u + w - (px - u)) + (y - v + h - (py - v)) * (y - v + h - (py - v))
    BY <2>1, <2>3, <2>4 DEF Distance
  <2>7. Distance(Box[k], cursor) = (x + w - px) * (x + w - px) + (y + h - py) * (y + h - py)
    BY <1>5, <2>2, <2>3 DEF Distance
  <2>8. QED
    BY <2>5, <2>6, <2>7
<1>8. ASSUME NEW k \in Characters, k # i
      PROVE  /\ Distance(Box[k], cursor) \in Nat /\ Distance(Box[i], cursor) \in Nat
             /\ Distance(Box[i], cursor) < Distance(Box[k], cursor)
  BY <1>2, <1>5, <1>8, NearestOfAll
<1>9. Nearest(boxes, Relative(area)) = i
  <2>1. DOMAIN boxes = S /\ \A k \in S : Distance(boxes[k], Relative(area)) = Distance(Box[k], cursor)
    BY <1>4, <1>7
  <2>2. Distance(Box[i], cursor) \in Nat
    <3>1. PICK px1 \in Int, py1 \in Int, d \in Int, e \in Int :
            Distance(Box[i], cursor) = d * d + e * e
      <4>1. /\ Box[i].x \in Int /\ Box[i].y \in Int /\ Box[i].w = CharWidth /\ Box[i].h = CharHeight
        BY BoxOf
      <4>2. /\ Box[i].x + Box[i].w \div 2 - px \in Int /\ Box[i].y + Box[i].h \div 2 - py \in Int
        BY <4>1, PageAssumption
      <4>3. QED
        BY <1>5, <4>2 DEF Distance
    <3>2. d * d \in Nat /\ e * e \in Nat
      BY SquareBeyond
    <3>3. QED
      BY <3>1, <3>2
  <2>3. /\ \A k \in S : Distance(boxes[k], Relative(area)) \in Nat
        /\ \A k \in S \ {i} : Distance(boxes[i], Relative(area)) < Distance(boxes[k], Relative(area))
    BY <1>4, <1>8, <2>1, <2>2
  <2> HIDE DEF boxes, S
  <2>4. QED
    BY <1>4, <2>1, <2>3, NearestIs
<1>10. QED
  BY <1>4, <1>9 DEF find_main_reference_position_data

-----------------------------------------------------------------------------
(* The search.                                                               *)

\* The image that is parsed is that of the first of the areas that are left, and what
\* was found so far is under the cursor.
FRInv ==
  /\ cursor \in Int \X Int
  /\ areas \in Seq(Rectangles)
  /\ state = "parse" => areas # << >> /\ Imaged(Head(areas))
  /\ FoundUnderCursor

(* The areas are rectangles. *)
LEMMA AreasOf ==
  ASSUME NEW point \in Int \X Int
  PROVE  generate_capture_areas(Window, point, assumed_initial_char_height) \in Seq(Rectangles)
<1>1. Window \in Rectangles /\ assumed_initial_char_height \in Nat
  BY PageAssumption
<1>2. ASSUME NEW r \in Rectangles, NEW q \in Rectangles PROVE overlap(r, q) \in Rectangles
  <2>1. PICK x \in Int, y \in Int, u \in Int, v \in Int :
          /\ x = Greater(r.x, q.x) /\ y = Greater(r.y, q.y)
          /\ u = Smaller(r.x + r.w, q.x + q.w) /\ v = Smaller(r.y + r.h, q.y + q.h)
    BY DEF Rectangles, Greater, Smaller
  <2>2. overlap(r, q) = IF IsEmpty(r) \/ IsEmpty(q) \/ u <= x \/ v <= y THEN Rect(0, 0, 0, 0)
                        ELSE Rect(x, y, u - x, v - y)
    BY <2>1 DEF overlap
  <2>3. ~(u <= x) /\ ~(v <= y) => u - x \in Nat /\ v - y \in Nat
    OBVIOUS
  <2>4. QED
    BY <2>2, <2>3 DEF Rect, Rectangles
<1>3. ASSUME NEW i \in 1 .. 4 PROVE Around(point, assumed_initial_char_height, i) \in Rectangles
  <2>1. PICK m \in Nat : m = assumed_initial_char_height
    BY <1>1
  <2>2. i \in Nat /\ 2 * m \in Nat /\ i * (2 * m * 9) \in Nat /\ i * (2 * m) \in Nat
    OBVIOUS
  <2>3. (i * (2 * m * 9)) \div 2 \in Nat /\ (i * (2 * m)) \div 2 \in Nat
    BY <2>2
  <2>4. PICK a \in Nat, b \in Nat : a = (i * (2 * m * 9)) \div 2 /\ b = (i * (2 * m)) \div 2
    BY <2>3
  <2>5. Around(point, m, i) = Rect(point[1] - a, point[2] - b, 2 * a, 2 * b)
    BY <2>4 DEF Around, area_generation_char_height_multiplier, area_generation_height_to_width_ratio
  <2>6. QED
    BY <2>1, <2>5 DEF Rect, Rectangles
<1>4. [i \in 1 .. 4 |-> overlap(Window, Around(point, assumed_initial_char_height, i))] \in Seq(Rectangles)
  BY <1>1, <1>2, <1>3
<1>5. PICK list \in Seq(Rectangles) :
        list = [i \in 1 .. 4 |-> overlap(Window, Around(point, assumed_initial_char_height, i))]
  BY <1>4
<1>6. generate_capture_areas(Window, point, assumed_initial_char_height) =
        IF \E i \in DOMAIN list : IsEmpty(list[i]) THEN << >> ELSE Append(list, Window)
  BY <1>5 DEF generate_capture_areas, area_generation_steps
<1>7. QED
  BY <1>1, <1>6

(* It holds before the search. *)
LEMMA FRInit == Init => FRInv
<1> SUFFICES ASSUME Init PROVE FRInv
  OBVIOUS
<1>1. cursor \in Int \X Int
  BY PageAssumption DEF Init
<1>2. areas = << >> /\ state = "start" /\ result.references = {}
  BY DEF Init
<1>3. QED
  BY <1>1, <1>2 DEF FRInv, FoundUnderCursor

(* What is found in an area is kept, and what was found before if there is nothing. *)
LEMMA KeptUnderCursor ==
  ASSUME FRInv, areas # << >>, NEW area_result, NEW wrong, GoOn(area_result, wrong),
         \A i \in Characters : OnCharacter(i) /\ area_result.references # {} => i \in area_result.references
  PROVE  FRInv'
<1>1. areas' = Tail(areas) /\ cursor' = cursor /\ state' # "parse"
      /\ result' = IF area_result.references # {} THEN area_result ELSE result
  BY DEF GoOn, Kept
<1>2. Tail(areas) \in Seq(Rectangles)
  BY DEF FRInv
<1>3. \A i \in Characters : OnCharacter(i)' <=> OnCharacter(i)
  BY <1>1 DEF OnCharacter
<1>4. FoundUnderCursor'
  BY <1>1, <1>3 DEF FRInv, FoundUnderCursor
<1>5. QED
  BY <1>1, <1>2, <1>4 DEF FRInv

(* What is recognised has the character under the cursor in it. *)
LEMMA RecognizedUnderCursor ==
  ASSUME FRInv, Recognized
  PROVE  FRInv'
<1> DEFINE area == Head(areas)
           data == find_main_reference_position_data(Relative(area))
           written == Citation(data.seen, Names, data.index)
           valid(read) == is_valid_capture_area(
             Relative(area), Rect(0, 0, area.w, area.h), Paragraph, Lines, {InImage(i) : i \in read})
           wrong(read) == IF read = written THEN {} ELSE IF read = {} THEN {"failed"} ELSE {"failed", "deceived"}
<1>1. areas # << >> /\ Imaged(area)
  BY DEF FRInv, Recognized
<1>2. cursor \in Int \X Int /\ image.seen # {} /\ contains_point(Paragraph, Relative(area))
  BY DEF FRInv, Recognized, Paragraphless
<1>3. \E names \in {Names, Names \ written} :
        \E references \in IF Existing(Citation(data.seen, names, data.index)) = {} THEN {{}, Existing(written)}
                           ELSE {Citation(data.seen, names, data.index)} :
          GoOn([valid |-> valid(Citation(data.seen, names, data.index)), references |-> references],
               wrong(Citation(data.seen, names, data.index)))
  BY Zenon DEF Recognized
<1> HIDE DEF area, data, written, valid, wrong
<1>4. PICK names : \E references \in IF Existing(Citation(data.seen, names, data.index)) = {} THEN {{}, Existing(written)}
                                     ELSE {Citation(data.seen, names, data.index)} :
          GoOn([valid |-> valid(Citation(data.seen, names, data.index)), references |-> references],
               wrong(Citation(data.seen, names, data.index)))
  BY <1>3
<1> DEFINE read == Citation(data.seen, names, data.index)
<1>5. PICK references \in IF Existing(read) = {} THEN {{}, Existing(written)} ELSE {read} :
        GoOn([valid |-> valid(read), references |-> references], wrong(read))
  BY <1>4
<1>6. ASSUME NEW i \in Characters, OnCharacter(i), references # {}
      PROVE  i \in references
  <2>1. data.seen \in SUBSET Characters /\ data.index = i /\ i \in data.seen
    BY <1>1, <1>2, <1>6, ReadAtCursor DEF data
  <2>2. (read # {} => i \in read) /\ (written # {} => i \in written)
    BY <2>1, CitedThere DEF written
  <2>3. references = read \/ references = written
    BY <1>5, <1>6 DEF Existing
  <2>4. QED
    BY <1>6, <2>2, <2>3
<1>7. QED
  BY <1>1, <1>5, <1>6, KeptUnderCursor

(* It holds after every step. *)
LEMMA FRStep == FRInv /\ [Next]_vars => FRInv'
<1> SUFFICES ASSUME FRInv, [Next]_vars PROVE FRInv'
  OBVIOUS
<1>1. ASSUME UNCHANGED <<cursor, result>>
      PROVE  FoundUnderCursor' /\ cursor' \in Int \X Int
  BY <1>1 DEF FRInv, FoundUnderCursor, OnCharacter
<1>2. CASE NoAreas
  BY <1>1, <1>2 DEF NoAreas, FRInv
<1>3. CASE GenerateAreas
  <2>1. areas' \in Seq(Rectangles)
    BY <1>3, AreasOf DEF GenerateAreas, FRInv
  <2>2. QED
    BY <1>1, <1>3, <2>1 DEF GenerateAreas, FRInv
<1>4. CASE CaptureFails
  BY <1>1, <1>4 DEF CaptureFails, FRInv
<1>5. CASE Capture
  <2>1. Head(areas) \in Rectangles
    BY <1>5 DEF Capture, FRInv
  <2>2. Imaged(Head(areas))'
    BY <1>5, <2>1 DEF Capture, Imaged, Seen
  <2>3. QED
    BY <1>1, <1>5, <2>2 DEF Capture, FRInv
<1>6. CASE NothingRecognized
  <2>1. PICK wrong, area_result : area_result.references = {} /\ GoOn(area_result, wrong)
    BY <1>6 DEF NothingRecognized
  <2>2. QED
    BY <1>6, <2>1, KeptUnderCursor DEF NothingRecognized, FRInv
<1>7. CASE Recognized
  BY <1>7, RecognizedUnderCursor
<1>8. CASE Exhausted
  BY <1>1, <1>8 DEF Exhausted, FRInv
<1>9. CASE UNCHANGED vars
  BY <1>1, <1>9 DEF vars, FRInv, Imaged
<1>10. QED
  BY <1>2, <1>3, <1>4, <1>5, <1>6, <1>7, <1>8, <1>9 DEF Next

(* A reference that is found has the character under the cursor in it, whatever is *)
(* captured, recognised or misread.                                                *)
THEOREM ReferenceUnderCursor == Spec => []FoundUnderCursor
<1>1. FRInv => FoundUnderCursor
  BY DEF FRInv
<1>2. QED
  BY <1>1, FRInit, FRStep, PTL DEF Spec

-----------------------------------------------------------------------------
(* The areas.                                                                *)

(* The common part of two rectangles, if there is one, is inside both, has the points *)
(* that are in both, and grows with the second one.                                   *)
LEMMA CommonPart ==
  ASSUME NEW r \in Rectangles, NEW q \in Rectangles, ~IsEmpty(overlap(r, q))
  PROVE  /\ overlap(r, q) \in Rectangles /\ contains(r, overlap(r, q))
         /\ \A p \in Int \X Int :
              contains_point(r, p) /\ contains_point(q, p) => contains_point(overlap(r, q), p)
         /\ \A s \in Rectangles :
              contains(s, q) => ~IsEmpty(overlap(r, s)) /\ contains(overlap(r, s), overlap(r, q))
<1>1. PICK x \in Int, y \in Int, u \in Int, v \in Int :
        /\ x = Greater(r.x, q.x) /\ y = Greater(r.y, q.y)
        /\ u = Smaller(r.x + r.w, q.x + q.w) /\ v = Smaller(r.y + r.h, q.y + q.h)
  BY DEF Rectangles, Greater, Smaller
<1>2. /\ ~IsEmpty(r) /\ ~IsEmpty(q) /\ x < u /\ y < v
      /\ overlap(r, q) = Rect(x, y, u - x, v - y)
  <2>1. overlap(r, q) = IF IsEmpty(r) \/ IsEmpty(q) \/ u <= x \/ v <= y THEN Rect(0, 0, 0, 0)
                        ELSE Rect(x, y, u - x, v - y)
    BY <1>1 DEF overlap
  <2>2. IsEmpty(Rect(0, 0, 0, 0))
    BY DEF IsEmpty, Rect
  <2>3. QED
    BY <1>1, <2>1, <2>2
<1>3. overlap(r, q) \in Rectangles
  BY <1>2 DEF Rect, Rectangles
<1>4. /\ r.x <= x /\ q.x <= x /\ r.y <= y /\ q.y <= y
      /\ u <= r.x + r.w /\ u <= q.x + q.w /\ v <= r.y + r.h /\ v <= q.y + q.h
  BY <1>1 DEF Rectangles, Greater, Smaller
<1>5. contains(r, overlap(r, q))
  BY <1>2, <1>4 DEF contains, Rect, IsEmpty, Rectangles
<1>6. ASSUME NEW p \in Int \X Int, contains_point(r, p), contains_point(q, p)
      PROVE  contains_point(overlap(r, q), p)
  BY <1>1, <1>2, <1>6 DEF contains_point, Rect, Rectangles, Greater, Smaller
<1>7. ASSUME NEW s \in Rectangles, contains(s, q)
      PROVE  ~IsEmpty(overlap(r, s)) /\ contains(overlap(r, s), overlap(r, q))
  <2>1. PICK a \in Int, b \in Int, c \in Int, d \in Int :
          /\ a = Greater(r.x, s.x) /\ b = Greater(r.y, s.y)
          /\ c = Smaller(r.x + r.w, s.x + s.w) /\ d = Smaller(r.y + r.h, s.y + s.h)
    BY DEF Rectangles, Greater, Smaller
  <2>2. ~IsEmpty(s) /\ s.x <= q.x /\ q.x + q.w <= s.x + s.w /\ s.y <= q.y /\ q.y + q.h <= s.y + s.h
    BY <1>7 DEF contains
  <2>3. a <= x /\ u <= c
    BY <1>1, <2>1, <2>2 DEF Greater, Smaller, Rectangles
  <2>4. b <= y /\ v <= d
    BY <1>1, <2>1, <2>2 DEF Greater, Smaller, Rectangles
  <2>5. overlap(r, s) = Rect(a, b, c - a, d - b)
    <3>1. overlap(r, s) = IF IsEmpty(r) \/ IsEmpty(s) \/ c <= a \/ d <= b THEN Rect(0, 0, 0, 0)
                          ELSE Rect(a, b, c - a, d - b)
      BY <2>1 DEF overlap
    <3>2. ~(c <= a) /\ ~(d <= b)
      BY <1>2, <2>3, <2>4
    <3>3. QED
      BY <1>2, <2>2, <3>1, <3>2
  <2>6. QED
    BY <1>2, <2>3, <2>4, <2>5 DEF contains, Rect, IsEmpty
<1>8. QED
  BY <1>3, <1>5, <1>6, <1>7

(* One rectangle around the cursor is inside the next one, and has the cursor in it *)
(* unless it is empty.                                                              *)
LEMMA AroundGrows ==
  ASSUME NEW point \in Int \X Int, NEW i \in 1 .. 4, NEW j \in 1 .. 4, i <= j
  PROVE  LET r == Around(point, assumed_initial_char_height, i)
             s == Around(point, assumed_initial_char_height, j)
         IN  /\ r \in Rectangles
             /\ ~IsEmpty(r) => contains_point(r, point) /\ contains(s, r)
<1>1. PICK m \in Nat : m = assumed_initial_char_height
  BY PageAssumption
<1>2. ASSUME NEW k \in 1 .. 4
      PROVE  Around(point, assumed_initial_char_height, k) =
               Rect(point[1] - 9 * (k * m), point[2] - k * m, 2 * (9 * (k * m)), 2 * (k * m))
  <2>1. k * m \in Nat /\ k * (2 * m * 9) = 2 * (9 * (k * m)) /\ k * (2 * m) = 2 * (k * m)
    OBVIOUS
  <2>2. (k * (2 * m * 9)) \div 2 = 9 * (k * m) /\ (k * (2 * m)) \div 2 = k * m
    BY <2>1
  <2>3. QED
    BY <1>1, <2>2 DEF Around, area_generation_char_height_multiplier, area_generation_height_to_width_ratio
<1>3. PICK a \in Nat, b \in Nat : a = i * m /\ b = j * m /\ a <= b
  <2>1. i \in Nat /\ j \in Nat /\ i * m \in Nat /\ j * m \in Nat /\ (j - i) * m \in Nat
        /\ j * m = i * m + (j - i) * m
    OBVIOUS
  <2>2. i * m <= j * m
    BY <2>1
  <2>3. QED
    BY <2>1, <2>2
<1>4. /\ Around(point, assumed_initial_char_height, i) = Rect(point[1] - 9 * a, point[2] - a, 2 * (9 * a), 2 * a)
      /\ Around(point, assumed_initial_char_height, j) = Rect(point[1] - 9 * b, point[2] - b, 2 * (9 * b), 2 * b)
  BY <1>2, <1>3
<1>5. QED
  BY <1>3, <1>4 DEF Rect, Rectangles, IsEmpty, contains, contains_point

(* The list of areas: each is inside the window and the next one, and has the cursor in it. *)
LEMMA AreasNest ==
  ASSUME NEW point \in Int \X Int, contains_point(Window, point),
         NEW list, list = generate_capture_areas(Window, point, assumed_initial_char_height)
  PROVE  /\ list \in Seq(Rectangles)
         /\ \A i \in DOMAIN list :
              ~IsEmpty(list[i]) /\ contains(Window, list[i]) /\ contains_point(list[i], point)
         /\ \A i, j \in DOMAIN list : i < j => contains(list[j], list[i])
<1>1. Window \in Rectangles /\ ~IsEmpty(Window) /\ contains(Window, Window)
  BY PageAssumption DEF contains_point, contains, IsEmpty, Rectangles
<1>2. list \in Seq(Rectangles)
  BY AreasOf
<1> DEFINE around(i) == Around(point, assumed_initial_char_height, i)
<1>3. PICK parts : parts = [i \in 1 .. 4 |-> overlap(Window, around(i))]
  OBVIOUS
<1>4. list = IF \E i \in DOMAIN parts : IsEmpty(parts[i]) THEN << >> ELSE Append(parts, Window)
  BY <1>3 DEF generate_capture_areas, area_generation_steps
<1>5. CASE \E i \in DOMAIN parts : IsEmpty(parts[i])
  BY <1>2, <1>4, <1>5
<1>6. CASE \A i \in DOMAIN parts : ~IsEmpty(parts[i])
  <2>1. \A i \in 1 .. 4 : around(i) \in Rectangles
    BY AroundGrows
  <2>2. \A i \in 1 .. 4 : parts[i] = overlap(Window, around(i)) /\ ~IsEmpty(overlap(Window, around(i)))
    BY <1>3, <1>6
  <2>3. \A i \in 1 .. 4 : ~IsEmpty(around(i))
    <3>1. ASSUME NEW r, IsEmpty(r) PROVE IsEmpty(overlap(Window, r))
      BY <3>1 DEF overlap, Rect, IsEmpty
    <3>2. QED
      BY <2>2, <3>1
  <2>4. ASSUME NEW i \in 1 .. 4
        PROVE  parts[i] \in Rectangles /\ contains(Window, parts[i]) /\ contains_point(parts[i], point)
    <3>1. contains_point(around(i), point)
      BY <2>3, AroundGrows
    <3> HIDE DEF around
    <3>2. QED
      BY <1>1, <2>1, <2>2, <3>1, CommonPart
  <2>5. ASSUME NEW i \in 1 .. 4, NEW j \in 1 .. 4, i < j
        PROVE  contains(parts[j], parts[i])
    <3>1. contains(around(j), around(i))
      BY <2>3, <2>5, AroundGrows
    <3> HIDE DEF around
    <3>2. QED
      BY <1>1, <2>1, <2>2, <3>1, CommonPart
  <2>6. /\ parts \in Seq(Rectangles) /\ Len(parts) = 4
        /\ list = Append(parts, Window) /\ DOMAIN list = 1 .. 5 /\ list[5] = Window
        /\ \A i \in 1 .. 4 : list[i] = parts[i]
    <3>1. parts \in Seq(Rectangles) /\ Len(parts) = 4
      <4>1. \A i \in 1 .. 4 : parts[i] \in Rectangles
        BY <2>4
      <4>2. QED
        BY <1>3, <4>1
    <3>2. list = Append(parts, Window)
      BY <1>3, <1>4, <1>6
    <3>3. Len(list) = 5 /\ DOMAIN list = 1 .. 5 /\ list[5] = Window
      <4>1. ASSUME NEW s \in Seq(Rectangles), NEW r \in Rectangles
            PROVE  Append(s, r) \in Seq(Rectangles) /\ Len(Append(s, r)) = Len(s) + 1 /\ Append(s, r)[Len(s) + 1] = r
        OBVIOUS
      <4>2. /\ list \in Seq(Rectangles) /\ Len(list) = Len(parts) + 1 /\ list[Len(parts) + 1] = Window
        BY <1>1, <3>1, <3>2, <4>1
      <4>3. QED
        BY <3>1, <4>1, <4>2
    <3>4. \A i \in 1 .. 4 : list[i] = parts[i]
      BY <1>1, <3>1, <3>2
    <3>5. QED
      BY <3>1, <3>2, <3>3, <3>4
  <2>7. \A i \in DOMAIN list :
          ~IsEmpty(list[i]) /\ contains(Window, list[i]) /\ contains_point(list[i], point)
    <3>1. ASSUME NEW i \in 1 .. 5
          PROVE  ~IsEmpty(list[i]) /\ contains(Window, list[i]) /\ contains_point(list[i], point)
      <4>1. CASE i = 5
        BY <1>1, <2>6, <4>1
      <4>2. CASE i \in 1 .. 4
        BY <2>2, <2>4, <2>6, <4>2
      <4>3. QED
        BY <4>1, <4>2
    <3>2. QED
      BY <2>6, <3>1
  <2>8. ASSUME NEW i \in 1 .. 5, NEW j \in 1 .. 5, i < j PROVE contains(list[j], list[i])
    <3>1. i \in 1 .. 4 /\ (j = 5 \/ j \in 1 .. 4)
      BY <2>8
    <3>2. QED
      BY <2>4, <2>5, <2>6, <2>8, <3>1
  <2>9. QED
    BY <1>2, <2>6, <2>7, <2>8
<1>7. QED
  BY <1>5, <1>6

\* The areas that are left are as they should be, and so is what is found.
AreasInv ==
  /\ cursor \in Int \X Int /\ contains_point(Window, cursor) /\ areas \in Seq(Rectangles)
  /\ state = "start" => image = NoImage
  /\ state = "parse" => areas # << >>
  /\ image.seen \subseteq Characters /\ FRTypeOK /\ AreasGrow

(* It holds before the search. *)
LEMMA AreasInit == Init => AreasInv
<1> SUFFICES ASSUME Init PROVE AreasInv
  OBVIOUS
<1>1. IsPage(page) /\ cursor \in Int \X Int /\ contains_point(Window, cursor)
  BY PageAssumption DEF Init
<1>2. QED
  BY <1>1 DEF Init, AreasInv, FRTypeOK, AreasGrow, NoImage

(* The first area goes, the others are what they were. *)
LEMMA AreasLeft ==
  ASSUME AreasInv, areas # << >>, areas' = Tail(areas), UNCHANGED <<cursor, image>>
  PROVE  /\ areas' \in Seq(Rectangles) /\ AreasGrow'
         /\ \A i \in DOMAIN areas' : ~IsEmpty(areas'[i]) /\ contains(Window, areas'[i])
<1>1. /\ areas \in Seq(Rectangles) /\ areas' \in Seq(Rectangles)
      /\ \A i \in DOMAIN areas' : i + 1 \in DOMAIN areas /\ areas'[i] = areas[i + 1] /\ i \in Nat
  BY DEF AreasInv
<1>2. \A i, j \in DOMAIN areas' : i < j => i + 1 < j + 1
  BY <1>1
<1>3. QED
  BY <1>1, <1>2 DEF AreasInv, FRTypeOK, AreasGrow

(* What the area that was parsed has to do for it. *)
LEMMA AreasGoOn ==
  ASSUME AreasInv, areas # << >>, NEW area_result, NEW wrong, GoOn(area_result, wrong),
         area_result.valid \in BOOLEAN, area_result.references \subseteq Characters,
         wrong \subseteq {"failed", "deceived"}
  PROVE  AreasInv'
<1>1. /\ areas' = Tail(areas) /\ UNCHANGED <<page, cursor, image>>
      /\ trouble' = trouble \cup wrong /\ state' \in {"done", "search"}
      /\ result' = IF area_result.references # {} THEN area_result ELSE result
  BY DEF GoOn, Kept
<1>2. /\ areas' \in Seq(Rectangles) /\ AreasGrow'
      /\ \A i \in DOMAIN areas' : ~IsEmpty(areas'[i]) /\ contains(Window, areas'[i])
  BY <1>1, AreasLeft
<1>3. FRTypeOK'
  BY <1>1, <1>2 DEF AreasInv, FRTypeOK
<1>4. QED
  BY <1>1, <1>2, <1>3 DEF AreasInv

(* The parse of an area in which something is recognized. *)
LEMMA AreasRecognized ==
  ASSUME AreasInv, Recognized
  PROVE  AreasInv'
<1> DEFINE area == Head(areas)
           data == find_main_reference_position_data(Relative(area))
           written == Citation(data.seen, Names, data.index)
           valid(read) == is_valid_capture_area(
             Relative(area), Rect(0, 0, area.w, area.h), Paragraph, Lines, {InImage(i) : i \in read})
           wrong(read) == IF read = written THEN {} ELSE IF read = {} THEN {"failed"} ELSE {"failed", "deceived"}
<1>1. \E names \in {Names, Names \ written} :
        \E references \in IF Existing(Citation(data.seen, names, data.index)) = {} THEN {{}, Existing(written)}
                           ELSE {Citation(data.seen, names, data.index)} :
          GoOn([valid |-> valid(Citation(data.seen, names, data.index)), references |-> references],
               wrong(Citation(data.seen, names, data.index)))
  BY Zenon DEF Recognized
<1>2. \A read : valid(read) \in BOOLEAN /\ wrong(read) \subseteq {"failed", "deceived"}
  BY DEF is_valid_capture_area
<1>3. \A names : Citation(data.seen, names, data.index) \subseteq data.seen
  BY DEF Citation
<1>4. data.seen \subseteq Characters
  <2>1. image.seen \subseteq Characters
    BY DEF AreasInv
  <2>2. QED
    BY <2>1 DEF find_main_reference_position_data, ReadIn
<1> HIDE DEF area, data, written, valid, wrong
<1>5. PICK names : \E references \in IF Existing(Citation(data.seen, names, data.index)) = {} THEN {{}, Existing(written)}
                                     ELSE {Citation(data.seen, names, data.index)} :
          GoOn([valid |-> valid(Citation(data.seen, names, data.index)), references |-> references],
               wrong(Citation(data.seen, names, data.index)))
  BY <1>1
<1> DEFINE read == Citation(data.seen, names, data.index)
<1>6. PICK references \in IF Existing(read) = {} THEN {{}, Existing(written)} ELSE {read} :
        GoOn([valid |-> valid(read), references |-> references], wrong(read))
  BY <1>5
<1>7. references \subseteq Characters
  <2>1. read \subseteq Characters /\ written \subseteq Characters
    BY <1>3, <1>4 DEF written
  <2>2. references \in {{}, read, written}
    BY <1>6 DEF Existing
  <2>3. QED
    BY <2>1, <2>2
<1>8. areas # << >>
  BY DEF AreasInv, Recognized
<1>9. QED
  BY <1>2, <1>6, <1>7, <1>8, AreasGoOn

(* It holds after every step. *)
LEMMA AreasStep == AreasInv /\ [Next]_vars => AreasInv'
<1> SUFFICES ASSUME AreasInv, [Next]_vars PROVE AreasInv'
  OBVIOUS
<1>1. CASE NoAreas
  BY <1>1 DEF NoAreas, AreasInv, FRTypeOK, AreasGrow
<1>2. CASE GenerateAreas
  <2>1. /\ areas' = generate_capture_areas(Window, cursor, assumed_initial_char_height)
        /\ cursor \in Int \X Int /\ contains_point(Window, cursor) /\ image' = NoImage
        /\ state' = "search" /\ UNCHANGED <<page, cursor, result, trouble>>
    BY <1>2 DEF GenerateAreas, AreasInv
  <2>2. /\ areas' \in Seq(Rectangles)
        /\ \A i \in DOMAIN areas' :
             ~IsEmpty(areas'[i]) /\ contains(Window, areas'[i]) /\ contains_point(areas'[i], cursor)
        /\ \A i, j \in DOMAIN areas' : i < j => contains(areas'[j], areas'[i])
    BY <2>1, AreasNest
  <2>3. FRTypeOK' /\ AreasGrow'
    BY <2>1, <2>2 DEF AreasInv, FRTypeOK, AreasGrow
  <2>4. image'.seen \subseteq Characters
    BY <2>1 DEF NoImage
  <2>5. QED
    BY <2>1, <2>2, <2>3, <2>4 DEF AreasInv
<1>3. CASE CaptureFails
  <2>1. /\ areas' \in Seq(Rectangles) /\ AreasGrow'
        /\ \A i \in DOMAIN areas' : ~IsEmpty(areas'[i]) /\ contains(Window, areas'[i])
    BY <1>3, AreasLeft DEF CaptureFails
  <2>2. QED
    BY <1>3, <2>1 DEF CaptureFails, AreasInv, FRTypeOK
<1>4. CASE Capture
  <2>1. image'.area = Head(areas) /\ image'.seen \subseteq Characters /\ UNCHANGED <<page, cursor, areas, result, trouble>> /\ state' = "parse"
        /\ areas # << >> /\ areas \in Seq(Rectangles)
    BY <1>4 DEF Capture, AreasInv, Seen
  <2>2. 1 \in DOMAIN areas /\ Head(areas) = areas[1] /\ DOMAIN areas = 1 .. Len(areas) /\ areas[1] \in Rectangles
    BY <2>1
  <2>3. contains(areas[1], areas[1])
    <3>1. ~IsEmpty(areas[1])
      BY <2>2 DEF AreasInv, FRTypeOK
    <3>2. QED
      BY <2>2, <3>1 DEF contains, Rectangles
  <2>4. ASSUME NEW i \in DOMAIN areas PROVE contains(areas[i], areas[1])
    <3>1. i = 1 \/ 1 < i
      BY <2>2
    <3>2. QED
      BY <2>2, <2>3, <3>1 DEF AreasInv, AreasGrow
  <2>5. AreasGrow'
    BY <2>1, <2>2, <2>4 DEF AreasInv, AreasGrow
  <2>6. QED
    BY <2>1, <2>5 DEF AreasInv, FRTypeOK
<1>5. CASE NothingRecognized
  <2>1. PICK wrong \in SUBSET {"failed"} : GoOn([valid |-> FALSE, references |-> {}], wrong)
    BY <1>5 DEF NothingRecognized
  <2>2. areas # << >>
    BY <1>5 DEF NothingRecognized, AreasInv
  <2>3. QED
    BY <2>1, <2>2, AreasGoOn
<1>6. CASE Recognized
  BY <1>6, AreasRecognized
<1>7. CASE Exhausted
  BY <1>7 DEF Exhausted, AreasInv, FRTypeOK, AreasGrow
<1>8. CASE UNCHANGED vars
  BY <1>8 DEF vars, AreasInv, FRTypeOK, AreasGrow
<1>9. QED
  BY <1>1, <1>2, <1>3, <1>4, <1>5, <1>6, <1>7, <1>8 DEF Next

(* The areas that are left are in the window, and what is found is on the page. *)
THEOREM SearchTypeCorrect == Spec => []FRTypeOK
<1>1. AreasInv => FRTypeOK
  BY DEF AreasInv
<1>2. QED
  BY <1>1, AreasInit, AreasStep, PTL DEF Spec

(* Each area shows all that those before it have shown, the cursor included. *)
THEOREM AreasShowMore == Spec => []AreasGrow
<1>1. AreasInv => AreasGrow
  BY DEF AreasInv
<1>2. QED
  BY <1>1, AreasInit, AreasStep, PTL DEF Spec

-----------------------------------------------------------------------------
(* The lines and columns of the characters.                                  *)

Column(i) == (i - 1) % Columns

(* What division gives. *)
LEMMA Division ==
  ASSUME NEW q \in Nat, NEW b \in Nat \ {0}, NEW r \in Nat, r < b
  PROVE  (q * b + r) % b = r /\ (q * b + r) \div b = q /\ q * b \in Nat
<1>1. q * b \in Nat
  OBVIOUS
<1>2. (q * b + r) % b = r /\ (q * b + r) \div b = q
  BY <1>1, SMTT(30)
<1>3. QED
  BY <1>1, <1>2

(* Each place of the text has its character. *)
LEMMA CellAt ==
  ASSUME NEW l \in 1 .. Rows, NEW c \in 0 .. Columns - 1
  PROVE  (l - 1) * Columns + c + 1 \in Characters
         /\ Line((l - 1) * Columns + c + 1) = l /\ Column((l - 1) * Columns + c + 1) = c
<1>1. Columns \in Nat \ {0} /\ Rows \in Nat \ {0} /\ l - 1 \in Nat /\ c \in Nat /\ c < Columns /\ l \in Nat
  BY PageAssumption
<1>2. PICK k \in Nat : k = (l - 1) * Columns
  BY <1>1
<1>3. (k + c) % Columns = c /\ (k + c) \div Columns = l - 1
  BY <1>1, <1>2, Division
<1>4. k + Columns <= Rows * Columns /\ Rows * Columns \in Nat
  <2>1. PICK r \in Nat : Rows = (l - 1) + 1 + r
    <3>1. Rows - l \in Nat /\ Rows = (l - 1) + 1 + (Rows - l)
      BY <1>1
    <3>2. QED
      BY <3>1
  <2>2. Rows * Columns = (l - 1) * Columns + Columns + r * Columns /\ r * Columns \in Nat
    BY <1>1, <2>1
  <2>3. QED
    BY <1>1, <1>2, <2>2
<1>5. k + c + 1 \in Characters /\ k + c + 1 - 1 = k + c
  BY <1>1, <1>2, <1>4 DEF Characters
<1>6. QED
  BY <1>1, <1>2, <1>3, <1>5 DEF Line, Column

(* A character is where its line and column say. *)
LEMMA CellOf ==
  ASSUME NEW i \in Characters
  PROVE  /\ Line(i) \in 1 .. Rows /\ Column(i) \in 0 .. Columns - 1
         /\ i = (Line(i) - 1) * Columns + Column(i) + 1
         /\ i % Columns = IF Column(i) + 1 = Columns THEN 0 ELSE Column(i) + 1
<1>1. Columns \in Nat \ {0} /\ Rows \in Nat \ {0} /\ Rows * Columns \in Nat
  BY PageAssumption
<1>2. PICK q \in Nat, c \in Nat :
        /\ q = Line(i) - 1 /\ c = Column(i) /\ i = q * Columns + c + 1 /\ Line(i) \in Nat
        /\ i \in Nat /\ i <= Rows * Columns
  <2>1. i \in Nat /\ Column(i) \in Nat /\ Line(i) - 1 \in Nat /\ Line(i) \in Nat
        /\ i = (Line(i) - 1) * Columns + Column(i) + 1
    BY Cells DEF Column
  <2>2. i <= Rows * Columns
    BY <1>1 DEF Characters
  <2>3. QED
    BY <2>1, <2>2
<1>3. c < Columns
  <2>1. i - 1 \in Nat
    BY <1>1 DEF Characters
  <2>2. (i - 1) % Columns < Columns
    BY <1>1, <2>1
  <2>3. QED
    BY <1>2, <2>2 DEF Column
<1>4. q < Rows
  <2>1. ASSUME q >= Rows PROVE FALSE
    <3>1. PICK r \in Nat : q = Rows + r
      <4>1. q - Rows \in Nat /\ q = Rows + (q - Rows)
        BY <1>1, <2>1
      <4>2. QED
        BY <4>1
    <3>2. q * Columns = Rows * Columns + r * Columns /\ r * Columns \in Nat
      BY <1>1, <3>1
    <3>3. QED
      BY <1>1, <1>2, <3>2
  <2>2. QED
    BY <1>1, <2>1
<1>5. i % Columns = IF c + 1 = Columns THEN 0 ELSE c + 1
  <2>1. CASE c + 1 = Columns
    <3>1. i = (q + 1) * Columns + 0 /\ q + 1 \in Nat
      BY <1>1, <1>2, <2>1
    <3>2. ((q + 1) * Columns + 0) % Columns = 0
      BY <1>1, Division
    <3>3. QED
      BY <2>1, <3>1, <3>2
  <2>2. CASE c + 1 < Columns
    <3>1. (q * Columns + (c + 1)) % Columns = c + 1 /\ q * Columns \in Nat
      BY <1>1, <2>2, Division
    <3>2. i = q * Columns + (c + 1)
      BY <1>2, <3>1
    <3>3. QED
      BY <2>2, <3>1, <3>2
  <2>3. QED
    BY <1>1, <1>3, <2>1, <2>2
<1>6. QED
  BY <1>1, <1>2, <1>3, <1>4, <1>5

(* The characters are numbered line by line. *)
LEMMA Order ==
  ASSUME NEW i \in Characters, NEW j \in Characters
  PROVE  /\ Line(i) < Line(j) => i < j
         /\ Line(i) = Line(j) => (i < j <=> Column(i) < Column(j)) /\ (i = j <=> Column(i) = Column(j))
<1>1. PICK q \in Nat, c \in Nat, p \in Nat, d \in Nat :
        /\ q = Line(i) - 1 /\ c = Column(i) /\ p = Line(j) - 1 /\ d = Column(j)
        /\ Line(i) \in Nat /\ Line(j) \in Nat /\ c < Columns /\ d < Columns
        /\ i = q * Columns + c + 1 /\ j = p * Columns + d + 1
  <2>1. /\ Line(i) \in 1 .. Rows /\ Column(i) \in 0 .. Columns - 1 /\ i = (Line(i) - 1) * Columns + Column(i) + 1
        /\ Line(j) \in 1 .. Rows /\ Column(j) \in 0 .. Columns - 1 /\ j = (Line(j) - 1) * Columns + Column(j) + 1
    BY CellOf
  <2>2. /\ Line(i) - 1 \in Nat /\ Column(i) \in Nat /\ Line(j) - 1 \in Nat /\ Column(j) \in Nat
        /\ Line(i) \in Nat /\ Line(j) \in Nat /\ Column(i) < Columns /\ Column(j) < Columns
    BY <2>1, PageAssumption
  <2>3. QED
    BY <2>1, <2>2
<1>2. Columns \in Nat \ {0}
  BY PageAssumption
<1>3. ASSUME q < p PROVE i < j
  <2>1. PICK r \in Nat : p = q + 1 + r
    <3>1. p - q - 1 \in Nat /\ p = q + 1 + (p - q - 1)
      BY <1>3
    <3>2. QED
      BY <3>1
  <2>2. p * Columns = q * Columns + Columns + r * Columns /\ r * Columns \in Nat /\ q * Columns \in Nat
    BY <1>2, <2>1
  <2>3. QED
    BY <1>1, <1>2, <2>2
<1>4. ASSUME q = p PROVE (i < j <=> c < d) /\ (i = j <=> c = d)
  <2>1. PICK k \in Nat : k = q * Columns
    BY <1>2
  <2>2. i = k + c + 1 /\ j = k + d + 1
    BY <1>1, <1>4, <2>1
  <2>3. QED
    BY <2>2
<1>5. QED
  BY <1>1, <1>3, <1>4

(* The character after one is the next in its line. *)
LEMMA NextInLine ==
  ASSUME NEW i \in Characters, Column(i) + 1 # Columns
  PROVE  /\ i + 1 \in Characters /\ Line(i + 1) = Line(i) /\ Column(i + 1) = Column(i) + 1
         /\ Box[i + 1].x = Box[i].x + CharWidth /\ Box[i + 1].y = Box[i].y
<1>1. Columns \in Nat \ {0} /\ Rows \in Nat /\ CharWidth \in Nat /\ Left \in Int
  BY PageAssumption
<1>2. PICK l \in 1 .. Rows, c \in Nat : l = Line(i) /\ c = Column(i) /\ c + 1 \in 0 .. Columns - 1
      /\ i = (l - 1) * Columns + c + 1
  <2>1. Line(i) \in 1 .. Rows /\ Column(i) \in 0 .. Columns - 1 /\ i = (Line(i) - 1) * Columns + Column(i) + 1
    BY CellOf
  <2>2. Column(i) \in Nat /\ Column(i) + 1 \in 0 .. Columns - 1
    BY <1>1, <2>1
  <2>3. QED
    BY <2>1, <2>2
<1>3. PICK k \in Int : k = (l - 1) * Columns /\ i = k + c + 1
  <2>1. (l - 1) * Columns \in Int
    BY <1>1
  <2>2. QED
    BY <1>2, <2>1, Zenon
<1>4. PICK d \in 0 .. Columns - 1 : d = c + 1
  BY <1>2
<1>5. k + d + 1 \in Characters /\ Line(k + d + 1) = l /\ Column(k + d + 1) = d
  BY <1>3, CellAt
<1>6. k + d + 1 = i + 1
  <2>1. i = k + c + 1 /\ d = c + 1
    BY <1>3, <1>4
  <2>2. QED
    BY <2>1
<1>7. i + 1 \in Characters /\ Line(i + 1) = Line(i) /\ Column(i + 1) = Column(i) + 1
  BY <1>2, <1>4, <1>5, <1>6
<1>8. PICK j \in Characters : j = i + 1 /\ Line(j) = Line(i) /\ Column(j) = d
  BY <1>5, <1>6, <1>7
<1>9. Box[j].x = Left + d * CharWidth /\ Box[i].x = Left + c * CharWidth /\ Box[j].y = Box[i].y
  BY <1>2, <1>8, BoxOf DEF Column
<1>10. d * CharWidth = c * CharWidth + CharWidth /\ c * CharWidth \in Nat
  BY <1>1, <1>4
<1>11. QED
  BY <1>1, <1>7, <1>8, <1>9, <1>10

(* The character before one is the one before in its line. *)
LEMMA LastInLine ==
  ASSUME NEW i \in Characters, Column(i) # 0
  PROVE  /\ i - 1 \in Characters /\ Line(i - 1) = Line(i) /\ Column(i - 1) = Column(i) - 1
         /\ Box[i - 1].x = Box[i].x - CharWidth /\ Box[i - 1].y = Box[i].y
<1>1. Columns \in Nat \ {0} /\ Rows \in Nat /\ CharWidth \in Nat /\ Left \in Int
  BY PageAssumption
<1>2. PICK l \in 1 .. Rows, c \in Nat : l = Line(i) /\ c = Column(i) /\ c - 1 \in 0 .. Columns - 1
      /\ c < Columns /\ i = (l - 1) * Columns + c + 1
  <2>1. Line(i) \in 1 .. Rows /\ Column(i) \in 0 .. Columns - 1 /\ i = (Line(i) - 1) * Columns + Column(i) + 1
    BY CellOf
  <2>2. Column(i) \in Nat /\ Column(i) - 1 \in 0 .. Columns - 1 /\ Column(i) < Columns
    BY <1>1, <2>1
  <2>3. QED
    BY <2>1, <2>2
<1>3. PICK k \in Int : k = (l - 1) * Columns /\ i = k + c + 1
  <2>1. (l - 1) * Columns \in Int
    BY <1>1
  <2>2. QED
    BY <1>2, <2>1, Zenon
<1>4. PICK d \in 0 .. Columns - 1 : d = c - 1
  BY <1>2
<1>5. k + d + 1 \in Characters /\ Line(k + d + 1) = l /\ Column(k + d + 1) = d
  BY <1>3, CellAt
<1>6. PICK j \in Characters : j = i - 1 /\ j + 1 = i /\ Line(j) = Line(i) /\ Column(j) = Column(i) - 1
  <2>1. i = k + c + 1 /\ d = c - 1
    BY <1>3, <1>4
  <2>2. k + d + 1 = i - 1 /\ (i - 1) + 1 = i
    BY <2>1
  <2>3. QED
    BY <1>2, <1>4, <1>5, <2>2
<1>7. Column(j) + 1 # Columns
  BY <1>2, <1>6
<1>8. Box[j + 1].x = Box[j].x + CharWidth /\ Box[j + 1].y = Box[j].y
  BY <1>7, NextInLine
<1>9. Box[j].x \in Int
  BY BoxOf
<1>10. QED
  BY <1>1, <1>6, <1>8, <1>9

(* The character after the last one of a line is the first one of the next. *)
LEMMA NextLine ==
  ASSUME NEW i \in Characters, Column(i) + 1 = Columns, Line(i) # Rows
  PROVE  i + 1 \in Characters /\ Line(i + 1) = Line(i) + 1 /\ Column(i + 1) = 0
<1>1. Columns \in Nat \ {0} /\ Rows \in Nat
  BY PageAssumption
<1>2. PICK l \in Nat, c \in Nat : l = Line(i) /\ c = Column(i) /\ l + 1 \in 1 .. Rows /\ l >= 1
      /\ i = (l - 1) * Columns + c + 1
  <2>1. Line(i) \in 1 .. Rows /\ Column(i) \in 0 .. Columns - 1 /\ i = (Line(i) - 1) * Columns + Column(i) + 1
    BY CellOf
  <2>2. ASSUME NEW r \in 1 .. Rows, r # Rows PROVE r + 1 \in 1 .. Rows /\ r \in Nat /\ r >= 1
    BY <1>1, <2>2
  <2>3. ASSUME NEW d \in 0 .. Columns - 1 PROVE d \in Nat
    BY <1>1
  <2>4. /\ Line(i) + 1 \in 1 .. Rows /\ Line(i) \in Nat /\ Line(i) >= 1 /\ Column(i) \in Nat
    BY <2>1, <2>2, <2>3, Zenon
  <2>5. QED
    BY <2>1, <2>4
<1>3. PICK m \in 1 .. Rows : m = l + 1 /\ m - 1 = l
  BY <1>2
<1>4. (m - 1) * Columns + 0 + 1 \in Characters
      /\ Line((m - 1) * Columns + 0 + 1) = m /\ Column((m - 1) * Columns + 0 + 1) = 0
  <2>1. 0 \in 0 .. Columns - 1
    BY <1>1
  <2>2. QED
    BY <2>1, CellAt
<1>5. (m - 1) * Columns + 0 + 1 = i + 1
  <2>1. l * Columns = (l - 1) * Columns + Columns /\ (l - 1) * Columns \in Int
    BY <1>1, <1>2
  <2>2. QED
    BY <1>1, <1>2, <1>3, <2>1
<1>6. QED
  BY <1>2, <1>3, <1>4, <1>5

-----------------------------------------------------------------------------
(* What is cited in a part of the text, and in all of it.  The parts of      *)
(* Citation, if the names are read as they are:                              *)
End == Rows * Columns + 1
Numbers(seen) == {m \in seen : page.kinds[m] = "number"}
LastBefore(seen, k) == Max({m \in seen : m < k} \cup {0})
FirstAfter(seen, k) == Min({m \in seen \ Numbers(seen) : k < m} \cup {End})
EndOf(seen, k) ==
  IF FirstAfter(seen, k) \in Names THEN LastBefore(seen, FirstAfter(seen, k)) ELSE FirstAfter(seen, k)
BeginOf(seen, k) == IF LastBefore(seen, k) \in Numbers(seen) THEN LastBefore(seen, k) ELSE k
Cited(seen, n) ==
  {k \in seen \cap Names : /\ BeginOf(seen, k) <= n /\ n < EndOf(seen, k)
                           /\ \E m \in Numbers(seen) : k < m /\ m < FirstAfter(seen, k)}

(* The citation with these parts. *)
LEMMA CitationOf ==
  ASSUME NEW seen, NEW n
  PROVE  Citation(seen, Names, n) =
           IF Cited(seen, n) = {} THEN {}
           ELSE {m \in seen : BeginOf(seen, Min(Cited(seen, n))) <= m /\ m < EndOf(seen, Min(Cited(seen, n)))}
BY DEF Citation, Cited, BeginOf, EndOf, FirstAfter, LastBefore, Numbers, End

(* Characters are numbers up to the end. *)
LEMMA UpToEnd ==
  /\ End \in Nat /\ End >= 1 /\ End \notin Characters
  /\ \A i : i \in Characters <=> i \in Nat /\ 1 <= i /\ i < End
<1>1. PICK e \in Nat : e = Rows * Columns
  BY PageAssumption
<1>2. QED
  BY <1>1 DEF End, Characters

(* The character seen last before a place. *)
LEMMA BeforeIs ==
  ASSUME NEW seen \in SUBSET Characters, NEW k \in 1 .. End
  PROVE  /\ LastBefore(seen, k) \in Nat /\ LastBefore(seen, k) < k
         /\ LastBefore(seen, k) \in seen \/ LastBefore(seen, k) = 0
         /\ \A m \in seen : m < k => m <= LastBefore(seen, k)
<1> DEFINE T == {m \in seen : m < k} \cup {0}
<1>1. \A m \in seen : m \in Nat /\ 1 <= m /\ m < End
  BY UpToEnd
<1>2. End \in Nat /\ T \in SUBSET (0 .. End) /\ T # {}
  BY <1>1, UpToEnd
<1>3. LastBefore(seen, k) = Max(T)
  BY DEF LastBefore
<1>4. Max(T) \in T /\ \A y \in T : Max(T) >= y
  <2> HIDE DEF T
  <2>1. QED
    BY <1>2, MaxOfNumbers
<1>5. LastBefore(seen, k) \in T /\ \A y \in T : LastBefore(seen, k) >= y
  BY <1>3, <1>4, Zenon
<1>6. \A y \in T : y \in Nat
  BY <1>1
<1>7. QED
  BY <1>1, <1>5, <1>6

(* The character seen first behind one that is no number. *)
LEMMA AfterIs ==
  ASSUME NEW seen \in SUBSET Characters, NEW k \in Characters
  PROVE  /\ FirstAfter(seen, k) \in 1 .. End /\ k < FirstAfter(seen, k)
         /\ FirstAfter(seen, k) \in seen \ Numbers(seen) \/ FirstAfter(seen, k) = End
         /\ \A m \in seen : k < m /\ m < FirstAfter(seen, k) => m \in Numbers(seen)
         /\ \A m \in seen \ Numbers(seen) : k < m => FirstAfter(seen, k) <= m
<1> DEFINE T == {m \in seen \ Numbers(seen) : k < m} \cup {End}
<1>1. \A m \in seen : m \in Nat /\ 1 <= m /\ m < End
  BY UpToEnd
<1>2. End \in Nat /\ T \in SUBSET Nat /\ T # {}
  BY <1>1, UpToEnd
<1>3. FirstAfter(seen, k) = Min(T)
  BY DEF FirstAfter
<1>4. Min(T) \in T /\ \A y \in T : Min(T) <= y
  <2> HIDE DEF T
  <2>1. QED
    BY <1>2, MinOfNumbers
<1>5. FirstAfter(seen, k) \in T /\ \A y \in T : FirstAfter(seen, k) <= y
  BY <1>3, <1>4, Zenon
<1>6. k < End /\ k \in Nat /\ 1 <= k
  BY UpToEnd
<1>7. /\ FirstAfter(seen, k) \in 1 .. End /\ k < FirstAfter(seen, k)
      /\ FirstAfter(seen, k) \in seen \ Numbers(seen) \/ FirstAfter(seen, k) = End
  BY <1>1, <1>2, <1>5, <1>6
<1>8. \A m \in seen \ Numbers(seen) : k < m => FirstAfter(seen, k) <= m
  BY <1>5
<1>9. \A m \in seen : k < m /\ m < FirstAfter(seen, k) => m \in Numbers(seen)
  BY <1>1, <1>7, <1>8
<1>10. QED
  BY <1>7, <1>8, <1>9

(* The citations do not overlap: one ends where the number of the next book is. *)
LEMMA CitedOnce ==
  ASSUME NEW seen \in SUBSET Characters, NEW n \in Nat,
         NEW j \in Cited(seen, n), NEW k \in Cited(seen, n)
  PROVE  ~(j < k)
<1> SUFFICES ASSUME j < k PROVE FALSE
  OBVIOUS
<1>1. /\ j \in seen /\ j \in Names /\ k \in seen /\ k \in Names
      /\ n < EndOf(seen, j) /\ BeginOf(seen, k) <= n
  BY DEF Cited
<1>2. PICK m \in Numbers(seen) : j < m /\ m < FirstAfter(seen, j)
  BY DEF Cited
<1>3. k \in seen \ Numbers(seen) /\ m \in seen /\ seen \subseteq Characters
  BY <1>1 DEF Numbers, Names
<1>4. PICK a \in 1 .. End : a = FirstAfter(seen, j)
  BY <1>1, AfterIs
<1>5. PICK p \in Nat : p = LastBefore(seen, a)
  BY <1>4, BeforeIs
<1>6. PICK q \in Nat : q = LastBefore(seen, k)
  <2>1. k \in 1 .. End
    BY <1>1, UpToEnd
  <2>2. QED
    BY <2>1, BeforeIs
<1>7. /\ a <= k /\ (a \in seen \/ a = End) /\ (\A i \in seen : j < i /\ i < a => i \in Numbers(seen))
  BY <1>1, <1>3, <1>4, AfterIs
<1>8. p < a /\ p \in seen \cup {0} /\ m <= p
  BY <1>2, <1>3, <1>4, <1>5, BeforeIs
<1>9. q < k /\ \A i \in seen : i < k => i <= q
  <2>1. k \in 1 .. End
    BY <1>1, UpToEnd
  <2>2. QED
    BY <1>6, <2>1, BeforeIs
<1>10. \A i \in seen : i \in Nat /\ 1 <= i /\ i < End
  BY UpToEnd
<1>11. BeginOf(seen, k) = (IF q \in Numbers(seen) THEN q ELSE k) /\ EndOf(seen, j) = (IF a \in Names THEN p ELSE a)
  BY <1>4, <1>5, <1>6 DEF BeginOf, EndOf
<1>12. p \in seen /\ p \in Numbers(seen)
  BY <1>2, <1>3, <1>7, <1>8, <1>10
<1>13. a \in seen
  BY <1>3, <1>7, <1>10
<1>14. CASE a = k
  <2>1. q = p
    BY <1>5, <1>6, <1>14
  <2>2. QED
    BY <1>1, <1>11, <1>12, <1>14, <2>1
<1>15. CASE a < k
  <2>1. a <= q /\ q <= BeginOf(seen, k)
    BY <1>9, <1>11, <1>13, <1>15, <1>10, <1>1
  <2>2. EndOf(seen, j) <= a
    BY <1>8, <1>11
  <2>3. BeginOf(seen, k) \in Nat /\ EndOf(seen, j) \in Nat
    BY <1>11, <1>10, <1>1
  <2>4. QED
    BY <1>1, <2>1, <2>2, <2>3
<1>16. QED
  BY <1>7, <1>10, <1>3, <1>14, <1>15

(* A citation is that of one name. *)
LEMMA CitedBy ==
  ASSUME NEW seen \in SUBSET Characters, NEW n \in Nat, NEW k \in Cited(seen, n)
  PROVE  Citation(seen, Names, n) = {m \in seen : BeginOf(seen, k) <= m /\ m < EndOf(seen, k)}
<1>1. Cited(seen, n) \in SUBSET Nat /\ Cited(seen, n) # {}
  BY UpToEnd DEF Cited
<1>2. Min(Cited(seen, n)) \in Cited(seen, n)
  BY <1>1, MinOfNumbers
<1>3. Min(Cited(seen, n)) = k
  <2>1. PICK j \in Cited(seen, n) : j = Min(Cited(seen, n))
    BY <1>2
  <2>2. ~(j < k) /\ ~(k < j)
    BY CitedOnce
  <2>3. j \in Nat /\ k \in Nat
    BY <1>1
  <2>4. QED
    BY <2>1, <2>2, <2>3
<1>4. QED
  BY <1>1, <1>3, CitationOf

(* A citation whose neighbours are seen, and that ends before the number of a book only *)
(* if the name of the book is seen right behind it, is the same in the whole text.     *)
LEMMA CitationSame ==
  ASSUME NEW S \in SUBSET Characters, NEW n \in Nat, NEW c, c = Citation(S, Names, n), c # {},
         \A m \in c : m - 1 \in S /\ m + 1 \in S,
         \A l \in S, a \in S : l - 1 \in c /\ l < a => l + 1 \in S
  PROVE  Citation(Characters, Names, n) = c
<1>1. PICK k \in Cited(S, n) : TRUE
  BY CitationOf
<1>2. c = {m \in S : BeginOf(S, k) <= m /\ m < EndOf(S, k)}
  BY CitedBy
<1>3. k \in S /\ k \in Names /\ BeginOf(S, k) <= n /\ n < EndOf(S, k)
  BY DEF Cited
<1>4. PICK m \in Numbers(S) : k < m /\ m < FirstAfter(S, k)
  BY DEF Cited
<1>5. /\ \A i \in S : i \in Characters /\ i \in Nat /\ 1 <= i /\ i < End
      /\ \A i \in Numbers(S) : i \in S
      /\ k \in 1 .. End /\ k \in Nat /\ m \in Nat
  <2>1. \A i \in S : i \in Characters /\ i \in Nat /\ 1 <= i /\ i < End
    BY UpToEnd
  <2>2. \A i \in Numbers(S) : i \in S
    BY DEF Numbers
  <2>3. k \in 1 .. End /\ k \in Nat
    <3>1. \A i \in Nat : 1 <= i /\ i < End => i \in 1 .. End
      BY UpToEnd
    <3>2. QED
      BY <1>3, <2>1, <3>1
  <2>4. QED
    BY <2>1, <2>2, <2>3
<1>6. PICK a \in 1 .. End : a = FirstAfter(S, k)
  BY <1>3, AfterIs
<1>7. /\ k < a /\ (a \in S \ Numbers(S) \/ a = End)
      /\ \A i \in S : k < i /\ i < a => i \in Numbers(S)
  BY <1>3, <1>6, AfterIs
<1>8. PICK l \in Nat : l = LastBefore(S, a)
  BY <1>6, BeforeIs
<1>9. l < a /\ l \in S /\ m <= l /\ \A i \in S : i < a => i <= l
  <2>1. l < a /\ (l \in S \/ l = 0) /\ \A i \in S : i < a => i <= l
    BY <1>8, BeforeIs
  <2>2. m <= l /\ m >= 1
    BY <1>4, <1>5, <1>6, <2>1
  <2>3. QED
    BY <1>5, <2>1, <2>2
<1>10. PICK e \in Nat : e = EndOf(S, k) /\ e = IF a \in Names THEN l ELSE a
  BY <1>6, <1>8 DEF EndOf
<1>11. PICK b \in Nat : b = BeginOf(S, k) /\ b <= k
  <2>1. LastBefore(S, k) \in Nat /\ LastBefore(S, k) < k
    BY <1>5, BeforeIs
  <2>2. QED
    BY <1>5, <2>1 DEF BeginOf
<1>12. k < e /\ e <= a
  BY <1>4, <1>5, <1>7, <1>9, <1>10
<1>13. k \in c /\ \A i \in c : i \in S /\ i \in Nat
  BY <1>2, <1>3, <1>5, <1>10, <1>11, <1>12
\* All from the name on is seen.
<1>14. ASSUME NEW x \in Nat, k <= x, x < e PROVE x \in S
  <2> DEFINE T == {y \in Nat : k <= y /\ y < e /\ y \notin S}
  <2>1. SUFFICES ASSUME x \notin S PROVE FALSE
    OBVIOUS
  <2>2. T \in SUBSET Nat /\ T # {}
    BY <1>14, <2>1
  <2>3. PICK y \in T : \A z \in T : y <= z
    <3> HIDE DEF T
    <3>1. QED
      BY <2>2, MinOfNumbers
  <2>4. y \in Nat /\ k < y /\ y < e /\ y \notin S
    BY <1>3, <1>5, <2>3
  <2>5. y - 1 \in Nat /\ k <= y - 1 /\ y - 1 < e /\ ~(y <= y - 1)
    BY <1>5, <2>4
  <2>6. y - 1 \in S
    BY <2>3, <2>5
  <2>7. y - 1 \in c
    BY <1>2, <1>10, <1>11, <1>5, <2>5, <2>6
  <2>8. (y - 1) + 1 \in S
    BY <2>7
  <2>9. (y - 1) + 1 = y
    BY <2>4
  <2>10. QED
    BY <2>4, <2>8, <2>9
\* The character behind it is seen too, and so is the next that is no number.
<1>15. e - 1 \in c /\ e \in S
  <2>1. e - 1 \in Nat /\ k <= e - 1 /\ e - 1 < e /\ b <= e - 1
    BY <1>5, <1>11, <1>12
  <2>2. e - 1 \in S
    BY <1>14, <2>1
  <2>3. e - 1 \in c
    BY <1>2, <1>10, <1>11, <2>1, <2>2
  <2>4. (e - 1) + 1 \in S
    BY <2>3
  <2>5. (e - 1) + 1 = e
    OBVIOUS
  <2>6. QED
    BY <2>3, <2>4, <2>5
<1>16. a \in S \ Numbers(S) /\ \A x \in Nat : k <= x /\ x < a => x \in S
  <2>1. CASE a \notin Names
    <3>1. e = a
      BY <1>10, <2>1
    <3>2. a \in S
      BY <1>15, <3>1
    <3>3. QED
      BY <1>5, <1>7, <1>14, <3>1, <3>2
  <2>2. CASE a \in Names
    <3>1. e = l /\ a \in S /\ a \in Nat
      <4>1. a \in Characters
        BY <2>2 DEF Names
      <4>2. a # End
        BY <4>1, UpToEnd
      <4>3. QED
        BY <1>7, <1>10, <2>2, <4>2
    <3>2. l + 1 \in S
      BY <1>9, <1>15, <3>1
    <3>3. l + 1 = a
      BY <1>9, <3>1, <3>2
    <3>4. \A x \in Nat : k <= x /\ x < a => x < e \/ x = l
      BY <3>1, <3>3
    <3>5. QED
      BY <1>5, <1>7, <1>9, <1>14, <3>1, <3>4
  <2>3. QED
    BY <2>1, <2>2
\* Nothing of it is different in the whole text.
<1>17. Characters \in SUBSET Characters /\ \A i \in S : i \in Numbers(S) <=> i \in Numbers(Characters)
  BY DEF Numbers
<1>18. LastBefore(S, k) = k - 1 /\ LastBefore(Characters, k) = k - 1 /\ k - 1 \in S
  <2>1. k - 1 \in S
    BY <1>13
  <2>2. ASSUME NEW T \in SUBSET Characters, k - 1 \in T PROVE LastBefore(T, k) = k - 1
    <3>1. /\ LastBefore(T, k) \in Nat /\ LastBefore(T, k) < k
          /\ \A i \in T : i < k => i <= LastBefore(T, k)
      BY <1>5, BeforeIs
    <3>2. k - 1 < k /\ k - 1 \in Nat
      BY <1>5, <2>1
    <3>3. k - 1 <= LastBefore(T, k)
      BY <2>2, <3>1, <3>2
    <3>4. QED
      BY <1>5, <3>1, <3>2, <3>3
  <2>3. k - 1 \in Characters
    BY <1>5, <2>1
  <2>4. QED
    BY <1>17, <2>1, <2>2, <2>3
<1>19. BeginOf(Characters, k) = b /\ (b = k \/ b = k - 1)
  BY <1>11, <1>17, <1>18 DEF BeginOf
<1>20. FirstAfter(Characters, k) = a
  <2>1. PICK d \in 1 .. End : d = FirstAfter(Characters, k)
    BY <1>3, <1>5, <1>17, AfterIs
  <2>2. /\ k < d /\ (d \in Characters \ Numbers(Characters) \/ d = End)
        /\ \A i \in Characters \ Numbers(Characters) : k < i => d <= i
    BY <1>3, <1>5, <1>17, <2>1, AfterIs
  <2>3. a \in Characters \ Numbers(Characters)
    BY <1>5, <1>16, <1>17
  <2>4. d <= a
    BY <1>7, <2>2, <2>3
  <2>5. ~(d < a)
    <3>1. SUFFICES ASSUME d < a PROVE FALSE
      OBVIOUS
    <3>2. d \in Nat /\ k <= d /\ d < End /\ a <= End
      BY <1>5, <2>2, <3>1, UpToEnd
    <3>3. d \in S /\ d \notin Numbers(Characters)
      BY <1>16, <2>2, <3>1, <3>2
    <3>4. QED
      BY <1>7, <1>17, <2>2, <3>1, <3>3
  <2>6. QED
    BY <2>1, <2>4, <2>5, UpToEnd
<1>21. EndOf(Characters, k) = e
  <2>1. CASE a \notin Names
    BY <1>10, <1>20, <2>1 DEF EndOf
  <2>2. CASE a \in Names
    <3>1. /\ LastBefore(Characters, a) \in Nat /\ LastBefore(Characters, a) < a
          /\ \A i \in Characters : i < a => i <= LastBefore(Characters, a)
      BY <1>6, <1>17, BeforeIs
    <3>2. l <= LastBefore(Characters, a)
      BY <1>5, <1>9, <3>1
    <3>3. k <= LastBefore(Characters, a)
      BY <1>4, <1>5, <1>9, <3>1, <3>2
    <3>4. LastBefore(Characters, a) <= l
      BY <1>9, <1>16, <3>1, <3>3
    <3>5. LastBefore(Characters, a) = l
      BY <3>1, <3>2, <3>4
    <3>6. QED
      BY <1>10, <1>20, <2>2, <3>5 DEF EndOf
  <2>3. QED
    BY <2>1, <2>2
<1>22. k \in Cited(Characters, n)
  <2>1. m \in Numbers(Characters) /\ m < FirstAfter(Characters, k)
    BY <1>4, <1>5, <1>6, <1>17, <1>20
  <2>2. k \in Characters \cap Names /\ BeginOf(Characters, k) <= n /\ n < EndOf(Characters, k)
    BY <1>3, <1>5, <1>10, <1>11, <1>19, <1>21
  <2>3. QED
    BY <1>4, <2>1, <2>2 DEF Cited
<1>23. Citation(Characters, Names, n) = {i \in Characters : b <= i /\ i < e}
  BY <1>17, <1>19, <1>21, <1>22, CitedBy
<1>24. ASSUME NEW i \in Characters, b <= i, i < e PROVE i \in S
  <2>1. i \in Nat
    BY UpToEnd
  <2>2. k <= i \/ i = k - 1
    BY <1>5, <1>19, <1>24, <2>1
  <2>3. QED
    BY <1>14, <1>18, <1>24, <2>1, <2>2
<1>25. QED
  BY <1>2, <1>5, <1>10, <1>11, <1>23, <1>24

\* The characters around what is cited in a part of the text are in it too.
SeenWhole(S, n) ==
  /\ n \in Nat
  /\ Citation(S, Names, n) # {}
  /\ \A m \in Citation(S, Names, n) : m - 1 \in S /\ m + 1 \in S
  /\ \A l \in S, a \in S : l - 1 \in Citation(S, Names, n) /\ l < a => l + 1 \in S

(* Then nothing of it is different in the whole text. *)
LEMMA CitationWhole ==
  ASSUME NEW S \in SUBSET Characters, NEW n, SeenWhole(S, n)
  PROVE  Citation(Characters, Names, n) = Citation(S, Names, n)
<1> DEFINE c == Citation(S, Names, n)
<1>1. /\ n \in Nat /\ c = Citation(S, Names, n) /\ c # {}
  BY DEF SeenWhole
<1>2. \A m \in c : m - 1 \in S /\ m + 1 \in S
  BY DEF SeenWhole
<1>3. \A l \in S, a \in S : l - 1 \in c /\ l < a => l + 1 \in S
  BY DEF SeenWhole
<1> HIDE DEF c
<1>4. QED
  BY <1>1, <1>2, <1>3, CitationSame

-----------------------------------------------------------------------------
(* What is seen is a part of the lines and columns.                          *)

(* A character is seen if its box is in the area. *)
LEMMA SeenIs ==
  ASSUME NEW area \in Rectangles, NEW i \in Characters
  PROVE  i \in Seen(area) <=> /\ area.x <= Box[i].x /\ Box[i].x + CharWidth <= area.x + area.w
                              /\ area.y <= Box[i].y /\ Box[i].y + CharHeight <= area.y + area.h
<1>1. /\ Box[i].x \in Int /\ Box[i].y \in Int /\ Box[i].w = CharWidth /\ Box[i].h = CharHeight
      /\ CharWidth \in Nat \ {0} /\ CharHeight \in Nat \ {0}
  BY BoxOf, PageAssumption
<1>2. QED
  BY <1>1 DEF Seen, contains, IsEmpty, Rectangles

(* The boxes are in the order of the columns, and of the lines. *)
LEMMA BoxesOrdered ==
  ASSUME NEW i \in Characters, NEW j \in Characters
  PROVE  /\ Column(i) <= Column(j) => Box[i].x <= Box[j].x
         /\ Line(i) <= Line(j) => Box[i].y <= Box[j].y
<1>1. Column(i) \in Nat /\ Column(j) \in Nat /\ Line(i) \in Nat /\ Line(j) \in Nat
  BY Cells DEF Column
<1>2. CharWidth \in Nat /\ Pitch \in Nat /\ Box[i].x \in Int /\ Box[j].x \in Int /\ Box[i].y \in Int /\ Box[j].y \in Int
  BY BoxOf, PageAssumption
<1>3. /\ Column(i) < Column(j) => Box[i].x + CharWidth <= Box[j].x
      /\ Line(i) < Line(j) => Box[i].y + Pitch <= Box[j].y
      /\ Column(i) = Column(j) => Box[i].x = Box[j].x
      /\ Line(i) = Line(j) => Box[i].y = Box[j].y
  BY BoxesApart DEF Column
<1>4. QED
  BY <1>1, <1>2, <1>3

(* A character is seen if others are in columns and lines on either side of it. *)
LEMMA SeenBetween ==
  ASSUME NEW area \in Rectangles, NEW m \in Characters,
         NEW a \in Seen(area), NEW b \in Seen(area), NEW i \in Seen(area), NEW j \in Seen(area),
         Column(a) <= Column(m), Column(m) <= Column(b), Line(i) <= Line(m), Line(m) <= Line(j)
  PROVE  m \in Seen(area)
<1>1. a \in Characters /\ b \in Characters /\ i \in Characters /\ j \in Characters
  BY DEF Seen
<1>2. Box[a].x <= Box[m].x /\ Box[m].x <= Box[b].x /\ Box[i].y <= Box[m].y /\ Box[m].y <= Box[j].y
  BY <1>1, BoxesOrdered
<1>3. area.x <= Box[a].x /\ Box[b].x + CharWidth <= area.x + area.w
  BY <1>1, SeenIs
<1>4. area.y <= Box[i].y /\ Box[j].y + CharHeight <= area.y + area.h
  BY <1>1, SeenIs
<1>5. /\ Box[a].x \in Int /\ Box[b].x \in Int /\ Box[i].y \in Int /\ Box[j].y \in Int
      /\ Box[m].x \in Int /\ Box[m].y \in Int /\ CharWidth \in Nat /\ CharHeight \in Nat
      /\ area.x \in Int /\ area.y \in Int /\ area.w \in Nat /\ area.h \in Nat
  BY <1>1, BoxOf, PageAssumption DEF Rectangles
<1>6. QED
  BY <1>2, <1>3, <1>4, <1>5, SeenIs

(* All that is seen is read. *)
LEMMA AllRead ==
  ASSUME NEW area, Imaged(area), Seen(area) # {}
  PROVE  ReadIn(Paragraph) = Seen(area)
<1>1. PICK x \in Nat, y \in Nat, u \in Nat, v \in Nat :
        /\ Paragraph = Rect(x, y, u - x, v - y)
        /\ \E k \in Seen(area) : InImage(k).x = x
        /\ \E k \in Seen(area) : InImage(k).y = y
        /\ \E k \in Seen(area) : InImage(k).x + CharWidth = u
        /\ \E k \in Seen(area) : InImage(k).y + CharHeight = v
        /\ \A k \in Seen(area) : /\ x <= InImage(k).x /\ InImage(k).x + CharWidth <= u
                                /\ y <= InImage(k).y /\ InImage(k).y + CharHeight <= v
  BY ParagraphOf
<1>2. area.w \in Nat /\ area.h \in Nat /\ CharWidth \in Nat \ {0} /\ CharHeight \in Nat \ {0}
      /\ Seen(area) \subseteq Characters /\ image.area = area /\ image.seen = Seen(area)
  BY PageAssumption DEF Imaged, Rectangles, Seen
<1>3. \A k \in Seen(area) :
        /\ InImage(k).w = CharWidth /\ InImage(k).h = CharHeight
        /\ InImage(k).x \in Nat /\ InImage(k).y \in Nat
        /\ InImage(k).x + CharWidth \in 1 .. area.w /\ InImage(k).y + CharHeight \in 1 .. area.h
  BY <1>2, SeenFrom
<1>4. x < u /\ u <= area.w /\ y < v /\ v <= area.h
  BY <1>1, <1>2, <1>3
<1>5. RecognizedPart(Paragraph) = Rect(x, y, u - x, v - y)
  <2>1. RecognizedPart(Paragraph) = overlap(Rect(0, 0, area.w, area.h), Rect(x, y, u - x, v - y))
    BY <1>1, <1>2 DEF RecognizedPart
  <2>2. QED
    BY <1>2, <1>4, <2>1 DEF overlap, Rect, IsEmpty, Greater, Smaller
<1>6. ASSUME NEW k \in Seen(area) PROVE contains(Rect(x, y, u - x, v - y), InImage(k))
  <2>1. PICK a \in Nat, b \in Nat : a = InImage(k).x /\ b = InImage(k).y
    BY <1>3
  <2>2. x <= a /\ a + CharWidth <= u /\ y <= b /\ b + CharHeight <= v
    BY <1>1, <2>1
  <2>3. InImage(k).w = CharWidth /\ InImage(k).h = CharHeight
    BY <1>3
  <2>4. QED
    BY <1>2, <1>4, <2>1, <2>2, <2>3 DEF contains, Rect, IsEmpty
<1>7. QED
  BY <1>2, <1>5, <1>6 DEF ReadIn

(* A line of the image is one of the text: none between two that are seen is empty. *)
LEMMA LineOf ==
  ASSUME NEW area, Imaged(area), Seen(area) # {}
  PROVE  \E n \in Nat :
           /\ DOMAIN Lines = 1 .. n
           /\ \A k \in 1 .. n : \E i \in Seen(area) : Lines[k].y = InImage(i).y /\ Lines[k].h = CharHeight
<1>1. /\ area \in Rectangles /\ Seen(area) \subseteq Characters /\ image.seen = Seen(area) /\ image.area = area
      /\ area.w \in Nat /\ area.h \in Nat
  BY DEF Imaged, Seen, Rectangles
<1> DEFINE numbers == {Line(i) : i \in image.seen}
           row(l) == {i \in image.seen : Line(i) = l}
<1>2. Rows \in Nat /\ \A i \in Characters : Line(i) \in 1 .. Rows
  BY CellOf, PageAssumption
<1>3. numbers \in SUBSET Nat /\ numbers \in SUBSET (0 .. Rows) /\ numbers # {}
  BY <1>1, <1>2
<1>4. Min(numbers) \in numbers /\ Max(numbers) \in numbers /\ Min(numbers) <= Max(numbers)
  <2> HIDE DEF numbers
  <2>1. Min(numbers) \in numbers /\ \A z \in numbers : Min(numbers) <= z
    BY <1>3, MinOfNumbers
  <2>2. Max(numbers) \in numbers
    BY <1>2, <1>3, MaxOfNumbers
  <2>3. QED
    BY <2>1, <2>2
<1>5. PICK lo \in Seen(area), hi \in Seen(area) : Line(lo) = Min(numbers) /\ Line(hi) = Max(numbers)
  <2>1. \A l \in numbers : \E i \in Seen(area) : Line(i) = l
    BY <1>1
  <2> HIDE DEF numbers
  <2>2. QED
    BY <1>4, <2>1
<1>6. Lines = [n \in 1 .. Max(numbers) - Min(numbers) + 1 |-> hull({InImage(i) : i \in row(Min(numbers) + n - 1)})]
  BY DEF Lines
<1>7. PICK p \in Nat, q \in Nat : p = Min(numbers) /\ q = Max(numbers) /\ p <= q /\ 1 <= p /\ q <= Rows
  <2>1. \A l \in numbers : l \in 1 .. Rows
    BY <1>1, <1>2
  <2> HIDE DEF numbers
  <2>2. QED
    BY <1>2, <1>4, <2>1
<1>8. Lines = [n \in 1 .. q - p + 1 |-> hull({InImage(i) : i \in row(p + n - 1)})]
  BY <1>6, <1>7, Zenon
<1> HIDE DEF numbers
<1>9. ASSUME NEW k \in 1 .. q - p + 1
      PROVE  \E i \in Seen(area) : Lines[k].y = InImage(i).y /\ Lines[k].h = CharHeight
  <2>1. PICK l \in 1 .. Rows : l = p + k - 1 /\ p <= l /\ l <= q
    BY <1>2, <1>7
  <2>2. Column(lo) \in 0 .. Columns - 1 /\ lo \in Characters /\ hi \in Characters
    BY <1>1, CellOf
  <2>3. PICK m \in Characters : Line(m) = l /\ Column(m) = Column(lo)
    BY <2>2, CellAt
  <2>4. m \in Seen(area)
    <3>1. Column(lo) <= Column(m) /\ Column(m) <= Column(lo) /\ Line(lo) <= Line(m) /\ Line(m) <= Line(hi)
      BY <1>5, <1>7, <2>1, <2>2, <2>3
    <3>2. QED
      BY <1>1, <3>1, SeenBetween
  <2> DEFINE rects == {InImage(i) : i \in row(l)}
  <2>5. m \in row(l) /\ row(l) \subseteq Seen(area)
    BY <1>1, <2>3, <2>4
  <2>6. /\ \A i \in row(l) : /\ InImage(i).x \in Nat /\ InImage(i).y \in Nat
                            /\ InImage(i).w = CharWidth /\ InImage(i).h = CharHeight
                            /\ InImage(i).x + CharWidth \in 1 .. area.w /\ InImage(i).y + CharHeight \in 1 .. area.h
                            /\ InImage(i).y = InImage(m).y
    <3>1. ASSUME NEW i \in row(l)
          PROVE  /\ InImage(i).x \in Nat /\ InImage(i).y \in Nat
                 /\ InImage(i).w = CharWidth /\ InImage(i).h = CharHeight
                 /\ InImage(i).x + CharWidth \in 1 .. area.w /\ InImage(i).y + CharHeight \in 1 .. area.h
                 /\ InImage(i).y = InImage(m).y
      <4>1. i \in Characters /\ i \in Seen(area) /\ Line(i) = Line(m)
        BY <1>1, <2>3
      <4>2. Box[i].y = Box[m].y
        BY <4>1, BoxesApart
      <4>3. InImage(i).y = InImage(m).y
        BY <4>1, <4>2, SeenFrom
      <4>4. QED
        BY <4>1, <4>3, SeenFrom
    <3> HIDE DEF row
    <3>2. QED
      BY <3>1
  <2>7. /\ rects # {}
        /\ \A r \in rects : /\ r.x \in Nat /\ r.y \in Nat /\ r.x + r.w \in 1 .. area.w /\ r.y + r.h \in 1 .. area.h
                            /\ r.y = InImage(m).y /\ r.h = CharHeight
    <3> HIDE DEF row
    <3>1. QED
      BY <2>5, <2>6
  <2>8. PICK x \in Nat, y \in Nat, u \in Nat, v \in Nat :
          /\ hull(rects) = Rect(x, y, u - x, v - y)
          /\ \E r \in rects : r.x = x
          /\ \E r \in rects : r.y = y
          /\ \E r \in rects : r.x + r.w = u
          /\ \E r \in rects : r.y + r.h = v
          /\ \A r \in rects : x <= r.x /\ y <= r.y /\ r.x + r.w <= u /\ r.y + r.h <= v
    <3> HIDE DEF rects
    <3>1. QED
      BY <1>1, <2>7, HullOf
  <2>9. y = InImage(m).y /\ v = y + CharHeight
    <3> HIDE DEF rects
    <3>1. QED
      BY <2>7, <2>8
  <2>10. Lines[k] = hull(rects)
    BY <1>8, <2>1
  <2>11. Lines[k].y = y /\ Lines[k].h = v - y
    BY <2>8, <2>10 DEF Rect
  <2>12. v - y = CharHeight
    BY <2>9, PageAssumption
  <2>13. QED
    BY <2>4, <2>9, <2>11, <2>12
<1>10. q - p + 1 \in Nat /\ DOMAIN Lines = 1 .. q - p + 1
  BY <1>7, <1>8
<1>11. QED
  BY <1>9, <1>10

(* The line of the cursor has the height of a character, and the cursor is in it. *)
LEMMA CursorLineOf ==
  ASSUME NEW area, Imaged(area), Seen(area) # {}, cursor \in Int \X Int, CursorLine(Lines, Relative(area)) # 0
  PROVE  /\ Lines[CursorLine(Lines, Relative(area))].h = CharHeight
         /\ \E i \in Seen(area) : Box[i].y <= cursor[2] /\ cursor[2] < Box[i].y + CharHeight
<1>1. PICK n \in Nat :
        /\ DOMAIN Lines = 1 .. n
        /\ \A k \in 1 .. n : \E i \in Seen(area) : Lines[k].y = InImage(i).y /\ Lines[k].h = CharHeight
  BY LineOf
<1> DEFINE T == {0} \cup {i \in DOMAIN Lines : contains_point(Lines[i], Relative(area))}
<1>2. T \in SUBSET (0 .. n) /\ T # {}
  BY <1>1
<1>3. CursorLine(Lines, Relative(area)) = Max(T)
  BY DEF CursorLine
<1>4. Max(T) \in T
  <2> HIDE DEF T
  <2>1. QED
    BY <1>2, MaxOfNumbers
<1>5. PICK k \in 1 .. n : k = CursorLine(Lines, Relative(area)) /\ contains_point(Lines[k], Relative(area))
  <2>1. CursorLine(Lines, Relative(area)) \in T
    BY <1>3, <1>4, Zenon
  <2>2. QED
    BY <1>1, <2>1
<1>6. PICK i \in Seen(area) : Lines[k].y = InImage(i).y /\ Lines[k].h = CharHeight
  BY <1>1
<1>7. i \in Characters /\ area.x \in Int /\ area.y \in Int
  BY DEF Seen, Imaged, Rectangles
<1>8. InImage(i).y = Box[i].y - area.y /\ Box[i].y \in Int
  BY <1>7, SeenFrom, BoxOf
<1>9. Lines[k].y <= cursor[2] - area.y /\ cursor[2] - area.y < Lines[k].y + Lines[k].h
  BY <1>5 DEF contains_point, Relative
<1>10. PICK py \in Int : py = cursor[2]
  OBVIOUS
<1>11. Box[i].y <= py /\ py < Box[i].y + CharHeight
  BY <1>6, <1>7, <1>8, <1>9, <1>10, PageAssumption
<1>12. QED
  BY <1>5, <1>6, <1>10, <1>11

(* What the margins of a valid area are for: the characters around a citation are seen, *)
(* and the beginning of the next line if it goes on there.                              *)
LEMMA ValidMargins ==
  ASSUME NEW area, Imaged(area), Seen(area) # {}, cursor \in Int \X Int,
         NEW c \in SUBSET Seen(area), c # {}, ~AtBorder(c), NEW read, read = c \/ read = {},
         is_valid_capture_area(Relative(area), Rect(0, 0, area.w, area.h), Paragraph, Lines,
                               {InImage(i) : i \in read})
  PROVE  /\ \A m \in c : /\ m - 1 \in Seen(area) /\ Line(m - 1) = Line(m)
                         /\ m + 1 \in Seen(area) /\ Line(m + 1) = Line(m)
         /\ \A l \in Seen(area), a \in Seen(area) : l - 1 \in c /\ l < a => l + 1 \in Seen(area)
         /\ \E i \in Seen(area) : Box[i].y <= cursor[2] /\ cursor[2] < Box[i].y + CharHeight
<1>1. PICK x \in Nat, y \in Nat, u \in Nat, v \in Nat :
        /\ Paragraph = Rect(x, y, u - x, v - y)
        /\ \E k \in Seen(area) : InImage(k).x = x
        /\ \E k \in Seen(area) : InImage(k).y = y
        /\ \E k \in Seen(area) : InImage(k).x + CharWidth = u
        /\ \E k \in Seen(area) : InImage(k).y + CharHeight = v
        /\ \A k \in Seen(area) : /\ x <= InImage(k).x /\ InImage(k).x + CharWidth <= u
                                /\ y <= InImage(k).y /\ InImage(k).y + CharHeight <= v
  BY ParagraphOf
<1>2. PICK W \in Nat \ {0}, H \in Nat \ {0} : W = CharWidth /\ H = CharHeight /\ W <= 2 * H
  BY PageAssumption, LayoutAssumption
<1>3. /\ area \in Rectangles /\ area.x \in Int /\ area.y \in Int /\ area.w \in Nat /\ area.h \in Nat
      /\ Seen(area) \subseteq Characters /\ Characters \subseteq Nat
  BY UpToEnd DEF Imaged, Rectangles, Seen
<1>4. PICK k : k = CursorLine(Lines, Relative(area))
  OBVIOUS
<1>5. k # 0 /\ Lines[k].h = H
      /\ \E i \in Seen(area) : Box[i].y <= cursor[2] /\ cursor[2] < Box[i].y + CharHeight
  <2>1. k # 0
    BY <1>4 DEF is_valid_capture_area
  <2>2. QED
    BY <1>2, <1>4, <2>1, CursorLineOf
\* The paragraph is inside by the margin.
<1> DEFINE borders == 2 * H < x /\ u + 2 * H < area.w
<1>6. /\ borders \/ (read # {} /\ \A i \in read : InImage(i).x + InImage(i).w + 2 * H < u)
      /\ \A i \in read : /\ 0 <= InImage(i).x - 2 * H
                         /\ InImage(i).x - 2 * H + (InImage(i).w + 4 * H) <= area.w
  <2> DEFINE boxes == {InImage(i) : i \in read}
             within == prev_and_next_lines_within_bounds(Lines, k, Rect(0, 0, area.w, area.h))
             p == Paragraph
             r == Rect(0, 0, area.w, area.h)
  <2>1. /\ \/ boxes # {} /\ \A b \in boxes : right(b) + horizontal_margin(H) < right(p)
           \/ paragraph_within_bounds(p, r, horizontal_margin(H)) /\ within
        /\ \A b \in boxes : contains(r, Widened(b, H))
    BY <1>4, <1>5, Zenon DEF is_valid_capture_area
  <2>2. p.x = x /\ p.w = u - x /\ r.x = 0 /\ r.w = area.w
    BY <1>1 DEF Rect
  <2>3. x + (u - x) = u /\ 0 + area.w = area.w /\ 0 + 2 * H = 2 * H
    BY <1>3
  <2>4. horizontal_margin(H) = 2 * H
    BY DEF horizontal_margin
  <2>5. right(p) = u /\ left(p) = x /\ left(r) = 0 /\ right(r) = area.w
    BY <2>2, <2>3 DEF right, left
  <2>6. paragraph_within_bounds(p, r, horizontal_margin(H)) => borders
    BY <2>3, <2>4, <2>5 DEF paragraph_within_bounds
  <2>7. \A b \in boxes : right(b) = b.x + b.w
    BY DEF right
  <2>8. \A b \in boxes : /\ Widened(b, H).x = b.x - 2 * H
                         /\ Widened(b, H).w = b.w + 2 * (2 * H)
    BY <2>4 DEF Widened, Rect
  <2>9. ASSUME NEW b \in boxes
        PROVE  0 <= b.x - 2 * H /\ b.x - 2 * H + (b.w + 2 * (2 * H)) <= area.w
    <3>1. contains(r, Widened(b, H))
      BY <2>1
    <3>2. r.x <= Widened(b, H).x /\ Widened(b, H).x + Widened(b, H).w <= r.x + r.w
      BY <3>1 DEF contains
    <3>3. QED
      BY <2>2, <2>3, <2>8, <3>2
  <2>10. 2 * (2 * H) = 4 * H
    OBVIOUS
  <2>11. \A i \in read : InImage(i) \in boxes
    OBVIOUS
  <2>12. read = {} => boxes = {}
    OBVIOUS
  <2> HIDE DEF boxes, within, p, r
  <2>13. QED
    BY <2>1, <2>4, <2>5, <2>6, <2>7, <2>9, <2>10, <2>11, <2>12
<1>7. ASSUME NEW i \in Characters
      PROVE  /\ InImage(i).x = Box[i].x - area.x /\ InImage(i).w = W /\ Box[i].x \in Int /\ Box[i].y \in Int
             /\ InImage(i).x \in Int
             /\ i \in Seen(area) <=> /\ 0 <= InImage(i).x /\ InImage(i).x + W <= area.w
                                     /\ area.y <= Box[i].y /\ Box[i].y + H <= area.y + area.h
  <2>1. /\ InImage(i).x = Box[i].x - area.x /\ InImage(i).w = W /\ Box[i].x \in Int /\ Box[i].y \in Int
    BY <1>2, BoxOf, SeenFrom
  <2>2. i \in Seen(area) <=> /\ area.x <= Box[i].x /\ Box[i].x + CharWidth <= area.x + area.w
                             /\ area.y <= Box[i].y /\ Box[i].y + CharHeight <= area.y + area.h
    BY <1>3, SeenIs
  <2>3. QED
    BY <1>2, <1>3, <2>1, <2>2
\* Each character that is cited is inside by the margin.
<1>8. ASSUME NEW m \in c PROVE 2 * H <= InImage(m).x /\ InImage(m).x + W + 2 * H <= area.w
  <2>1. m \in Seen(area) /\ m \in Characters
    BY <1>3
  <2>2. InImage(m).w = W /\ InImage(m).x \in Int
    BY <1>7, <2>1
  <2>3. CASE read = c
    BY <1>3, <1>6, <2>2, <2>3
  <2>4. CASE read = {}
    <3>1. borders /\ x <= InImage(m).x /\ InImage(m).x + W <= u
      BY <1>1, <1>2, <1>6, <2>1, <2>4
    <3>2. QED
      BY <1>3, <2>2, <3>1
  <2>5. QED
    BY <2>3, <2>4
<1>9. ASSUME NEW m \in c PROVE Column(m) # 0 /\ Column(m) + 1 # Columns /\ m \in Characters /\ m \in Seen(area)
  <2>1. m \in Characters /\ m \in Seen(area)
    BY <1>3
  <2>2. m % Columns \notin {0, 1}
    BY DEF AtBorder
  <2>3. m % Columns = IF Column(m) + 1 = Columns THEN 0 ELSE Column(m) + 1
    BY <2>1, CellOf
  <2>4. Column(m) + 1 # Columns
    BY <2>2, <2>3
  <2>5. Column(m) # 0
    BY <2>2, <2>3, <2>4
  <2>6. QED
    BY <2>1, <2>4, <2>5
<1>10. ASSUME NEW m \in c
       PROVE  /\ m - 1 \in Seen(area) /\ Line(m - 1) = Line(m)
              /\ m + 1 \in Seen(area) /\ Line(m + 1) = Line(m) /\ Column(m + 1) = Column(m) + 1
  <2>1. /\ m - 1 \in Characters /\ Line(m - 1) = Line(m)
        /\ Box[m - 1].x = Box[m].x - W /\ Box[m - 1].y = Box[m].y
    BY <1>2, <1>9, LastInLine
  <2>2. /\ m + 1 \in Characters /\ Line(m + 1) = Line(m) /\ Column(m + 1) = Column(m) + 1
        /\ Box[m + 1].x = Box[m].x + W /\ Box[m + 1].y = Box[m].y
    BY <1>2, <1>9, NextInLine
  <2>3. PICK a \in Int, b \in Int : a = InImage(m).x /\ a = Box[m].x - area.x /\ b = Box[m].y /\ Box[m].x \in Int
    BY <1>7, <1>9
  <2>4. 2 * H <= a /\ a + W + 2 * H <= area.w /\ area.y <= b /\ b + H <= area.y + area.h
    BY <1>7, <1>8, <1>9, <2>3
  <2>5. InImage(m - 1).x = a - W /\ InImage(m + 1).x = a + W
    <3>1. InImage(m - 1).x = (Box[m].x - W) - area.x
      BY <1>7, <2>1
    <3>2. InImage(m + 1).x = (Box[m].x + W) - area.x
      BY <1>7, <2>2
    <3>3. QED
      BY <1>3, <2>3, <3>1, <3>2
  <2>6. 0 <= a - W /\ a - W + W <= area.w /\ 0 <= a + W /\ a + W + W <= area.w
    BY <1>2, <1>3, <2>4
  <2>7. m - 1 \in Seen(area)
    BY <1>7, <2>1, <2>3, <2>4, <2>5, <2>6
  <2>8. m + 1 \in Seen(area)
    BY <1>7, <2>2, <2>3, <2>4, <2>5, <2>6
  <2>9. QED
    BY <2>1, <2>2, <2>7, <2>8
\* The character behind the one that follows a citation.
<1>11. ASSUME NEW l \in Seen(area), NEW a \in Seen(area), l - 1 \in c, l < a
       PROVE  l + 1 \in Seen(area)
  <2>1. l \in Characters /\ a \in Characters /\ l \in Nat /\ a \in Nat
    BY <1>3
  <2>2. PICK m \in c : m = l - 1 /\ m + 1 = l
    BY <1>11, <2>1
  <2>3. m \in Characters /\ m \in Seen(area) /\ Line(l) = Line(m) /\ Column(l) = Column(m) + 1
    BY <1>9, <1>10, <2>2
  <2>4. /\ InImage(l).x = InImage(m).x + W /\ InImage(l).x \in Int
    <3>1. Box[l].x = Box[m].x + W
      BY <1>2, <1>9, <2>2, NextInLine
    <3>2. InImage(l).x = Box[l].x - area.x /\ InImage(m).x = Box[m].x - area.x /\ Box[m].x \in Int
      BY <1>7, <2>1, <2>3
    <3>3. QED
      BY <1>2, <1>3, <3>1, <3>2
  <2>5. PICK b \in Seen(area) : InImage(b).x + W = u
    BY <1>1, <1>2
  <2>6. b \in Characters /\ InImage(b).x \in Int
    BY <1>3, <1>7
  <2>7. /\ Column(l) \in 0 .. Columns - 1 /\ Column(b) \in 0 .. Columns - 1 /\ Columns \in Nat
        /\ Line(l) \in 1 .. Rows /\ Line(a) \in 1 .. Rows /\ Rows \in Nat
    BY <2>1, <2>6, CellOf, PageAssumption
  \* There is a column seen after that of l, or the paragraph is inside by the margin.
  <2>8. Column(l) < Column(b) \/ borders
    <3>1. SUFFICES ASSUME ~borders PROVE Column(l) < Column(b)
      OBVIOUS
    <3>2. m \in read /\ InImage(m).x + InImage(m).w + 2 * H < u
      BY <1>6, <3>1
    <3>3. InImage(l).x < InImage(b).x
      <4>1. InImage(m).w = W /\ InImage(m).x \in Int
        BY <1>7, <2>3
      <4>2. QED
        BY <1>2, <2>4, <2>5, <2>6, <3>2, <4>1
    <3>4. Box[l].x < Box[b].x /\ Box[l].x \in Int /\ Box[b].x \in Int
      BY <1>3, <1>7, <2>1, <2>6, <3>3
    <3>5. ~(Column(b) <= Column(l))
      BY <2>1, <2>6, <3>4, BoxesOrdered
    <3>6. QED
      BY <2>7, <3>5
  <2>9. CASE Column(l) + 1 # Columns
    <3>1. /\ l + 1 \in Characters /\ Line(l + 1) = Line(l) /\ Column(l + 1) = Column(l) + 1
          /\ Box[l + 1].x = Box[l].x + W /\ Box[l + 1].y = Box[l].y
      BY <1>2, <2>1, <2>9, NextInLine
    <3>2. CASE Column(l) < Column(b)
      <4>1. Column(l) <= Column(l + 1) /\ Column(l + 1) <= Column(b)
            /\ Line(l) <= Line(l + 1) /\ Line(l + 1) <= Line(l)
        BY <2>7, <3>1, <3>2
      <4>2. QED
        BY <1>3, <3>1, <4>1, SeenBetween
    <3>3. CASE borders
      <4>1. PICK d \in Int : d = InImage(l).x /\ d = Box[l].x - area.x /\ Box[l].x \in Int
        BY <1>7, <2>1
      <4>2. d + W <= u /\ 0 <= d /\ area.y <= Box[l].y /\ Box[l].y + H <= area.y + area.h
        BY <1>1, <1>2, <1>7, <2>1, <4>1
      <4>3. InImage(l + 1).x = d + W
        BY <1>3, <1>7, <3>1, <4>1
      <4>4. 0 <= d + W /\ d + W + W <= area.w
        BY <1>2, <1>3, <3>3, <4>2
      <4>5. QED
        BY <1>7, <3>1, <4>2, <4>3, <4>4
    <3>4. QED
      BY <2>8, <3>2, <3>3
  <2>10. CASE Column(l) + 1 = Columns
    <3>1. ~(Column(l) < Column(b)) /\ borders
      BY <2>7, <2>8, <2>10
    <3>2. PICK z \in Seen(area) : InImage(z).x = x
      BY <1>1
    <3>3. z \in Characters
      BY <1>3
    <3>4. Column(z) = 0
      <4>1. SUFFICES ASSUME Column(z) # 0 PROVE FALSE
        OBVIOUS
      <4>2. /\ z - 1 \in Characters /\ Box[z - 1].x = Box[z].x - W /\ Box[z - 1].y = Box[z].y
        BY <1>2, <3>3, <4>1, LastInLine
      <4>3. InImage(z - 1).x = x - W
        BY <1>3, <1>7, <3>2, <3>3, <4>2
      <4>4. x + W <= area.w /\ area.y <= Box[z].y /\ Box[z].y + H <= area.y + area.h
        BY <1>7, <3>2, <3>3
      <4>5. 0 <= x - W /\ x - W + W <= area.w
        BY <1>2, <1>3, <3>1, <4>4
      <4>6. z - 1 \in Seen(area)
        BY <1>7, <4>2, <4>3, <4>4, <4>5
      <4>7. x <= x - W
        BY <1>1, <4>3, <4>6
      <4>8. QED
        BY <1>2, <4>7
    <3>5. Line(l) < Line(a)
      <4>1. Column(a) \in 0 .. Columns - 1
        BY <2>1, CellOf
      <4>2. ~(Column(l) < Column(a))
        BY <2>7, <2>10, <4>1
      <4>3. ~(Line(a) < Line(l))
        BY <1>11, <2>1, Order
      <4>4. Line(a) # Line(l)
        BY <1>11, <2>1, <4>2, Order
      <4>5. QED
        BY <2>7, <4>3, <4>4
    <3>6. l + 1 \in Characters /\ Line(l + 1) = Line(l) + 1 /\ Column(l + 1) = 0
      <4>1. Line(l) # Rows
        BY <2>7, <3>5
      <4>2. QED
        BY <2>1, <2>10, <4>1, NextLine
    <3>7. /\ Column(z) <= Column(l + 1) /\ Column(l + 1) <= Column(z)
          /\ Line(l) <= Line(l + 1) /\ Line(l + 1) <= Line(a)
      BY <2>7, <3>4, <3>5, <3>6
    <3>8. QED
      BY <1>3, <3>6, <3>7, SeenBetween
  <2>11. QED
    BY <2>9, <2>10
<1>12. QED
  BY <1>5, <1>10, <1>11

-----------------------------------------------------------------------------
(* The nearest character.                                                    *)

(* Nearest finds the first of the nearest boxes. *)
LEMMA NearestOf ==
  ASSUME NEW S \in SUBSET Nat, S # {}, NEW boxes, DOMAIN boxes = S, NEW p,
         \A k \in S : Distance(boxes[k], p) \in Nat
  PROVE  /\ Nearest(boxes, p) \in S
         /\ \A k \in S : /\ Distance(boxes[Nearest(boxes, p)], p) <= Distance(boxes[k], p)
                         /\ k < Nearest(boxes, p) => Distance(boxes[Nearest(boxes, p)], p) < Distance(boxes[k], p)
<1> DEFINE D == {Distance(boxes[k], p) : k \in DOMAIN boxes}
           least == Min(D)
           T == {k \in DOMAIN boxes : Distance(boxes[k], p) = least}
<1>1. D \in SUBSET Nat /\ D # {}
  OBVIOUS
<1>2. least \in D /\ \A z \in D : least <= z
  <2> HIDE DEF D
  <2>1. QED
    BY <1>1, MinOfNumbers
<1>3. PICK d \in Nat : d = least /\ (\E k \in S : Distance(boxes[k], p) = d) /\ \A k \in S : d <= Distance(boxes[k], p)
  BY <1>2
<1>4. T = {k \in S : Distance(boxes[k], p) = d}
  BY <1>3
<1>5. Nearest(boxes, p) = Min(T)
  BY DEF Nearest
<1> HIDE DEF T
<1>6. T \in SUBSET Nat /\ T # {}
  BY <1>3, <1>4
<1>7. PICK n \in T : n = Nearest(boxes, p) /\ \A k \in T : n <= k
  BY <1>5, <1>6, MinOfNumbers
<1>8. n \in S /\ Distance(boxes[n], p) = d
  BY <1>4
<1>9. ASSUME NEW k \in S, k < n PROVE d < Distance(boxes[k], p)
  <2>1. k \notin T
    BY <1>7, <1>8, <1>9
  <2>2. QED
    BY <1>3, <1>4, <2>1
<1>10. QED
  BY <1>3, <1>7, <1>8, <1>9

(* A box is the nearest one if none is nearer, and none as near before it. *)
LEMMA NearestFirst ==
  ASSUME NEW S \in SUBSET Nat, NEW boxes, DOMAIN boxes = S, NEW p, NEW n \in S,
         \A k \in S : Distance(boxes[k], p) \in Nat,
         \A k \in S : /\ Distance(boxes[n], p) <= Distance(boxes[k], p)
                      /\ k < n => Distance(boxes[n], p) < Distance(boxes[k], p)
  PROVE  Nearest(boxes, p) = n
<1>1. PICK m \in S :
        /\ m = Nearest(boxes, p)
        /\ \A k \in S : /\ Distance(boxes[m], p) <= Distance(boxes[k], p)
                        /\ k < m => Distance(boxes[m], p) < Distance(boxes[k], p)
  BY NearestOf
<1>2. Distance(boxes[m], p) <= Distance(boxes[n], p) /\ Distance(boxes[n], p) <= Distance(boxes[m], p)
      /\ (n < m => Distance(boxes[m], p) < Distance(boxes[n], p))
      /\ (m < n => Distance(boxes[n], p) < Distance(boxes[m], p))
      /\ Distance(boxes[m], p) \in Nat /\ Distance(boxes[n], p) \in Nat
  BY <1>1
<1>3. ~(n < m) /\ ~(m < n)
  BY <1>2
<1>4. QED
  BY <1>1, <1>3

(* A number is no farther from another than what is one step, or more, beyond, if it is *)
(* no farther than what is one step beyond.                                             *)
LEMMA FartherOn ==
  ASSUME NEW x \in Int, NEW w \in Nat \ {0}, NEW u \in Nat, u >= w
  PROVE  /\ x * x <= (x + w) * (x + w) => x * x <= (x + u) * (x + u)
         /\ x * x < (x - w) * (x - w) => x * x < (x - u) * (x - u)
<1>1. PICK m \in Nat : (m = x \/ m = -x) /\ -m <= x /\ x <= m
  <2>1. x \in Nat \/ -x \in Nat
    OBVIOUS
  <2>2. QED
    BY <2>1
<1>2. ASSUME NEW e \in Int, e >= m \/ e <= -m PROVE x * x <= e * e
  BY <1>1, <1>2, SquareBeyond
<1>3. ASSUME NEW e \in Int, e > m \/ e < -m PROVE x * x < e * e
  BY <1>1, <1>3, SquareBeyond
<1>4. ASSUME NEW e \in Int, -m <= e, e <= m PROVE e * e <= x * x
  BY <1>1, <1>4, SquareBeyond
<1>5. ASSUME NEW e \in Int, -m < e, e < m PROVE e * e < x * x
  <2>1. m - 1 \in Nat /\ -(m - 1) <= e /\ e <= m - 1 /\ (x > m - 1 \/ x < -(m - 1))
    BY <1>1, <1>5
  <2>2. QED
    BY <2>1, SquareBeyond
<1>6. ASSUME x * x <= (x + w) * (x + w) PROVE x * x <= (x + u) * (x + u)
  <2>1. PICK e \in Int : e = x + w /\ x * x <= e * e
    BY <1>6
  <2>2. PICK f \in Int : f = x + u
    OBVIOUS
  <2>3. ~(-m < e /\ e < m)
    <3>1. SUFFICES ASSUME -m < e, e < m PROVE FALSE
      OBVIOUS
    <3>2. e * e < x * x
      BY <1>5, <3>1
    <3>3. e * e \in Int /\ x * x \in Int
      OBVIOUS
    <3>4. QED
      BY <2>1, <3>2, <3>3
  <2>4. f >= m \/ f <= -m
    BY <1>1, <2>1, <2>2, <2>3
  <2>5. x * x <= f * f
    BY <1>2, <2>4
  <2>6. QED
    BY <2>2, <2>5
<1>7. ASSUME x * x < (x - w) * (x - w) PROVE x * x < (x - u) * (x - u)
  <2>1. PICK e \in Int : e = x - w /\ x * x < e * e
    BY <1>7
  <2>2. PICK f \in Int : f = x - u
    OBVIOUS
  <2>3. ~(-m <= e /\ e <= m)
    <3>1. SUFFICES ASSUME -m <= e, e <= m PROVE FALSE
      OBVIOUS
    <3>2. e * e <= x * x
      BY <1>4, <3>1
    <3>3. e * e \in Int /\ x * x \in Int
      OBVIOUS
    <3>4. QED
      BY <2>1, <3>2, <3>3
  <2>4. f > m \/ f < -m
    BY <1>1, <2>1, <2>2, <2>3
  <2>5. x * x < f * f
    BY <1>3, <2>4
  <2>6. QED
    BY <2>2, <2>5
<1>8. QED
  BY <1>6, <1>7

\* How far a character is from the cursor, along the line and across the lines.
Along(i) == Box[i].x + CharWidth \div 2 - cursor[1]
Across(i) == Box[i].y + CharHeight \div 2 - cursor[2]

(* The distance along the line and across. *)
LEMMA DistanceOf ==
  ASSUME cursor \in Int \X Int, NEW i \in Characters
  PROVE  /\ Along(i) \in Int /\ Across(i) \in Int
         /\ Along(i) * Along(i) \in Nat /\ Across(i) * Across(i) \in Nat
         /\ Distance(Box[i], cursor) = Along(i) * Along(i) + Across(i) * Across(i)
         /\ Distance(Box[i], cursor) \in Nat
<1>1. Box[i].x \in Int /\ Box[i].y \in Int /\ Box[i].w = CharWidth /\ Box[i].h = CharHeight
  BY BoxOf
<1>2. CharWidth \div 2 \in Int /\ CharHeight \div 2 \in Int /\ cursor[1] \in Int /\ cursor[2] \in Int
  BY PageAssumption
<1>3. Along(i) \in Int /\ Across(i) \in Int
  BY <1>1, <1>2 DEF Along, Across
<1>4. Along(i) * Along(i) \in Nat /\ Across(i) * Across(i) \in Nat
  <2>1. PICK a \in Int, b \in Int : a = Along(i) /\ b = Across(i)
    BY <1>3
  <2>2. a * a \in Nat /\ b * b \in Nat
    BY SquareBeyond
  <2>3. QED
    BY <2>1, <2>2
<1>5. Distance(Box[i], cursor) = Along(i) * Along(i) + Across(i) * Across(i)
  BY <1>1 DEF Distance, Along, Across
<1>6. QED
  BY <1>3, <1>4, <1>5

(* The line of the cursor is nearer than any other. *)
LEMMA LineNearest ==
  ASSUME cursor \in Int \X Int, NEW r \in Characters,
         Box[r].y <= cursor[2], cursor[2] < Box[r].y + CharHeight, NEW m \in Characters
  PROVE  /\ Line(m) = Line(r) => Across(m) = Across(r)
         /\ Line(m) # Line(r) => Across(r) * Across(r) < Across(m) * Across(m)
<1>1. PICK y \in Int, z \in Int, h \in Nat \ {0}, s \in Nat, p \in Int :
        y = Box[r].y /\ z = Box[m].y /\ h = CharHeight /\ s = Pitch /\ h < s /\ p = cursor[2]
  BY BoxOf, PageAssumption, LayoutAssumption
<1>2. Line(m) = Line(r) => z = y
  BY <1>1, BoxesApart
<1>3. Line(m) # Line(r) => z >= y + s \/ z <= y - s
  <2>1. Line(m) \in Nat /\ Line(r) \in Nat
    BY Cells
  <2>2. (Line(r) < Line(m) => y + s <= z) /\ (Line(m) < Line(r) => z + s <= y)
    BY <1>1, BoxesApart
  <2>3. QED
    BY <2>1, <2>2
<1>4. PICK d \in Int, e \in Int : d = y + h \div 2 - p /\ e = z + h \div 2 - p
  OBVIOUS
<1>5. Across(r) = d /\ Across(m) = e
  BY <1>1, <1>4 DEF Across
<1>6. ASSUME Line(m) # Line(r) PROVE d * d < e * e
  <2>1. y <= p /\ p < y + h /\ s >= h /\ (z >= y + s \/ z <= y - s)
    BY <1>1, <1>3, <1>6
  <2>2. d = y + h \div 2 - p /\ e = z + h \div 2 - p
    BY <1>4
  <2>3. y < p \/ h < s => d * d < e * e
    BY <2>1, <2>2, CenterNearest
  <2>4. QED
    BY <1>1, <2>3
<1>7. QED
  BY <1>1, <1>2, <1>4, <1>5, <1>6

(* A character that is nearest of those seen is nearest of all, if those around it are seen *)
(* and one of the line of the cursor is.                                                    *)
LEMMA NearestInText ==
  ASSUME NEW area \in Rectangles, cursor \in Int \X Int, NEW n \in Seen(area),
         n - 1 \in Seen(area), Line(n - 1) = Line(n), n + 1 \in Seen(area), Line(n + 1) = Line(n),
         \A k \in Seen(area) : /\ Distance(Box[n], cursor) <= Distance(Box[k], cursor)
                               /\ k < n => Distance(Box[n], cursor) < Distance(Box[k], cursor),
         NEW r \in Seen(area), Box[r].y <= cursor[2], cursor[2] < Box[r].y + CharHeight
  PROVE  Nearest(Box, cursor) = n
<1>1. n \in Characters /\ r \in Characters /\ n - 1 \in Characters /\ n + 1 \in Characters
      /\ Characters \subseteq Nat /\ Characters \in SUBSET Nat
  BY UpToEnd DEF Seen
<1>2. /\ \A i \in Characters : Line(i) \in 1 .. Rows /\ Column(i) \in 0 .. Columns - 1 /\ Box[i].x \in Int
      /\ Columns \in Nat /\ Rows \in Nat /\ CharWidth \in Nat \ {0}
  BY CellOf, BoxOf, PageAssumption
\* It is in the line of the cursor.
<1>3. Line(n) = Line(r)
  <2>1. SUFFICES ASSUME Line(n) # Line(r) PROVE FALSE
    OBVIOUS
  <2>2. PICK m \in Characters : Line(m) = Line(r) /\ Column(m) = Column(n)
    BY <1>1, <1>2, CellAt
  <2>3. m \in Seen(area)
    <3>1. Column(n) <= Column(m) /\ Column(m) <= Column(n) /\ Line(r) <= Line(m) /\ Line(m) <= Line(r)
      BY <1>1, <1>2, <2>2
    <3>2. QED
      BY <3>1, SeenBetween
  <2>4. Across(m) = Across(r) /\ Across(r) * Across(r) < Across(n) * Across(n)
    BY <1>1, <2>1, <2>2, LineNearest
  <2>5. Along(m) = Along(n)
    <3>1. Box[m].x = Box[n].x
      BY <1>1, <2>2, BoxesApart DEF Column
    <3>2. QED
      BY <3>1 DEF Along
  <2>6. PICK a \in Nat, b \in Nat, c \in Nat :
          a = Along(n) * Along(n) /\ b = Across(n) * Across(n) /\ c = Across(r) * Across(r)
    BY <1>1, DistanceOf
  <2>7. Distance(Box[n], cursor) = a + b /\ Distance(Box[m], cursor) = a + c
    BY <1>1, <2>4, <2>5, <2>6, DistanceOf
  <2>8. Distance(Box[n], cursor) <= Distance(Box[m], cursor) /\ c < b
    BY <2>3, <2>4, <2>6
  <2>9. QED
    BY <2>7, <2>8
<1>4. Box[r].y = Box[n].y
  BY <1>1, <1>3, BoxesApart
<1>5. ASSUME NEW m \in Characters
      PROVE  /\ Line(m) = Line(n) => Across(m) = Across(n)
             /\ Line(m) # Line(n) => Across(n) * Across(n) < Across(m) * Across(m)
  BY <1>1, <1>4, LineNearest
\* Its column is the nearest one.
<1>6. PICK x \in Int, w \in Nat \ {0} : x = Along(n) /\ w = CharWidth
  BY <1>1, <1>2, DistanceOf
<1>7. ASSUME NEW m \in Characters
      PROVE  /\ Column(n) < Column(m) => \E u \in Nat : u >= w /\ Along(m) = x + u
             /\ Column(m) < Column(n) => \E u \in Nat : u >= w /\ Along(m) = x - u
             /\ Column(m) = Column(n) => Along(m) = x
  <2>1. PICK a \in Int, b \in Int, g \in Int, h \in Int :
          a = Box[n].x /\ b = Box[m].x /\ g = CharWidth \div 2 /\ h = cursor[1]
    BY <1>1, <1>2
  <2>2. x = a + g - h /\ Along(m) = b + g - h
    BY <1>6, <2>1 DEF Along
  <2>3. /\ Column(n) < Column(m) => a + w <= b
        /\ Column(m) < Column(n) => b + w <= a
        /\ Column(m) = Column(n) => a = b
    BY <1>1, <1>6, <2>1, BoxesApart DEF Column
  <2>4. ASSUME a + w <= b PROVE \E u \in Nat : u >= w /\ Along(m) = x + u
    <3>1. b - a \in Nat /\ b - a >= w /\ Along(m) = x + (b - a)
      BY <2>2, <2>4
    <3>2. QED
      BY <3>1
  <2>5. ASSUME b + w <= a PROVE \E u \in Nat : u >= w /\ Along(m) = x - u
    <3>1. a - b \in Nat /\ a - b >= w /\ Along(m) = x - (a - b)
      BY <2>2, <2>5
    <3>2. QED
      BY <3>1
  <2>6. QED
    BY <2>2, <2>3, <2>4, <2>5
<1>8. x * x <= (x + w) * (x + w) /\ x * x < (x - w) * (x - w)
  <2>1. n - 1 < n /\ n \in Nat
    BY <1>1
  <2>2. Along(n + 1) = x + w /\ Along(n - 1) = x - w
    <3>1. Column(n) < Column(n + 1) /\ Column(n - 1) < Column(n)
      <4>1. n < n + 1
        BY <2>1
      <4>2. QED
        BY <1>1, <2>1, <4>1, Order
    <3>2. Column(n) + 1 # Columns /\ Column(n) # 0
      BY <1>1, <1>2, <3>1
    <3>3. Box[n + 1].x = Box[n].x + CharWidth /\ Box[n - 1].x = Box[n].x - CharWidth
      BY <1>1, <3>2, NextInLine, LastInLine
    <3>4. PICK a \in Int, g \in Int, h \in Int : a = Box[n].x /\ g = CharWidth \div 2 /\ h = cursor[1]
      BY <1>1, <1>2
    <3>5. x = a + g - h /\ Along(n + 1) = a + w + g - h /\ Along(n - 1) = a - w + g - h
      BY <1>6, <3>3, <3>4 DEF Along
    <3>6. QED
      BY <3>5
  <2>3. PICK b \in Nat : b = Across(n) * Across(n)
    BY <1>1, DistanceOf
  <2>4. /\ Distance(Box[n], cursor) = x * x + b
        /\ Distance(Box[n + 1], cursor) = (x + w) * (x + w) + b
        /\ Distance(Box[n - 1], cursor) = (x - w) * (x - w) + b
    BY <1>1, <1>5, <1>6, <2>2, <2>3, DistanceOf
  <2>5. /\ Distance(Box[n], cursor) <= Distance(Box[n + 1], cursor)
        /\ Distance(Box[n], cursor) < Distance(Box[n - 1], cursor)
    BY <2>1
  <2>6. PICK c \in Int, d \in Int, e \in Int : c = x * x /\ d = (x + w) * (x + w) /\ e = (x - w) * (x - w)
    OBVIOUS
  <2>7. c <= d /\ c < e
    BY <2>4, <2>5, <2>6
  <2>8. QED
    BY <2>6, <2>7
<1>9. ASSUME NEW m \in Characters
      PROVE  /\ x * x <= Along(m) * Along(m)
             /\ Column(m) < Column(n) => x * x < Along(m) * Along(m)
  <2>1. CASE Column(n) < Column(m)
    <3>1. PICK u \in Nat : u >= w /\ Along(m) = x + u
      BY <1>7, <2>1
    <3>2. x * x <= (x + u) * (x + u)
      BY <1>8, <3>1, FartherOn
    <3>3. QED
      BY <1>1, <1>2, <2>1, <3>1, <3>2
  <2>2. CASE Column(m) < Column(n)
    <3>1. PICK u \in Nat : u >= w /\ Along(m) = x - u
      BY <1>7, <2>2
    <3>2. x * x < (x - u) * (x - u)
      BY <1>8, <3>1, FartherOn
    <3>3. PICK c \in Int, d \in Int : c = x * x /\ d = Along(m) * Along(m) /\ c < d
      BY <3>1, <3>2
    <3>4. QED
      BY <3>3
  <2>3. CASE Column(m) = Column(n)
    BY <1>1, <1>2, <1>7, <2>3
  <2>4. QED
    BY <1>1, <1>2, <2>1, <2>2, <2>3
<1>10. ASSUME NEW m \in Characters
       PROVE  /\ Distance(Box[n], cursor) <= Distance(Box[m], cursor)
              /\ m < n => Distance(Box[n], cursor) < Distance(Box[m], cursor)
  <2>1. PICK a \in Nat, b \in Nat, c \in Nat, d \in Nat :
          a = Along(n) * Along(n) /\ b = Across(n) * Across(n) /\ c = Along(m) * Along(m) /\ d = Across(m) * Across(m)
    BY <1>1, DistanceOf
  <2>2. Distance(Box[n], cursor) = a + b /\ Distance(Box[m], cursor) = c + d
    BY <1>1, <2>1, DistanceOf
  <2>3. a <= c /\ (Column(m) < Column(n) => a < c)
    BY <1>6, <1>9, <2>1
  <2>4. (Line(m) = Line(n) => b = d) /\ (Line(m) # Line(n) => b < d)
    BY <1>5, <2>1
  <2>5. m < n /\ Line(m) = Line(n) => Column(m) < Column(n)
    BY <1>1, Order
  <2>6. QED
    BY <2>2, <2>3, <2>4, <2>5
<1>11. /\ DOMAIN Box = Characters /\ \A k \in Characters : Distance(Box[k], cursor) \in Nat
  BY DistanceOf DEF Box
<1>12. QED
  BY <1>1, <1>10, <1>11, NearestFirst

-----------------------------------------------------------------------------
(* The whole reference.                                                      *)

(* The image is where it was captured: distances are the same in it. *)
LEMMA DistanceInImage ==
  ASSUME NEW area, Imaged(area), cursor \in Int \X Int, NEW k \in Characters
  PROVE  Distance(InImage(k), Relative(area)) = Distance(Box[k], cursor)
<1>1. /\ InImage(k).x = Box[k].x - area.x /\ InImage(k).y = Box[k].y - area.y
      /\ InImage(k).w = CharWidth /\ InImage(k).h = CharHeight
  BY SeenFrom
<1>2. /\ Box[k].x \in Int /\ Box[k].y \in Int /\ Box[k].w = CharWidth /\ Box[k].h = CharHeight
  BY BoxOf
<1>3. PICK px \in Int, py \in Int : cursor = <<px, py>>
  OBVIOUS
<1>4. PICK x \in Int, y \in Int, w \in Int, h \in Int, u \in Int, v \in Int :
        /\ x = Box[k].x /\ y = Box[k].y /\ w = CharWidth \div 2 /\ h = CharHeight \div 2 /\ u = area.x /\ v = area.y
  <2>1. CharWidth \div 2 \in Int /\ CharHeight \div 2 \in Int /\ area.x \in Int /\ area.y \in Int
    BY PageAssumption DEF Imaged, Rectangles
  <2>2. QED
    BY <1>2, <2>1
<1>5. Relative(area) = <<px - u, py - v>>
  BY <1>3, <1>4 DEF Relative
<1>6. x - u + w - (px - u) = x + w - px /\ y - v + h - (py - v) = y + h - py
  OBVIOUS
<1>7. Distance(InImage(k), Relative(area)) =
        (x - u + w - (px - u)) * (x - u + w - (px - u)) + (y - v + h - (py - v)) * (y - v + h - (py - v))
  BY <1>1, <1>4, <1>5 DEF Distance
<1>8. Distance(Box[k], cursor) = (x + w - px) * (x + w - px) + (y + h - py) * (y + h - py)
  BY <1>2, <1>3, <1>4 DEF Distance
<1>9. QED
  BY <1>6, <1>7, <1>8

(* The main text is read at the first of the characters that are nearest to the cursor. *)
LEMMA ReadAtNearest ==
  ASSUME NEW area, Imaged(area), Seen(area) # {}, cursor \in Int \X Int,
         NEW data, data = find_main_reference_position_data(Relative(area))
  PROVE  /\ data.seen = Seen(area) /\ data.index \in Seen(area)
         /\ \A k \in Seen(area) :
              /\ Distance(Box[data.index], cursor) <= Distance(Box[k], cursor)
              /\ k < data.index => Distance(Box[data.index], cursor) < Distance(Box[k], cursor)
<1>1. PICK S \in SUBSET Nat : S = Seen(area) /\ S = ReadIn(Paragraph) /\ S # {} /\ S \subseteq Characters
  <2>1. Seen(area) \subseteq Characters /\ Characters \subseteq Nat
    BY UpToEnd DEF Seen
  <2>2. QED
    BY <2>1, AllRead
<1>2. PICK boxes : boxes = [i \in S |-> InImage(i)]
  OBVIOUS
<1>3. PICK p : p = Relative(area)
  OBVIOUS
<1>4. data.seen = S /\ data.index = Nearest(boxes, p)
  BY <1>1, <1>2, <1>3 DEF find_main_reference_position_data
<1>5. \A k \in S : Distance(boxes[k], p) = Distance(Box[k], cursor) /\ Distance(Box[k], cursor) \in Nat
  BY <1>1, <1>2, <1>3, DistanceInImage, DistanceOf
<1>6. DOMAIN boxes = S /\ \A k \in S : Distance(boxes[k], p) \in Nat
  BY <1>2, <1>5
<1>7. /\ Nearest(boxes, p) \in S
      /\ \A k \in S : /\ Distance(boxes[Nearest(boxes, p)], p) <= Distance(boxes[k], p)
                      /\ k < Nearest(boxes, p) => Distance(boxes[Nearest(boxes, p)], p) < Distance(boxes[k], p)
  BY <1>1, <1>6, NearestOf
<1>8. PICK n \in S :
        /\ n = data.index
        /\ \A k \in S : /\ Distance(boxes[n], p) <= Distance(boxes[k], p)
                        /\ k < n => Distance(boxes[n], p) < Distance(boxes[k], p)
  BY <1>4, <1>7
<1>9. \A k \in S : /\ Distance(Box[n], cursor) <= Distance(Box[k], cursor)
                   /\ k < n => Distance(Box[n], cursor) < Distance(Box[k], cursor)
  BY <1>5, <1>8
<1>10. QED
  BY <1>1, <1>4, <1>8, <1>9

(* What a valid area shows of a reference inside a line is the whole reference. *)
LEMMA ValidCitation ==
  ASSUME NEW area, Imaged(area), Seen(area) # {}, cursor \in Int \X Int,
         NEW data, data = find_main_reference_position_data(Relative(area)),
         NEW c, c = Citation(data.seen, Names, data.index), c # {}, ~AtBorder(c), NEW read, read = c \/ read = {},
         is_valid_capture_area(Relative(area), Rect(0, 0, area.w, area.h), Paragraph, Lines,
                               {InImage(i) : i \in read})
  PROVE  Citation(Characters, Names, Nearest(Box, cursor)) = c
<1>1. PICK S \in SUBSET Characters : S = Seen(area) /\ data.seen = S /\ area \in Rectangles
  BY ReadAtNearest DEF Seen, Imaged
<1>2. PICK n \in S :
        /\ n = data.index
        /\ \A k \in S : /\ Distance(Box[n], cursor) <= Distance(Box[k], cursor)
                        /\ k < n => Distance(Box[n], cursor) < Distance(Box[k], cursor)
  BY <1>1, ReadAtNearest
<1>3. n \in Nat /\ n \in c /\ c = Citation(S, Names, n)
  BY <1>1, <1>2, CitedThere, UpToEnd
<1>4. c \in SUBSET Seen(area)
  BY <1>1, CitationOf
<1>5. /\ \A m \in c : /\ m - 1 \in S /\ Line(m - 1) = Line(m)
                      /\ m + 1 \in S /\ Line(m + 1) = Line(m)
      /\ \A l \in S, a \in S : l - 1 \in c /\ l < a => l + 1 \in S
      /\ \E i \in S : Box[i].y <= cursor[2] /\ cursor[2] < Box[i].y + CharHeight
  BY <1>1, <1>4, ValidMargins
<1>6. Citation(Characters, Names, n) = c
  <2>1. \A m \in c : m - 1 \in S /\ m + 1 \in S
    BY <1>5
  <2>2. \A l \in S, a \in S : l - 1 \in c /\ l < a => l + 1 \in S
    BY <1>5
  <2>3. n \in Nat
    BY <1>3
  <2>4. c = Citation(S, Names, n) /\ c # {}
    BY <1>3
  <2>5. SeenWhole(S, n)
    BY <2>1, <2>2, <2>3, <2>4 DEF SeenWhole
  <2>6. Citation(Characters, Names, n) = Citation(S, Names, n)
    BY <2>5, <1>1, CitationWhole
  <2>7. QED
    BY <2>4, <2>6
<1>7. PICK r \in S : Box[r].y <= cursor[2] /\ cursor[2] < Box[r].y + CharHeight
  BY <1>5
<1>8. Nearest(Box, cursor) = n
  <2>1. n - 1 \in S /\ Line(n - 1) = Line(n) /\ n + 1 \in S /\ Line(n + 1) = Line(n)
    BY <1>3, <1>5
  <2>2. QED
    BY <1>1, <1>2, <1>7, <2>1, NearestInText
<1>9. QED
  BY <1>6, <1>8

(* The window shows all of the text. *)
LEMMA WindowShowsAll ==
  ASSUME Imaged(Window), cursor \in Int \X Int, OnText,
         NEW data, data = find_main_reference_position_data(Relative(Window))
  PROVE  /\ image.seen # {} /\ contains_point(Paragraph, Relative(Window))
         /\ data.seen = Characters /\ data.index = Nearest(Box, cursor)
<1>1. Seen(Window) = Characters /\ image.seen = Characters
  BY LayoutAssumption DEF Seen, Imaged
<1>2. PICK i \in Characters : contains_point(Box[i], cursor)
  BY DEF OnText
<1>3. contains_point(Paragraph, Relative(Window))
  <2>1. PICK x \in Nat, y \in Nat, u \in Nat, v \in Nat :
          /\ Paragraph = Rect(x, y, u - x, v - y)
          /\ \E k \in Seen(Window) : InImage(k).x = x
          /\ \E k \in Seen(Window) : InImage(k).y = y
          /\ \E k \in Seen(Window) : InImage(k).x + CharWidth = u
          /\ \E k \in Seen(Window) : InImage(k).y + CharHeight = v
          /\ \A k \in Seen(Window) : /\ x <= InImage(k).x /\ InImage(k).x + CharWidth <= u
                                    /\ y <= InImage(k).y /\ InImage(k).y + CharHeight <= v
    BY <1>1, <1>2, ParagraphOf
  <2>2. /\ InImage(i).x = Box[i].x - Window.x /\ InImage(i).y = Box[i].y - Window.y
        /\ InImage(i).x \in Int /\ InImage(i).y \in Int
    BY SeenFrom
  <2>3. /\ x <= InImage(i).x /\ InImage(i).x + CharWidth <= u
        /\ y <= InImage(i).y /\ InImage(i).y + CharHeight <= v
    BY <1>1, <2>1
  <2>4. PICK px \in Int, py \in Int : cursor = <<px, py>>
    OBVIOUS
  <2>5. /\ Box[i].x <= px /\ px < Box[i].x + CharWidth /\ Box[i].y <= py /\ py < Box[i].y + CharHeight
        /\ Box[i].x \in Int /\ Box[i].y \in Int
    BY <1>2, <2>4, BoxOf DEF contains_point
  <2>6. Window.x \in Int /\ Window.y \in Int /\ CharWidth \in Nat /\ CharHeight \in Nat
    BY PageAssumption DEF Rectangles
  <2>7. x <= px - Window.x /\ px - Window.x < u /\ y <= py - Window.y /\ py - Window.y < v
    BY <2>2, <2>3, <2>5, <2>6
  <2>8. x + (u - x) = u /\ y + (v - y) = v
    OBVIOUS
  <2>9. QED
    BY <2>1, <2>4, <2>7, <2>8 DEF contains_point, Relative, Rect
<1>4. PICK n \in Characters :
        /\ n = data.index /\ data.seen = Characters
        /\ \A k \in Characters : /\ Distance(Box[n], cursor) <= Distance(Box[k], cursor)
                                 /\ k < n => Distance(Box[n], cursor) < Distance(Box[k], cursor)
  BY <1>1, <1>2, ReadAtNearest
<1>5. Nearest(Box, cursor) = n
  <2>1. /\ DOMAIN Box = Characters /\ Characters \in SUBSET Nat
        /\ \A k \in Characters : Distance(Box[k], cursor) \in Nat
    BY DistanceOf, UpToEnd DEF Box
  <2>2. QED
    BY <1>4, <2>1, NearestFirst
<1>6. QED
  BY <1>1, <1>2, <1>3, <1>4, <1>5

\* The last area is the window.  Nothing is valid before the search stops; and when all areas
\* were tried, all of the text was read.
WholeInv ==
  /\ state # "done" => ~result.valid
  /\ areas # << >> => areas[Len(areas)] = Window
  /\ state = "search" /\ areas = << >> /\ trouble = {} /\ OnText /\ Whole # {} => result.references = Whole
  /\ ValidIsWhole /\ WholeFound

(* It holds before the search. *)
LEMMA WholeInit == Init => WholeInv
BY DEF Init, WholeInv, ValidIsWhole, WholeFound

(* What is to be found does not change. *)
LEMMA WholeStays ==
  ASSUME UNCHANGED <<page, cursor>>
  PROVE  Whole' = Whole /\ (OnText' <=> OnText)
<1>1. page' = page /\ cursor' = cursor
  OBVIOUS
<1>2. Names' = Names
  BY <1>1 DEF Names
<1>3. Citation(Characters, Names, Nearest(Box, cursor))' = Citation(Characters, Names, Nearest(Box, cursor))
  BY <1>1, <1>2 DEF Citation
<1>4. Whole' = Whole
  BY <1>1, <1>3 DEF Whole, Existing
<1>5. QED
  BY <1>1, <1>4 DEF OnText

(* An empty sequence has no elements. *)
LEMMA EmptyLen == ASSUME NEW s, s = << >> PROVE Len(s) = 0
OBVIOUS

(* A sequence without others behind the first has one. *)
LEMMA SingleTail ==
  ASSUME NEW R, NEW list \in Seq(R), list # << >>, Tail(list) = << >>
  PROVE  Len(list) = 1
<1>1. Len(Tail(list)) = 0
  BY EmptyLen
<1>2. Len(list) \in Nat /\ Len(Tail(list)) = Len(list) - 1
  OBVIOUS
<1>3. QED
  BY <1>1, <1>2

(* The areas that are left end with the window. *)
LEMMA WindowLast ==
  ASSUME NEW list \in Seq(Rectangles), list # << >>, list[Len(list)] = Window
  PROVE  /\ Tail(list) # << >> => Tail(list)[Len(Tail(list))] = Window
         /\ Tail(list) = << >> => Head(list) = Window
<1>1. PICK n \in Nat : n = Len(list) /\ n >= 1 /\ Len(Tail(list)) = n - 1
  OBVIOUS
<1>2. ASSUME Tail(list) # << >> PROVE Tail(list)[Len(Tail(list))] = Window
  <2>1. n - 1 >= 1 /\ n - 1 \in Nat
    BY <1>1, <1>2
  <2>2. Tail(list)[n - 1] = list[(n - 1) + 1]
    BY <1>1, <2>1
  <2>3. (n - 1) + 1 = n
    OBVIOUS
  <2>4. QED
    BY <1>1, <2>2, <2>3
<1>3. ASSUME Tail(list) = << >> PROVE Head(list) = Window
  <2>1. Len(list) = 1
    BY <1>3, SingleTail, Zenon
  <2>2. n = 1
    BY <1>1, <2>1
  <2>3. Head(list) = list[1]
    OBVIOUS
  <2>4. QED
    BY <1>1, <2>2, <2>3
<1>4. QED
  BY <1>2, <1>3

(* What the area that was parsed has to do for it. *)
LEMMA WholeGoOn ==
  ASSUME AreasInv, WholeInv, state = "parse", NEW area_result, NEW wrong, GoOn(area_result, wrong),
         area_result.references # {} /\ area_result.valid /\ "deceived" \notin wrong
           /\ ~AtBorder(area_result.references) => area_result.references = Whole,
         Head(areas) = Window /\ wrong = {} /\ OnText /\ Whole # {} => area_result.references = Whole
  PROVE  WholeInv'
<1>1. /\ areas' = Tail(areas) /\ UNCHANGED <<page, cursor>> /\ trouble' = trouble \cup wrong
      /\ result' = (IF area_result.references # {} THEN area_result ELSE result)
      /\ state' = IF result'.valid THEN "done" ELSE "search"
  BY DEF GoOn, Kept, Stops
<1>2. Whole' = Whole /\ (OnText' <=> OnText)
  BY <1>1, WholeStays
<1>3. areas \in Seq(Rectangles) /\ areas # << >> /\ areas[Len(areas)] = Window /\ ~result.valid
  BY DEF AreasInv, WholeInv
<1>4. /\ Tail(areas) # << >> => Tail(areas)[Len(Tail(areas))] = Window
      /\ Tail(areas) = << >> => Head(areas) = Window
  BY <1>3, WindowLast
<1>5. result'.valid => result' = area_result /\ area_result.references # {}
  BY <1>1, <1>3
<1>6. ValidIsWhole'
  BY <1>1, <1>2, <1>5 DEF ValidIsWhole
<1>7. WholeFound'
  <2>1. SUFFICES ASSUME state' = "done", trouble' = {}, ~AtBorder(result'.references)
                 PROVE  result'.references = Whole'
    BY DEF WholeFound
  <2>2. result'.valid /\ "deceived" \notin trouble'
    BY <1>1, <2>1
  <2>3. QED
    BY <1>6, <2>1, <2>2 DEF ValidIsWhole
<1>8. ASSUME areas' = << >>, trouble' = {}, OnText', Whole' # {} PROVE result'.references = Whole'
  <2>1. Head(areas) = Window /\ wrong = {} /\ OnText /\ Whole # {}
    BY <1>1, <1>2, <1>4, <1>8
  <2>2. area_result.references = Whole /\ area_result.references # {}
    BY <2>1
  <2>3. QED
    BY <1>1, <1>2, <2>2
<1>9. QED
  BY <1>1, <1>4, <1>6, <1>7, <1>8 DEF WholeInv

(* The parse of an area in which something is recognized. *)
LEMMA WholeRecognized ==
  ASSUME FRInv, AreasInv, WholeInv, Recognized
  PROVE  WholeInv'
<1> DEFINE area == Head(areas)
           data == find_main_reference_position_data(Relative(area))
           written == Citation(data.seen, Names, data.index)
           valid(read) == is_valid_capture_area(
             Relative(area), Rect(0, 0, area.w, area.h), Paragraph, Lines, {InImage(i) : i \in read})
           wrong(read) == IF read = written THEN {} ELSE IF read = {} THEN {"failed"} ELSE {"failed", "deceived"}
<1>1. areas # << >> /\ Imaged(area) /\ state = "parse" /\ cursor \in Int \X Int
  BY DEF FRInv, Recognized
<1>2. Seen(area) # {}
  BY <1>1 DEF Recognized, Paragraphless, Imaged
<1>3. \E names \in {Names, Names \ written} :
        \E references \in IF Existing(Citation(data.seen, names, data.index)) = {} THEN {{}, Existing(written)}
                           ELSE {Citation(data.seen, names, data.index)} :
          GoOn([valid |-> valid(Citation(data.seen, names, data.index)), references |-> references],
               wrong(Citation(data.seen, names, data.index)))
  BY Zenon DEF Recognized
<1> HIDE DEF area, data, written, valid, wrong
<1>4. PICK names : \E references \in IF Existing(Citation(data.seen, names, data.index)) = {} THEN {{}, Existing(written)}
                                     ELSE {Citation(data.seen, names, data.index)} :
          GoOn([valid |-> valid(Citation(data.seen, names, data.index)), references |-> references],
               wrong(Citation(data.seen, names, data.index)))
  BY <1>3
<1> DEFINE read == Citation(data.seen, names, data.index)
<1>5. PICK references \in IF Existing(read) = {} THEN {{}, Existing(written)} ELSE {read} :
        GoOn([valid |-> valid(read), references |-> references], wrong(read))
  BY <1>4
<1> HIDE DEF read
<1>6. ASSUME references # {}, valid(read), "deceived" \notin wrong(read), ~AtBorder(references)
      PROVE  references = Whole
  <2>1. read = written \/ read = {}
    BY <1>6 DEF wrong
  <2>2. references = written /\ page.exists
    BY <1>5, <1>6, <2>1 DEF Existing
  <2>3. is_valid_capture_area(Relative(area), Rect(0, 0, area.w, area.h), Paragraph, Lines,
                              {InImage(i) : i \in read})
    BY <1>6 DEF valid
  <2>4. Citation(Characters, Names, Nearest(Box, cursor)) = written
    <3>1. data = find_main_reference_position_data(Relative(area)) /\ written = Citation(data.seen, Names, data.index)
      BY DEF data, written
    <3>2. written # {} /\ ~AtBorder(written)
      BY <1>6, <2>2
    <3>3. QED
      BY <1>1, <1>2, <2>1, <2>3, <3>1, <3>2, ValidCitation
  <2>5. QED
    BY <2>2, <2>4 DEF Whole, Existing
<1>7. ASSUME area = Window, wrong(read) = {}, OnText, Whole # {}
      PROVE  references = Whole
  <2>1. read = written
    BY <1>7 DEF wrong
  <2>2. data.seen = Characters /\ data.index = Nearest(Box, cursor)
    BY <1>1, <1>7, WindowShowsAll DEF data
  <2>3. Whole = Existing(read)
    BY <2>1, <2>2 DEF Whole, written
  <2>4. QED
    BY <1>5, <1>7, <2>3 DEF Existing
<1>8. QED
  <2>1. PICK area_result : area_result = [valid |-> valid(read), references |-> references]
    OBVIOUS
  <2>2. area_result.valid = valid(read) /\ area_result.references = references /\ GoOn(area_result, wrong(read))
    BY <1>5, <2>1
  <2>3. valid(read) \in BOOLEAN
    BY DEF valid, is_valid_capture_area
  <2>4. area_result.references # {} /\ area_result.valid /\ "deceived" \notin wrong(read)
           /\ ~AtBorder(area_result.references) => area_result.references = Whole
    BY <1>6, <2>2
  <2>5. Head(areas) = Window /\ wrong(read) = {} /\ OnText /\ Whole # {} => area_result.references = Whole
    BY <1>7, <2>2 DEF area
  <2>6. QED
    BY <1>1, <2>2, <2>4, <2>5, WholeGoOn

(* It holds after every step. *)
LEMMA WholeStep == FRInv /\ AreasInv /\ WholeInv /\ [Next]_vars => WholeInv'
<1> SUFFICES ASSUME FRInv, AreasInv, WholeInv, [Next]_vars PROVE WholeInv'
  OBVIOUS
<1>1. UNCHANGED <<page, cursor>> => Whole' = Whole /\ (OnText' <=> OnText)
  BY WholeStays
<1>2. CASE NoAreas
  BY <1>1, <1>2 DEF NoAreas, WholeInv, ValidIsWhole, WholeFound
<1>3. CASE GenerateAreas
  <2>1. /\ areas' = generate_capture_areas(Window, cursor, assumed_initial_char_height) /\ areas' # << >>
        /\ state = "start" /\ state' = "search" /\ UNCHANGED <<page, cursor, image, result, trouble>>
    BY <1>3 DEF GenerateAreas
  <2>2. areas'[Len(areas')] = Window
    <3>1. PICK list : list = [i \in 1 .. 4 |-> overlap(Window, Around(cursor, assumed_initial_char_height, i))]
      OBVIOUS
    <3>2. areas' = IF \E i \in DOMAIN list : IsEmpty(list[i]) THEN << >> ELSE Append(list, Window)
      BY <2>1, <3>1 DEF generate_capture_areas, area_generation_steps
    <3>3. areas' = Append(list, Window)
      BY <2>1, <3>2
    <3>4. PICK S : Window \in S /\ \A i \in 1 .. 4 : list[i] \in S
      <4>1. Window \in {Window} \cup {list[j] : j \in 1 .. 4}
            /\ \A i \in 1 .. 4 : list[i] \in {Window} \cup {list[j] : j \in 1 .. 4}
        OBVIOUS
      <4>2. QED
        BY <4>1
    <3>5. list \in Seq(S) /\ Len(list) = 4
      BY <3>1, <3>4
    <3>6. Len(areas') = 5 /\ areas'[5] = Window
      <4>1. ASSUME NEW s \in Seq(S), NEW r \in S
            PROVE  Len(Append(s, r)) = Len(s) + 1 /\ Append(s, r)[Len(s) + 1] = r
        OBVIOUS
      <4>2. Len(areas') = Len(list) + 1 /\ areas'[Len(list) + 1] = Window
        BY <3>3, <3>4, <3>5, <4>1
      <4>3. QED
        BY <3>5, <4>2
    <3>7. QED
      BY <3>6
  <2>3. QED
    BY <1>1, <2>1, <2>2 DEF WholeInv, ValidIsWhole, WholeFound
<1>4. CASE CaptureFails
  <2>1. /\ areas' = Tail(areas) /\ areas \in Seq(Rectangles) /\ areas # << >> /\ areas[Len(areas)] = Window
        /\ state = "search" /\ UNCHANGED <<page, cursor, state, image, result>> /\ "failed" \in trouble'
    BY <1>4 DEF CaptureFails, AreasInv, WholeInv
  <2>2. areas' # << >> => areas'[Len(areas')] = Window
    BY <2>1, WindowLast
  <2>3. "deceived" \in trouble => "deceived" \in trouble'
    BY <1>4 DEF CaptureFails
  <2>4. QED
    BY <1>1, <2>1, <2>2, <2>3 DEF WholeInv, ValidIsWhole, WholeFound
<1>5. CASE Capture
  BY <1>1, <1>5 DEF Capture, WholeInv, ValidIsWhole, WholeFound
<1>6. CASE NothingRecognized
  <2>1. PICK wrong, area_result :
          /\ area_result.references = {} /\ GoOn(area_result, wrong)
          /\ wrong = {} => Paragraphless
    BY <1>6 DEF NothingRecognized
  <2>2. state = "parse" /\ cursor \in Int \X Int /\ Imaged(Head(areas))
    BY <1>6 DEF NothingRecognized, FRInv
  <2>3. Head(areas) = Window /\ OnText => ~Paragraphless
    BY <2>2, WindowShowsAll DEF Paragraphless
  <2>4. QED
    BY <2>1, <2>2, <2>3, WholeGoOn
<1>7. CASE Recognized
  BY <1>7, WholeRecognized
<1>8. CASE Exhausted
  <2>1. /\ state = "search" /\ areas = << >> /\ state' = "done"
        /\ UNCHANGED <<page, cursor, areas, image, result, trouble>>
    BY <1>8 DEF Exhausted
  <2>2. QED
    BY <1>1, <2>1 DEF WholeInv, ValidIsWhole, WholeFound
<1>9. CASE UNCHANGED vars
  BY <1>1, <1>9 DEF vars, WholeInv, ValidIsWhole, WholeFound
<1>10. QED
  BY <1>2, <1>3, <1>4, <1>5, <1>6, <1>7, <1>8, <1>9 DEF Next

(* A search stops with the whole reference, unless it is in two lines, or the name was *)
(* taken for other text.                                                               *)
THEOREM ValidAreaIsWhole == Spec => []ValidIsWhole
<1>1. FRInv /\ AreasInv /\ WholeInv => ValidIsWhole
  BY DEF WholeInv
<1>2. QED
  BY <1>1, FRInit, AreasInit, WholeInit, FRStep, AreasStep, WholeStep, PTL DEF Spec

(* A search in which nothing goes wrong finds the whole reference. *)
THEOREM WholeReferenceFound == Spec => []WholeFound
<1>1. FRInv /\ AreasInv /\ WholeInv => WholeFound
  BY DEF WholeInv
<1>2. QED
  BY <1>1, FRInit, AreasInit, WholeInit, FRStep, AreasStep, WholeStep, PTL DEF Spec
=============================================================================
