------------------------------- MODULE Geometry -------------------------------
(***************************************************************************)
(* bibstd::math::value_range and bibstd::math::rect (src/bibstd/math/      *)
(* value_range.hpp, rect.hpp) over the values of an integer type T, which  *)
(* the screen's rectangles are made of.  A constructor that throws returns *)
(* Thrown; a rectangle is a range for each axis.                           *)
(***************************************************************************)
EXTENDS Arithmetic, FiniteSets

Thrown == [thrown |-> TRUE]
Throws(result) == result = Thrown

\* What has no defined result.
Undefined == [undefined |-> TRUE]
Made(result) == result # Thrown /\ result # Undefined

Smallest(m, n) == IF m < n THEN m ELSE n
Largest(m, n) == IF m < n THEN n ELSE m

-----------------------------------------------------------------------------
(* A range reaches from begin to the value before end.                         *)
value_range(T, m, n) ==
  LET begin == Smallest(m, n)  end == Largest(m, n)
  IN  IF has_value(subtract(T, end, begin)) /\ has_value(add(T, begin, 1))
        THEN [begin |-> begin, end |-> end] ELSE Thrown

empty(r) == r.begin = r.end
size(r) == r.end - r.begin
within(r, v) == ~empty(r) /\ r.begin <= v /\ v < r.end
covers(r, s) == ~empty(r) /\ ~empty(s) /\ r.begin <= s.begin /\ s.end <= r.end
overlaps(r, s) == ~empty(r) /\ ~empty(s) /\ r.end > s.begin /\ s.end > r.begin
adjacent(r, s) == ~empty(r) /\ ~empty(s) /\ (is_equal(r.begin, s.end) \/ is_equal(s.begin, r.end))

\* Variant of common: the two ends are taken for the two begins.
CommonFromFirst(T, r, s) == value_range(T, r.begin, Smallest(r.end, s.end))

\* value_range::overlap of two ranges that overlap.
common(T, r, s) == value_range(T, Largest(s.begin, r.begin), Smallest(s.end, r.end))

-----------------------------------------------------------------------------
(* A point has a coordinate on each axis, a rectangle a range.                 *)
Axes == {"x", "y"}
Point(x, y) == [x |-> x, y |-> y]
axis_value(p, axis) == p[axis]
plus(T, p, q) == [axis \in Axes |-> Wrapped(T, axis_value(p, axis) + axis_value(q, axis))]
minus(T, p, q) == [axis \in Axes |-> Wrapped(T, axis_value(p, axis) - axis_value(q, axis))]

\* The square of the distance, which is what distances are compared by.
squared(n) == n * n
distance_squared(p, q) ==
  squared(axis_value(p, "x") - axis_value(q, "x")) + squared(axis_value(p, "y") - axis_value(q, "y"))
Sides(along) == IF \E axis \in Axes : Throws(along[axis]) THEN Thrown ELSE along

\* What is left of a sum that could not be made.
value_or(e, n) == IF has_value(e) THEN e.value ELSE n

\* The area of the ranges, as std::size_t, has to be what width times height is in T.  If it
\* is not, the message of the exception is made of the error of an area that is a value.
rect(T, from, width, height) ==
  LET along(axis, length) ==
        value_range(T, axis_value(from, axis), value_or(add(T, axis_value(from, axis), length), 0))
      r == Sides([x |-> along("x", width), y |-> along("y", height)])
  IN  IF Throws(r) THEN Thrown
      ELSE IF multiply(T, width, height) = Expected(size(r.x) * size(r.y)) THEN r ELSE Undefined

\* The constructor from two points, both of them inside.
rect_between(T, first, second) ==
  LET end(axis) == add(T, Largest(axis_value(first, axis), axis_value(second, axis)), 1)
      begin(axis) == Smallest(axis_value(first, axis), axis_value(second, axis))
  IN  IF \E axis \in Axes : ~has_value(end(axis)) THEN Thrown
      ELSE Sides([axis \in Axes |-> value_range(T, begin(axis), end(axis).value)])

horizontal_range(r) == size(r.x)
vertical_range(r) == size(r.y)
area(T, r) == Wrapped(T, vertical_range(r) * horizontal_range(r))
origin(r) == Point(r.x.begin, r.y.begin)
center(r) == Point(r.x.begin + horizontal_range(r) \div 2, r.y.begin + vertical_range(r) \div 2)

contains_point(r, p) == \A axis \in Axes : within(r[axis], axis_value(p, axis))
contains(r, s) == \A axis \in Axes : covers(r[axis], s[axis])

\* The common part as a set of no or one rectangle.
overlap(T, r, s) ==
  IF \A axis \in Axes : overlaps(r[axis], s[axis])
    THEN LET x == common(T, r.x, s.x)  y == common(T, r.y, s.y)
         IN  {rect(T, Point(x.begin, y.begin), size(x), size(y))}
    ELSE {}

\* The window under the cursor, from its left lower and its right upper corner, y
\* growing downwards; the right and the lower border are outside the window.
window_at(T, left, top, right, bottom) == rect_between(T, Point(left, bottom), Point(right, top))

-----------------------------------------------------------------------------
(* A rectangle as the set of its points.                                       *)
Points(r) == {Point(x, y) : x \in r.x.begin .. r.x.end - 1, y \in r.y.begin .. r.y.end - 1}

\* Where an axis ends that is to have a length: at 0 if that is no value of T.
EndOf(T, begin, length) == IF begin + length \in ValuesOf(T) THEN begin + length ELSE 0
Between(r, m, n) == r.begin = Smallest(m, n) /\ r.end = Largest(m, n)

\* A rectangle lies where its constructor was asked for it, and has as many points as it was
\* asked for; a negative length reaches to the other side.  Only if an end is no value of T it
\* lies somewhere else, up to 0, and is made if its area happens to be the product.  What
\* fits into T is made.
MadeAsAsked(T, x, y, width, height) ==
  LET r == rect(T, Point(x, y), width, height)
  IN  /\ Made(r) =>
           /\ Between(r.x, x, EndOf(T, x, width)) /\ Between(r.y, y, EndOf(T, y, height))
           /\ Cardinality(Points(r)) = Wrapped(T, width * height)
           /\ area(T, r) = Cardinality(Points(r))
           /\ Points(r) # {} => contains_point(r, center(r))
      /\ width >= 0 /\ height >= 0 /\ x + width \in ValuesOf(T) /\ y + height \in ValuesOf(T)
           => (Made(r) <=> x < max(T) /\ y < max(T) /\ width * height <= max(T))

\* The rectangle of a window has all the pixels of the window.
WindowInside(T, left, top, right, bottom) ==
  LET r == window_at(T, left, top, right, bottom)
  IN  ~Throws(r) /\ right > left /\ bottom > top
      => \A x \in left .. right - 1, y \in top .. bottom - 1 : contains_point(r, Point(x, y))

\* No point is farther from the center than half of the diagonal.
Centered(r) ==
  \A p \in Points(r) :
    4 * distance_squared(center(r), p) <= squared(horizontal_range(r)) + squared(vertical_range(r))

\* A rectangle on the screen is the same one in a picture that begins at another one's
\* origin, as FindReferences has the cursor and what it reads.
MovedAlong(T, r, s) ==
  \A p \in Points(r) :
    LET q == minus(T, p, origin(s))
        inside == rect(T, minus(T, origin(r), origin(s)), horizontal_range(r), vertical_range(r))
    IN  contains_point(inside, q) /\ plus(T, q, origin(s)) = p

\* Two rectangles are compared and cut as their sets of points are.
AgreesWithPoints(T, r, s) ==
  /\ UNION {Points(c) : c \in overlap(T, r, s)} = Points(r) \cap Points(s)
  /\ overlap(T, r, s) # {} <=> Points(r) \cap Points(s) # {}
  /\ contains(r, s) <=> Points(s) # {} /\ Points(s) \subseteq Points(r)
  /\ \A p \in Points(s) : contains_point(r, p) <=> p \in Points(r)
  /\ Centered(r) /\ MovedAlong(T, r, s)
=============================================================================
