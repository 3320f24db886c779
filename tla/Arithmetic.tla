------------------------------ MODULE Arithmetic ------------------------------
(***************************************************************************)
(* bibstd::math::arithmetic (src/bibstd/math/arithmetic.hpp) on integers   *)
(* of a given width.  What a function returns is a record: the value, or   *)
(* the error "overflow", "underflow" or "undefined".  Where the code adds  *)
(* or multiplies without a test, the result is the one of the build: it    *)
(* wraps around.                                                           *)
(***************************************************************************)
EXTENDS Integers

\* A type is its width in bits and whether it is signed.
Type(bits, signed) == [bits |-> bits, signed |-> signed]
min(T) == IF T.signed THEN -(2 ^ (T.bits - 1)) ELSE 0
max(T) == IF T.signed THEN 2 ^ (T.bits - 1) - 1 ELSE 2 ^ T.bits - 1
ValuesOf(T) == min(T) .. max(T)

\* What an integer becomes when it is converted to the type.
Wrapped(T, n) == ((n - min(T)) % (2 ^ T.bits)) + min(T)

Expected(n) == [error |-> "none", value |-> n]
Unexpected(error) == [error |-> error, value |-> 0]
has_value(e) == e.error = "none"

sign(n) == IF n > 0 THEN 1 ELSE IF n < 0 THEN -1 ELSE 0
abs(n) == IF n < 0 THEN -n ELSE n

\* Division and remainder of C++, which round to zero.
Quotient(m, n) == sign(m) * sign(n) * (abs(m) \div abs(n))
Divides(n, m) == abs(m) % abs(n) = 0

is_equal(m, n) == m = n

-----------------------------------------------------------------------------
Guarded(T, overflow, underflow, n) ==
  IF overflow THEN Unexpected("overflow")
  ELSE IF underflow THEN Unexpected("underflow") ELSE Expected(Wrapped(T, n))

add(T, m, n) ==
  Guarded(T, n > 0 /\ m > max(T) - n, n < 0 /\ m < min(T) - n, m + n)

subtract(T, m, n) ==
  Guarded(T, n < 0 /\ m > max(T) + n, n > 0 /\ m < min(T) + n, m - n)

\* The first value may be larger by one than it should.
MultiplyUnsigned(T, m, n) ==
  IF m = 0 \/ n = 0 THEN Expected(0)
  ELSE Guarded(T, \/ max(T) % n = 0 /\ m > max(T) \div n
                  \/ m - 1 > max(T) \div n, FALSE, m * n)

\* As above; a negative product is refused one value too early, and the value that is
\* larger by one is again one of the type (of int and wider ones, which the types here
\* stand for: with a narrower one C++ calculates as with int).
MultiplySigned(T, m, n) ==
  LET up == sign(m) * sign(n) = 1
  IN  IF m = 0 \/ n = 0 THEN Expected(0)
      ELSE IF (m = min(T) /\ n # 1) \/ (m # min(T) /\ n = min(T) /\ m # 1)
        THEN Guarded(T, up, ~up, m * n)
      ELSE IF m # min(T) /\ n # min(T) /\ abs(m) > 1 /\ abs(n) > 1
        THEN Guarded(T,
               up /\ (IF Divides(n, max(T)) THEN abs(m) ELSE abs(m) - 1) > max(T) \div abs(n),
               ~up /\ (IF Divides(n, min(T)) THEN abs(m) ELSE Wrapped(T, abs(m) + 1)) > abs(Quotient(min(T), abs(n))),
               m * n)
      ELSE Expected(Wrapped(T, m * n))

\* Variant of multiply: no product is too small.
MultiplyNoUnderflow(T, m, n) ==
  LET e == IF T.signed THEN MultiplySigned(T, m, n) ELSE MultiplyUnsigned(T, m, n)
  IN  IF e.error = "underflow" THEN Expected(Wrapped(T, m * n)) ELSE e

multiply(T, m, n) == IF T.signed THEN MultiplySigned(T, m, n) ELSE MultiplyUnsigned(T, m, n)

divide(T, m, n) ==
  IF m = 0 THEN IF n = 0 THEN Unexpected("undefined") ELSE Expected(0)
  ELSE IF n = 0 THEN Unexpected(IF m > 0 THEN "overflow" ELSE "underflow")
  ELSE Guarded(T, T.signed /\ m = min(T) /\ n = -1, FALSE, Quotient(m, n))

\* The value, the nearest one, or nothing.
clamp(T, e) ==
  IF has_value(e) THEN {e.value}
  ELSE IF e.error = "overflow" THEN {max(T)} ELSE IF e.error = "underflow" THEN {min(T)} ELSE {}

-----------------------------------------------------------------------------
Operations == {"add", "subtract", "multiply", "divide"}
Computed(T, operation, m, n) ==
  CASE operation = "add" -> add(T, m, n)
    [] operation = "subtract" -> subtract(T, m, n)
    [] operation = "multiply" -> multiply(T, m, n)
    [] operation = "divide" -> divide(T, m, n)

\* The same on values that may be errors: the first error is the result.
AndThen(T, operation, e, f) ==
  IF ~has_value(e) THEN e ELSE IF ~has_value(f) THEN f ELSE Computed(T, operation, e.value, f.value)

\* What it is among the integers, n not being zero in a division.
Exact(operation, m, n) ==
  CASE operation = "add" -> m + n
    [] operation = "subtract" -> m - n
    [] operation = "multiply" -> m * n
    [] operation = "divide" -> Quotient(m, n)

\* The products next to a limit that multiply() is wrong about: one is too large, and would
\* not be with a first factor of an absolute value smaller by one; one is not too small,
\* and would be with one larger by one.
NextToLimit(T, operation, m, n) ==
  /\ operation = "multiply"
  /\ IF m * n > max(T) THEN (abs(m) - 1) * abs(n) <= max(T)
     ELSE min(T) <= m * n /\ m * n < 0 /\ (abs(m) + 1) * abs(n) > -min(T)

\* The products far below the least value that multiply() takes for values: what it adds to
\* the largest value wraps around.
IncrementWraps(T, operation, m, n) ==
  /\ operation = "multiply" /\ T.signed
  /\ abs(m) = max(T) /\ abs(n) > 1 /\ m * n < 0 /\ ~Divides(n, min(T))

\* What is computed can be undone; an error stays what it is, also where the result
\* would fit again.
UndoneBy == [add |-> "subtract", subtract |-> "add", multiply |-> "divide"]
Undone(T, operation, m, n) ==
  operation \in DOMAIN UndoneBy /\ (operation = "multiply" => n # 0) =>
    LET e == Computed(T, operation, m, n)
        back == AndThen(T, UndoneBy[operation], e, Expected(n))
    IN  back = IF has_value(e) THEN Expected(m) ELSE e

\* An operation gives the exact result or the error that fits, and clamp() the value
\* nearest to it.
Protected(T, operation, m, n) ==
  LET exact == Exact(operation, m, n)
      e == Computed(T, operation, m, n)
  IN  IF operation = "divide" /\ n = 0
        THEN clamp(T, e) = IF m = 0 THEN {} ELSE IF m > 0 THEN {max(T)} ELSE {min(T)}
      ELSE IF exact > max(T) THEN e.error = "overflow" /\ clamp(T, e) = {max(T)}
      ELSE IF exact < min(T) THEN e.error = "underflow" /\ clamp(T, e) = {min(T)}
      ELSE e = Expected(exact)
=============================================================================
