------------------------------ MODULE Characters ------------------------------
(***************************************************************************)
(* bibstd::txt::chars (src/bibstd/txt/chars.hpp): which character a text   *)
(* has at a place, and of which category.  A text is a sequence of bytes,  *)
(* a character of the lists one byte or several.                           *)
(***************************************************************************)
EXTENDS Naturals, Sequences, SequencesExt

CONSTANTS
  Digits,                        \* the bytes isdigit() is true of
  Letters, Whitespaces, Lines,   \* the lists, as sets of characters
  Fullstop                       \* the byte of the full stop

\* The categories in the order in which they are tried; every byte is an "other" one.
Categories == <<"letter", "whitespace", "line", "fullstop", "digit", "other">>
ListOf == [letter |-> Letters, whitespace |-> Whitespaces, line |-> Lines,
           fullstop |-> {<<Fullstop>>}, digit |-> {<<d>> : d \in Digits}]

\* Of the code: a character is a sequence of bytes, and none of a list begins another
\* one, or is on two lists, a digit or the full stop.
ASSUME CharactersAssumption ==
  \A k, l \in DOMAIN ListOf : \A c \in ListOf[k], d \in ListOf[l] :
    c \in Seq(Nat) /\ (IsPrefix(c, d) => c = d /\ k = l)

\* The bytes that only continue a character.
LaterBytes == UNION {UNION {{c[n] : n \in 2 .. Len(c)} : c \in ListOf[k]} : k \in DOMAIN ListOf}

starts_with(text, prefix) == IsPrefix(prefix, text)
From(text, i) == SubSeq(text, i, Len(text))
make_substring_view(text, i, length) == SubSeq(text, i, i + length - 1)

\* The character of a list at place i, of as many bytes as the text still has; a given
\* one; a digit.
ListContains(list, text, i) ==
  {c \in list : LET left == Len(text) - i + 1
                IN  make_substring_view(text, i, IF Len(c) < left THEN Len(c) ELSE left) = c}
is_equal_impl(text, i, c) == IF starts_with(From(text, i), c) THEN {c} ELSE {}
is_digit_impl(text, i) == IF text[i] \in Digits THEN {<<text[i]>>} ELSE {}

\* The characters of a category that are at place i: none, or one.
is_char(text, i, category) ==
  IF i > Len(text) THEN {}
  ELSE CASE category = "fullstop" -> is_equal_impl(text, i, <<Fullstop>>)
         [] category = "digit" -> is_digit_impl(text, i)
         [] category = "other" -> {<<text[i]>>}
         [] OTHER -> ListContains(ListOf[category], text, i)

\* The first category that fits.
char_info(text, i) ==
  LET fits == {n \in DOMAIN Categories : is_char(text, i, Categories[n]) # {}}
      category == Categories[Min(fits)]
  IN  IF fits = {} THEN {} ELSE {[char |-> c, category |-> category] : c \in is_char(text, i, category)}

\* for_each_char: the characters of a text, one after the other.
for_each_char(text) ==
  LET rest[i \in 1 .. Len(text) + 1] ==
        IF char_info(text, i) = {} THEN << >>
        ELSE LET data == CHOOSE d \in char_info(text, i) : TRUE
             IN  <<data>> \o rest[i + Len(data.char)]
  IN  rest[1]
=============================================================================
