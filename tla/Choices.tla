------------------------------- MODULE Choices -------------------------------
(***************************************************************************)
(* How core_bible_reference_ocr reads the name of a book out of the        *)
(* choices tesseract has for the characters of an image                    *)
(* (src/bibstd/core/core_bible_reference_ocr.cpp, core_tesseract.cpp).     *)
(* The characters have the places 1, 2, ...; a choice is a symbol, a text, *)
(* and the confidence in it.                                               *)
(***************************************************************************)
EXTENDS Characters, Integers

CONSTANT SearchedNames   \* the names, each a text

ASSUME NamesAssumption == \A k \in DOMAIN SearchedNames : SearchedNames[k] \in Seq(Nat)

Choice(symbol, confidence) == [symbol |-> symbol, confidence |-> confidence]

\* What tesseract finds: a symbol does not begin in the middle of a character, and a
\* confidence is at least 0.
Found == {c \in [symbol : Seq(Nat), confidence : Nat] : c.symbol = << >> \/ c.symbol[1] \notin LaterBytes}

\* for_each_choices: the choices of each character, the main symbol among them, the one
\* with most confidence first, and equal ones in any order.
SortedChoices(found, main) ==
  LET choices == Append(found, main)
      orders == {p \in Bijection(DOMAIN choices, DOMAIN choices) :
                   \A i, j \in DOMAIN choices : i < j => choices[p[i]].confidence >= choices[p[j]].confidence}
  IN  {[i \in DOMAIN choices |-> choices[p[i]]] : p \in orders}

\* Only letters and digits can belong to a name.
choices_filter(choices) ==
  LET symbol == choices[1].symbol
  IN  is_char(symbol, 1, "letter") # {} \/ is_char(symbol, 1, "digit") # {}

\* The last of the choices the text begins with.
find_chars_begin_match(choices, text) ==
  LET fits == {k \in DOMAIN choices : starts_with(text, choices[k].symbol)}
  IN  IF fits = {} THEN {} ELSE {choices[Max(fits)]}

\* One character more of a name, of which text is left.
NextPart(list, match, i) ==
  IF match.text = << >> \/ match.stopped THEN match
  ELSE LET fits == find_chars_begin_match(list[i], match.text)
       IN  IF fits = {} THEN [match EXCEPT !.stopped = TRUE]
           ELSE LET choice == CHOOSE c \in fits : TRUE
                IN  [match EXCEPT !.text = From(@, Len(choice.symbol) + 1),
                                  !.confidence = @ + choice.confidence,
                                  !.strings[i] = choice.symbol,
                                  !.places = @ \cup {i}]

\* A name is looked for from a place on, in the characters that can belong to one.
MatchFrom(list, name, offset) ==
  LET start == [text |-> name, confidence |-> 0, stopped |-> FALSE, places |-> {}, name |-> name,
                strings |-> [i \in DOMAIN list |-> list[i][1].symbol]]
      match[i \in 0 .. Len(list)] ==
        IF i < offset THEN start
        ELSE IF choices_filter(list[i]) THEN NextPart(list, match[i - 1], i) ELSE match[i - 1]
  IN  match[Len(list)]

\* The matches of a name that has characters, one for each place they may begin at:
\* what the text is read as, of which the places of the name are overwritten.
match_choices_to_string(list, name) ==
  {m \in {MatchFrom(list, name, offset) : offset \in DOMAIN list} : name # << >> /\ m.text = << >>}

match_choices_to_bible_book(list) ==
  UNION {match_choices_to_string(list, SearchedNames[k]) : k \in DOMAIN SearchedNames}

\* Variant of Earlier: the matches are tried as they have been found.
EarlierFound(match, other) == TRUE

\* The matches are tried in the order of their confidence, equal ones in any order.
Earlier(match, other) == match.confidence > other.confidence

\* indexed_chars: the text of a match, each byte with the place it was read at.
indexed_chars(match) ==
  FlattenSeq([i \in DOMAIN match.strings |-> [k \in DOMAIN match.strings[i] |-> <<i, match.strings[i][k]>>]])

\* min_distance_index: the first of the bytes that are nearest.
min_distance_index(distances) ==
  CHOOSE i \in DOMAIN distances : \A j \in DOMAIN distances :
    distances[i] < distances[j] \/ (distances[i] = distances[j] /\ i <= j)

\* What is parsed for a match: its text, and the byte of it the cursor is next to, with
\* the distances of the characters.  Of a match without a text there is nothing.
position_data(match, distance) ==
  LET chars == indexed_chars(match)
  IN  IF chars = << >> THEN {}
      ELSE {[text |-> [k \in DOMAIN chars |-> chars[k][2]], char_data |-> [k \in DOMAIN chars |-> chars[k][1]],
             cursor_character_index |-> min_distance_index([k \in DOMAIN chars |-> distance[chars[k][1]]])]}

find_reference_position_data_from_choices(list, distance) ==
  UNION {position_data(m, distance) : m \in match_choices_to_bible_book(list)}

-----------------------------------------------------------------------------
\* The name a match was made for is what stands at its places.
Spelled(match) ==
  FlattenSeq([i \in DOMAIN match.strings |-> IF i \in match.places THEN match.strings[i] ELSE << >>]) = match.name

\* What a match is read as has the characters of its symbols, one after the other.
CharsKept(match) ==
  for_each_char(FlattenSeq(match.strings)) =
    FlattenSeq([i \in DOMAIN match.strings |-> for_each_char(match.strings[i])])

\* A match that is part of a longer one, read in the same way.
PartOf(match, other) ==
  /\ match.places \subseteq other.places /\ match.places # other.places
  /\ \A i \in match.places : match.strings[i] = other.strings[i]

\* What a match has more than another one is read without any confidence.
Doubtful(list, match, other) ==
  \A i \in match.places \ other.places : Choice(match.strings[i], 0) \in ToSet(list[i])

\* The cursor is taken to be at the begin of the character that is nearest to it, of
\* those that were read as something.
AtCharacter(data, distance) ==
  LET i == data.cursor_character_index
  IN  /\ i = 1 \/ data.char_data[i - 1] # data.char_data[i]
      /\ \A k \in DOMAIN data.char_data : distance[data.char_data[i]] <= distance[data.char_data[k]]
=============================================================================
