------------------------------- MODULE Library -------------------------------
(***************************************************************************)
(* The functions of bibstd that keep no state, each called with all the    *)
(* arguments of a small set: call tells which of them, and with what.      *)
(* Beside them the objects of the modules ScopedCounter and TrayMenu live  *)
(* their lives.                                                            *)
(***************************************************************************)
EXTENDS Choices, Lookup, ScopedCounter, TrayMenu

Math == INSTANCE Geometry
Screen == INSTANCE Picture
Data == INSTANCE BibleData
Enums == INSTANCE Enumerations
Bible == INSTANCE BibleTable WITH
  LastBook <- Data!END - 1, Verses <- Data!books, total_verse_count <- Data!TotalVerseCount
Reader == INSTANCE BookNames WITH
  Letters <- Data!letters, Whitespaces <- Data!whitespaces, Lines <- Data!lines, Digit <- Data!digits,
  number_postfixes <- Data!number_postfixes, name_variants_list <- Data!name_variants_list,
  UintMax <- 2 ^ 30   \* no number of a printed text is larger

\* The names fit find_book(), and the table has a verse more than its number says.
ASSUME DataAssumption ==
  /\ Reader!NamesFit
  /\ Cardinality(Bible!Places) = Data!TotalVerseCount + 1

CONSTANTS
  Types,                  \* the integer types, see Math!Type
  RectType, Coordinates,  \* the type of the rectangles, the values of two of them
  Lists,                  \* the choices of an image, as they are found
  Ranges, Translations,   \* what a lookup is called with
  Neighbours,             \* the books another one may be cited with
  Sizes, ByteCounts       \* of the pictures

ASSUME RangesAssumption ==
  \A range \in Ranges : IsReference(range.from) /\ IsReference(range.to) /\ ~Less(range.to, range.from)

ASSUME TranslationsAssumption == \A translations \in Translations : translations \in Seq(ToSet(translations))

\* Of each character of an image tesseract finds choices.
ASSUME ListsAssumption ==
  \A list \in Lists :
    /\ list \in Seq(ToSet(list))
    /\ \A i \in DOMAIN list : list[i].found \in Seq(Found) /\ list[i].main \in Found

\* A screen is far from the limits of the type: distances and areas on it are values of it.
ASSUME CoordinatesAssumption ==
  /\ RectType \in Types /\ RectType.signed
  /\ \A a, b, c, d \in Coordinates :
       /\ a \in Math!ValuesOf(RectType) /\ a < Math!max(RectType)
       /\ a - b < Math!max(RectType) /\ (a - b) * (c - d) <= Math!max(RectType)

\* A pixel of the device has a byte for each colour.
ASSUME PicturesAssumption ==
  /\ Sizes \subseteq Nat \ {0}
  /\ \A n \in ByteCounts : n \in Nat /\ n >= 3

\* The enumerations of the program that are printed, or are between BEGIN and END; an int is taken to
\* have nine bits, to be wider than the values magic_enum looks at.
int == Math!Type(9, TRUE)
Declared == [
  book_id |-> Enums!Fenced(int, Data!book_id),
  testament_id |-> Enums!Fenced(int, Data!testament_id),
  translation |-> Enums!Fenced(int, Data!translation),
  error_code |-> Enums!Plain(int, <<"overflow", "underflow", "undefined">>),
  text_resolution |-> Enums!Plain(int, <<"character", "word", "line", "paragraph">>)]

\* The limits of the types; that 2 ^ bits is the double of 2 ^ (bits - 1) goes for every width.
ASSUME TypesAssumption ==
  \A T \in Types :
    /\ T.bits \in Nat \ {0} /\ T.signed \in BOOLEAN
    /\ 2 ^ (T.bits - 1) \in Nat \ {0} /\ 2 ^ T.bits = 2 * 2 ^ (T.bits - 1)

VARIABLE call

vars == <<call, counter_vars, menu_vars>>

\* What is used: a function, the counters or the menu.
Used == {"math", "rect", "choices", "lookup", "names", "screen", "counters", "menu"}
Init == (\E used \in Used : call = [of |-> "nothing", used |-> used]) /\ CounterInit /\ MenuInit

Idle(used) == call = [of |-> "nothing", used |-> used]
Call(arguments) == call' = arguments /\ UNCHANGED <<counter_vars, menu_vars>>

Compute ==
  Idle("math") /\ \E T \in Types, operation \in Math!Operations : \E m, n \in Math!ValuesOf(T) :
    Call([of |-> "arithmetic", type |-> T, operation |-> operation, m |-> m, n |-> n])

MakeRectangle ==
  Idle("rect") /\ \E x, y, width, height \in Math!ValuesOf(RectType) :
    Call([of |-> "rectangle", x |-> x, y |-> y, width |-> width, height |-> height])

\* Rectangles within the coordinates, those of no width or height included.
Within ==
  {[x |-> [begin |-> a, end |-> b], y |-> [begin |-> c, end |-> d]] :
     a, b, c, d \in Coordinates}
Rectangles == {r \in Within : r.x.begin <= r.x.end /\ r.y.begin <= r.y.end}

CompareRectangles ==
  Idle("rect") /\ \E r, s \in Rectangles : Call([of |-> "rectangles", r |-> r, s |-> s])

MatchChoices ==
  Idle("choices") /\ \E list \in Lists :
    LET sorted(i) == SortedChoices(list[i].found, list[i].main)
    IN  \E choices \in [DOMAIN list -> UNION {sorted(i) : i \in DOMAIN list}] :
          (\A i \in DOMAIN list : choices[i] \in sorted(i)) /\ Call([of |-> "choices", list |-> choices])

OpenPages ==
  Idle("lookup") /\ \E range \in Ranges, translations \in Translations, outcome \in [1 .. 2 -> Outcomes] :
    Call([of |-> "pages", range |-> range, translations |-> translations,
          outcome |-> [n \in 1 .. 10 |-> IF n \in 1 .. 2 THEN outcome[n] ELSE "opened"]])

\* Of each book its first verse, the last one of its first chapter, and its last one.
FirstVerse(b) == Bible!Reference(b, 1, 1)
LastOfFirst(b) == Bible!Reference(b, 1, Data!books[b][1])
LastVerse(b) == LET c == Len(Data!books[b]) IN Bible!Reference(b, c, Data!books[b][c])
RealRanges ==
  {ReferenceRange(FirstVerse(b), LastVerse(b)) : b \in Data!Books}
  \cup {ReferenceRange(FirstVerse(b), LastOfFirst(b)) : b \in Data!Books}
  \cup {ReferenceRange(LastVerse(b), LastVerse(b)) : b \in Data!Books}
  \cup {ReferenceRange(LastVerse(b), FirstVerse(c)) : b \in Data!Books, c \in Neighbours}

PrintRange ==
  Idle("names") /\ \E range \in RealRanges :
    Call([of |-> "citation", parts |-> Data!pretty(range), between |-> <<" ", "-", " ">>])

\* Two citations with names that are found.
CiteNames ==
  Idle("names") /\ \E k, l \in DOMAIN Data!name_variants :
    /\ l - 1 \in Neighbours
    /\ \E m \in DOMAIN Data!name_variants[k], n \in DOMAIN Data!name_variants[l] :
         Call([of |-> "citation", between |-> <<";", " ">>,
               parts |-> <<Data!Part(k - 1, Data!name_variants[k][m], <<2, 1>>),
                           Data!Part(l - 1, Data!name_variants[l][n], <<1>>)>>])

PrintEnumerator ==
  Idle("names") /\ \E type \in DOMAIN Declared : \E value \in Math!ValuesOf(int) :
    Call([of |-> "enumerator", type |-> type, value |-> value])

CaptureScreen ==
  Idle("screen") /\ \E width, height \in Sizes, byte_count \in ByteCounts, left \in {0, 5},
                      extension \in {".bmp", ".png"}, opens \in BOOLEAN :
    Call([of |-> "picture", width |-> width, height |-> height, byte_count |-> byte_count, left |-> left,
          extension |-> extension, opens |-> opens])

Count == Idle("counters") /\ CounterNext /\ UNCHANGED <<call, menu_vars>>
UseMenu == Idle("menu") /\ MenuNext /\ UNCHANGED <<call, counter_vars>>

Next ==
  \/ Compute \/ MakeRectangle \/ CompareRectangles \/ MatchChoices
  \/ OpenPages \/ PrintRange \/ CiteNames \/ PrintEnumerator \/ CaptureScreen \/ Count \/ UseMenu

Spec == Init /\ [][Next]_vars
-----------------------------------------------------------------------------
\* "Integer ... arithmetics guard for save math operations guaranteeing over- and
\* underflow protection" (arithmetic.hpp:24): the result is exact, or it is the
\* error that fits, and it can be undone.  That is not so of some products: multiply() fails
\* to see one that is too large by less than its second factor, refuses one that is not too
\* small, but nearly, and fails to see one of the largest value, where its test overflows.
ArithmeticProtected ==
  call.of = "arithmetic" =>
    \/ /\ Math!Protected(call.type, call.operation, call.m, call.n)
       /\ Math!Undone(call.type, call.operation, call.m, call.n)
    \/ Math!NextToLimit(call.type, call.operation, call.m, call.n)
    \/ Math!IncrementWraps(call.type, call.operation, call.m, call.n)

\* A rectangle is the set of its points: one that is made lies where it was asked for, with
\* as many points as asked for, unless an end that is no value of the type puts it elsewhere;
\* where the ends are values it is made if its area is one.  It has its center inside, and
\* all the pixels of its window; and what contains() and overlap() say of two of them is
\* true of these sets, as it is taken for granted by CaptureArea.
RectAgrees ==
  /\ call.of = "rectangle" =>
       /\ Math!MadeAsAsked(RectType, call.x, call.y, call.width, call.height)
       /\ Math!WindowInside(RectType, call.x, call.y, call.width, call.height)
  /\ call.of = "rectangles" => Math!AgreesWithPoints(RectType, call.r, call.s)

\* A name is only found where choices spell it, in whole characters, and parsed with the
\* cursor at the character next to it; and a longer name that was read in the same way is
\* tried first: "1Jo" before "Jo", with whatever symbols were read, unless there is no
\* confidence at all in what it has more.
WholeNameFirst ==
  call.of = "choices" =>
    LET matches == match_choices_to_bible_book(call.list)
    IN  /\ \A m \in matches : Spelled(m) /\ CharsKept(m)
        /\ \A place \in DOMAIN call.list :
             LET distance == [i \in DOMAIN call.list |-> IF i < place THEN place - i ELSE i - place]
             IN  \A data \in find_reference_position_data_from_choices(call.list, distance) :
                   AtCharacter(data, distance)
        /\ \A m, other \in matches : PartOf(m, other) =>
             ~Earlier(m, other) /\ (Earlier(other, m) \/ Doubtful(call.list, other, m))

\* The pages of a range within one book show its verses, each of them once and in
\* their order, and every page in the translations asked for, in their turn.  No verse is
\* left out before one that is shown, whatever the browser fails on; if it does not fail
\* none is left out at all, and after its first failure nothing is opened.  Of a range over
\* several books it is only the first verse that has to be shown.
PagesCoverRange ==
  call.of = "pages" =>
    LET result == open(call.range, call.translations, call.outcome)
        shown(n) == Shown(result.tried[n])
        all == UNION {shown(n) : n \in DOMAIN result.tried}
    IN  /\ \A m, n \in DOMAIN result.tried : m < n => \A p \in shown(m), q \in shown(n) : Before(p, q)
        /\ all \subseteq Named(call.range)
        /\ \A n \in DOMAIN result.tried :
             n < Len(result.tried) \/ result.success <=> Succeeds(call.outcome[n])
        /\ result.tried = << >> <=> call.translations = << >>
        /\ result.success => result.tried # << >>
        /\ \A n \in DOMAIN result.tried : InTranslations(result.tried[n].names, call.translations)
        /\ \A p \in Named(call.range) \ all :
             \/ ~result.success /\ \A q \in all : Before(q, p)
             \/ call.range.from.book # call.range.to.book /\ p # Place(call.range.from)

\* A name stands at the begin of a text, all of which is read.
BeginsWithName(text) ==
  LET s == Reader!Normalized(text)
  IN  \E k \in DOMAIN Data!name_variants_list : Reader!Occurs(Data!name_variants_list[k].name, s, 1)

\* What is printed, or cited with one of the names, is found with the cursor at both its
\* ends, with its own book and numbers, whatever stands beside it.  There are two
\* exceptions: the book that is printed with a name that is not looked for ("Hoheslied"),
\* and a verse before a name it makes another name of ("Rut 1, 1 - Johannes 1, 1").
\* So is an enumerator, by the name it is printed with in a settings file.
PrintedIsFound ==
  /\ call.of = "enumerator" => Enums!FoundByName(Declared[call.type], call.value)
  /\ call.of = "citation" =>
    LET parts == call.parts
        text == IF Len(parts) = 1 THEN parts[1].text ELSE parts[1].text \o call.between \o parts[2].text
        begin(n) == IF n = 1 THEN 1 ELSE Len(text) - Len(parts[2].text) + 1
        taken == Len(parts) = 2 /\ BeginsWithName(<<Last(parts[1].text)>> \o parts[2].text)
    IN  \A n \in DOMAIN parts :
          \A place \in {begin(n), begin(n) + Len(parts[n].text) - 1} :
            LET found == Reader!find_book(text, place)
            IN  IF ~BeginsWithName(parts[n].text)
                  THEN found = {} /\ parts[n].book = Data!song_of_solomon
                ELSE ~taken =>
                  \E f \in found :
                    /\ f.book = parts[n].book
                    /\ Reader!create_passage_template(text, f.numbers) = parts[n].template

\* What is captured of the screen, and that the rows of the device are not padded.
Captured ==
  Screen!capture(call.width, call.height, call.byte_count,
    Screen!DeviceBytes(call.width, call.height, call.byte_count, call.left))
RowsAreFull == Screen!RowBytes(call.width, call.byte_count) = call.width * call.byte_count

\* What is captured begins with the upper line of the screen, and so the picture tesseract
\* reads is the one on the screen, upright, whatever an earlier and larger one has left in
\* the buffer, unless the rows of the device are padded: a display with 24 bits for a
\* pixel.  Only its colours are not in their places.  Saved in a file it is the same picture.
PictureUpright ==
  call.of = "picture" =>
    LET plane == Captured
    IN  RowsAreFull =>
          /\ Screen!UpperLineFirst(plane)
          /\ \A before \in {Screen!pix(Screen!Plane(0, 0, << >>)), Screen!pix(plane)} :
               Screen!Upright(Screen!update(before, plane))
          /\ Screen!SavedAsShown(plane, call.extension, call.opens)

\* "The first line of pixels (bottom left to right) are saved first within the pixels data"
\* (screen_windows.hpp:58).
BottomLineFirst == call.of = "picture" /\ RowsAreFull => Screen!LowerLineFirst(Captured)
=============================================================================
