CONSTANTS
  LastBook <- MCLastBook
  Verses <- MCVerses
  total_verse_count <- MCTotal
  Numbers <- MCNumbers
  Inputs <- MCInputs
  Letters = {"J", "o", "f", "a"}
  Whitespaces = {" "}
  Lines = {"-"}
  Digit <- MCDigit
  number_postfixes <- MCPostfixes
  name_variants_list <- MCNames
  UintMax = 99
  Numerals <- MCNumerals
  Citations <- MCCitations

SPECIFICATION MCSpec
CHECK_DEADLOCK FALSE

INVARIANTS
  Coherent
  SizeInside
  ReadsAsMeant
  SmallestReading
  RoundTrip
  NamesWhole
PROPERTIES
  IncrementIsNext
