CONSTANTS
  Types <- MCTypes
  RectType <- MCRectType
  Coordinates <- MCCoordinates
  Digits <- MCDigits
  Letters <- MCLetters
  Whitespaces <- MCWhitespaces
  Lines <- MCLines
  Fullstop = 7
  SearchedNames <- MCNames
  Lists <- MCLists
  LastBook <- MCLastBook
  Verses <- MCVerses
  total_verse_count <- MCTotal
  TranslationNames <- MCMap
  Ranges <- MCRanges
  Neighbours <- MCNeighbours
  Translations <- MCTranslations
  Sizes = {1, 2, 4, 5}
  ByteCounts = {3, 4}
  Counters = {c1, c2}
  Incrementors = {i1, i2, i3}
  null = null
  gone = gone
  MaxCount = 5
  MaxEntries = 4
  MaxChoices = 3

SPECIFICATION Spec
CHECK_DEADLOCK FALSE

INVARIANT BottomLineFirst
