CONSTANTS
  Inputs <- MCInputs
  Window <- MCWindow
  Rows = 3
  Columns = 10
  CharWidth = 6
  CharHeight = 5
  Pitch = 8
  Left = 12
  Top = 12
  assumed_initial_char_height = 3

SPECIFICATION Spec
CHECK_DEADLOCK FALSE

INVARIANT NextLineSeen
