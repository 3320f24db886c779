CONSTANTS
  t1 = t1
  t2 = t2
  Threads = {t1, t2}
  NoThread = NoThread
  height = height
  translations = translations
  e1 = e1
  e2 = e2
  Scalars = {height}
  Lists = {translations}
  Elements = {e1, e2}
  Bad = Bad
  Huge = Huge
  None = None
  Torn = Torn
  Values <- MCValues
  Default <- MCDefault
  MaxLength = 2
  MaxTrees = 2
  MaxRuns = 2
  MaxOps = 2

SPECIFICATION Spec
SYMMETRY MCThreads
CHECK_DEADLOCK FALSE

INVARIANTS
  TreeHoldsSettings
  OneTreePerFile
  ValueSurvives
