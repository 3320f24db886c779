SPECIFICATION MLSpec
CONSTANTS
  Main = Main
  c1 = c1
  c2 = c2
  a = a
  b = b
  x = x
  y = y
  Threads <- MCThreads
  Tasks <- MCTasks
  Dummies <- MCDummies
  Hollow = {}
  NoThread = NoThread
  NoTask = NoTask
INVARIANTS
  OneTaskAfterExit
PROPERTIES
  ExitEndsLoop
