SPECIFICATION TQSpec
CONSTANTS
  t1 = t1
  t2 = t2
  t3 = t3
  a = a
  b = b
  h = h
  Threads <- MCThreads
  Tasks <- MCTasks
  Hollow <- MCHollow
  NoThread = NoThread
  NoTask = NoTask
INVARIANTS
  NoLostWakeup
  NobodySleepsOnDestroyed
PROPERTIES
  DtorEnds
