SPECIFICATION AWSpec
CONSTANTS
  Worker = Worker
  Owner = Owner
  c1 = c1
  c2 = c2
  a = a
  b = b
  h = h
  Threads <- MCThreads
  Tasks <- MCTasks
  Hollow <- MCHollow
  NoThread = NoThread
  NoTask = NoTask
PROPERTIES
  ImplementsSerialExecutor
  EveryTaskServed
  ShutdownReturns
