SPECIFICATION Spec
CONSTANTS
  c1 = c1
  a = a
  b = b
  p = p
  q = q
  s = s
  Callers <- MCCallers
  Tasks <- MCTasks
  Strands <- MCStrands
  Plain = Plain
  StrandOf <- MCStrandOf
  MayThrow <- MCMayThrow
  NoTask = NoTask
  NoThread = NoThread
INVARIANTS
  StrandInOrder
  IdsTellWork
  Independent
PROPERTIES
  ImplementsPool
  AcceptedTaskRuns
  ShutdownEnds
