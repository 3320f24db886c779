SPECIFICATION Spec
CONSTANTS
  Keys <- MCKeys
  Scripts <- MCScripts
  Jobs <- MCJobs
  MaxInputs = 2
INVARIANTS
  WorkflowOutlivesSearch
  PressCallsItsKey
  QuietEndIsClean
PROPERTIES
  ExitEndsProgram
  RegistrationServed
