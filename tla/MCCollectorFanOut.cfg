SPECIFICATION FairSpec
CONSTANTS
  N = 4
  Concurrency = 3
  NONE = NONE
  e1 = e1
  e2 = e2
  Errors <- TwoErrors
INVARIANTS
  TypeOK
  FailClosed
  BoundedCalls
  SettledHoldsNothing
  FailureNamed
PROPERTIES
  NoLateInvocation
  Settles
  KeepsPromise
CHECK_DEADLOCK FALSE
