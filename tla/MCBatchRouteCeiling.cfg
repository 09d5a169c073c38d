SPECIFICATION FairSpec
CONSTANTS
  e1 = e1
  BatchSize = 3
  BatchConcurrency = 2
  Errors <- OneError
  NONE = NONE
INVARIANTS
  PerRequestCeiling
CHECK_DEADLOCK FALSE
