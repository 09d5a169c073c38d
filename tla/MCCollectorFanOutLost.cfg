SPECIFICATION FairSpec
CONSTANTS
  N = 3
  Concurrency = 2
  NONE = NONE
  e1 = e1
  e2 = e2
  Errors <- TwoErrors
PROPERTIES
  NotInvokedOnceLost
CHECK_DEADLOCK FALSE
