SPECIFICATION FairSpec
CONSTANTS
  MaxRequests = 3
  MaxServed = 4
  NONE = NONE
INVARIANTS
  SecondSignalIgnored
CHECK_DEADLOCK FALSE
