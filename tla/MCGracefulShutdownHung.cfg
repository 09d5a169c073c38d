SPECIFICATION FairSpec
CONSTANTS
  MaxRequests = 3
  MaxServed = 4
  NONE = NONE
INVARIANTS
  HungCleanupShows
CHECK_DEADLOCK FALSE
