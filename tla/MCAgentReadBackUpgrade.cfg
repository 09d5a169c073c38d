SPECIFICATION FairSpec
CONSTANTS
  NONE = NONE
  k1 = k1
  k2 = k2
  p1 = p1
  p2 = p2
  Calls <- OneCall
  Prints <- TwoPrints
  Interval = 2
  MaxFaults = 2
PROPERTIES
  ResumesOnceRestored
CHECK_DEADLOCK FALSE
