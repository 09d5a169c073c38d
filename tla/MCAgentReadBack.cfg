SPECIFICATION FairSpec
CONSTANTS
  NONE = NONE
  k1 = k1
  k2 = k2
  p1 = p1
  p2 = p2
  Calls <- TwoCalls
  Prints <- OnePrint
  Interval = 2
  MaxFaults = 3
INVARIANTS
  LateAnswersRefused
PROPERTIES
  FoundIsLeft
  SilentOnlyIfUnheard
  DetectionWindow
  Heals
CHECK_DEADLOCK FALSE
