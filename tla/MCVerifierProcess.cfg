SPECIFICATION ProcessSpec
CONSTANTS
  MaxRequests = 3
  MaxServed = 4
  NONE = NONE
  ABSENT = ABSENT
  MALFORMED = MALFORMED
  MAX_TIMER_MS = 600000
  TTL = 2
  Buffer = 1
  Staging = 3
  Horizon = 8
  Lives <- MCLives
  Requests <- MCRequests
  Incoming <- MCIncoming
INVARIANTS
  ZeroMeansClean
  AnswersEarned
  NoOutage
  RetiredDies
  BootMeansService
PROPERTIES
  ShutdownEnds
CHECK_DEADLOCK FALSE
