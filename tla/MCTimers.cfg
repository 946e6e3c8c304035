CONSTANTS
  TVR_BITS = 1
  TVN_BITS = 1
  WORD_BITS = 5
  far = far
  near = near
  Timer <- MCTimer
  Periods <- MCPeriods
  MaxLate = 1
  ExitAt = {1, 11}
  Root = Root
  None = None
SPECIFICATION FairSpec
INVARIANTS TypeOK OnePlace ListedAlive CaughtUp
PROPERTIES RingsOnTime Rings
CHECK_DEADLOCK FALSE
