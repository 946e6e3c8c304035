\* One database, one start that is cut short and a second one.
SPECIFICATION Spec
CONSTANTS
  Reader = {r1}
  Units = 2
  LastDatabase = 1
  MaxStarts = 2
  ClockSteps = {1}
  Absent = Absent
  Empty = Empty
  Torn = Torn
  None = None
INVARIANT DbInitSucceeds
CHECK_DEADLOCK FALSE
