\* One database, three starts, and a clock that is set back before one of them.
SPECIFICATION Spec
CONSTANTS
  r1 = r1
  r2 = r2
  r3 = r3
  Reader = {r1}
  Units = 2
  LastDatabase = 1
  MaxStarts = 3
  ClockSteps <- MCClockSteps
  Absent = Absent
  Empty = Empty
  Torn = Torn
  None = None
  Model = "CamPi"
  Zone <- MCZone
  DefaultFile <- MCDefaultFile
  Address <- MCAddress
  Escaped <- MCEscaped
  MaxServers = 2
PROPERTY LoadsLastSave
CHECK_DEADLOCK FALSE
