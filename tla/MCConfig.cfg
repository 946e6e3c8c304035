\* Two databases, more readers than units, four starts, a clock that goes on
\* or is set back, and failures at any point.
SPECIFICATION Spec
CONSTANTS
  r1 = r1
  r2 = r2
  r3 = r3
  Reader = {r1, r2, r3}
  Units = 2
  LastDatabase = 2
  MaxStarts = 4
  ClockSteps <- MCClockSteps
  Absent = Absent
  Empty = Empty
  Torn = Torn
  None = None
  Model = "CamPi"
  Zone <- MCZone
  DefaultFile <- MCDefaultFile
  Address <- MCAddress
  Escaped <- MCEscaped
  MaxServers = 2
INVARIANTS
  TypeOK
  ReadsWhole
  SettingsKept
PROPERTIES
  ReadsStable
  LoadsNewestSave
CHECK_DEADLOCK FALSE
