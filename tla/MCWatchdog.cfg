\* One service with a sub-service: crashes, silence, late packets.
SPECIFICATION FairSpec
CONSTANTS
  svc = svc
  main = main
  None = None
  p1 = p1
  p2 = p2
  p3 = p3
  p4 = p4
  Pid = {p1, p2, p3}
  Name = {svc}
  Mode <- Registered
  SubUsers = {svc}
  Twice = {}
  Documented = TRUE
  Timeout = 1
  Period = 1
  MaxPackets = 2
INVARIANTS
  TypeOK
  SubsOfTheirOwn
PROPERTIES
  Restarted
  SilenceNoticed
CHECK_DEADLOCK FALSE
