\* A program started twice, and one that reboots: safety only.
SPECIFICATION Spec
CONSTANTS
  svc = svc
  main = main
  None = None
  p1 = p1
  p2 = p2
  p3 = p3
  p4 = p4
  Pid = {p1, p2, p3, p4}
  Name = {svc, main}
  Mode <- Registered
  SubUsers = {}
  Twice = {svc}
  Documented = TRUE
  Timeout = 1
  Period = 1
  MaxPackets = 2
SYMMETRY Interchangeable
INVARIANTS
  NamesListedOnce
  ArmedByItself
CHECK_DEADLOCK FALSE
