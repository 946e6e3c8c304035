\* Three threads and two names, the calls of Administered kept apart.
SPECIFICATION Spec
CONSTANTS
  t1 = t1
  t2 = t2
  t3 = t3
  a = a
  b = b
  s1 = s1
  s2 = s2
  s3 = s3
  m1 = m1
  m2 = m2
  None = None
  Task = {t1, t2, t3}
  Name = {a, b}
  Seg = {s1, s2, s3}
  Mgr = {m1, m2}
  Conflicts <- Administered
  Failures = {"enomem"}
SYMMETRY Symmetric
INVARIANTS
  TypeOK
  PointersAlive
  RefcntExact
PROPERTY
  QueuesKept
