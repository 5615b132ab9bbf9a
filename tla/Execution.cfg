CONSTANTS
  Agent = {a1, a2}
  Role = {r1}
  Task = {t1, t2}
  Path = {dir, file}
  None = None
  member <- OneRole
  roleOf <- TaskRole
  named <- StepAndAsk
  writes <- DirAndFile
  Overlap <- Nested
  MaxParallel = 1
  attempts <- OnceAndTwice
  MaxFencing = 3
  MaxBinding = 2
  Leaving = {a2}
  Dated = {t2}
  a1 = a1  a2 = a2  r1 = r1
  t1 = t1  t2 = t2  t3 = t3
  dir = dir  file = file
SPECIFICATION Spec
INVARIANTS
  ReservedIffLive
  LeaseOfCurrentSegment
  PathsExclusive
  ExecutesForCurrentIdentity
PROPERTY ImplementsGrants
CHECK_DEADLOCK FALSE
