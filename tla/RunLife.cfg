CONSTANTS
  Run = {r1}
  Team = {teamA}
  Role = {w}
  Task = {t1, t3}
  NoRun = NoRun
  teamOf <- OneTeamOf
  roster <- OneRoster
  runOf <- OneRunOf
  kind <- OneKind
  roleOf <- OneRoleOf
  MaxAttempts = 2
  MaxGuidance = 1
  MaxEpoch = 2
  r1 = r1  r2 = r2  r3 = r3
  t1 = t1  t2 = t2  t3 = t3
  teamA = teamA  teamB = teamB
  w = w  v = v
SPECIFICATION Spec
INVARIANTS
  UnresolvedImpliesHold
  GuidanceReachesLeader
  IntentNeedsWorkingRun
PROPERTIES
  HoldBlocksNewSegments
