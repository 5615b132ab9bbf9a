CONSTANTS
  Run = {r1}
  Team = {teamA}
  Role = {w}
  Task = {t1, t2, t3}
  NoRun = NoRun
  teamOf <- OneTeamOf
  roster <- OneRoster
  runOf <- OneRunOf
  kind <- ReviewKind
  roleOf <- OneRoleOf
  MaxAttempts = 1
  MaxGuidance = 0
  MaxEpoch = 1
  r1 = r1  r2 = r2  r3 = r3
  t1 = t1  t2 = t2  t3 = t3
  teamA = teamA  teamB = teamB
  w = w  v = v
SPECIFICATION Spec
INVARIANTS
  CompletedMeansDone
