CONSTANTS
  Run = {r1, r2, r3}
  Team = {teamA, teamB}
  Role = {w, v}
  Task = {t1}
  NoRun = NoRun
  teamOf <- QueueTeamOf
  roster <- QueueRoster
  runOf <- QueueRunOf
  kind <- QueueKind
  roleOf <- QueueRoleOf
  MaxAttempts = 1
  MaxGuidance = 0
  MaxEpoch = 1
  r1 = r1  r2 = r2  r3 = r3
  t1 = t1  t2 = t2  t3 = t3
  teamA = teamA  teamB = teamB
  w = w  v = v
SPECIFICATION FairSpec
INVARIANTS
  AdmissionIsOnePass
  OwnsWholeRoster
  OneActiveRunPerTeam
  NoOvertake
  RolesHeldWhileExecuting
PROPERTIES
  HandOver
  ImplementsReservations
