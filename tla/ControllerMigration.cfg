CONSTANTS
  Server = {p1}
  Migrator = {m1}
  Client = {}
  Port = {o1}
  Path = {state, legacy}
  StatePath = state
  LegacyPath = legacy
  None = None
  Foreign = Foreign
  MaxStarts = 3
  MaxRows = 1
  MaxChecks = 0
SPECIFICATION FairSpec
INVARIANTS
  LegacyKept
  ManifestIsTrue
PROPERTY StartEnds
