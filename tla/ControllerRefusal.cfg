CONSTANTS
  Server = {p1}
  Migrator = {}
  Client = {}
  Port = {o1}
  Path = {state, other}
  StatePath = state
  LegacyPath = legacy
  None = None
  Foreign = Foreign
  MaxStarts = 3
  MaxRows = 0
  MaxChecks = 0
SPECIFICATION Spec
INVARIANT RefusedIsOld
