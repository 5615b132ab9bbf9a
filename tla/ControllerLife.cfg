CONSTANTS
  Server = {p1, p2}
  Migrator = {}
  Client = {c}
  Port = {o1}
  Path = {state, other}
  StatePath = state
  LegacyPath = legacy
  None = None
  Foreign = Foreign
  MaxStarts = 2
  MaxRows = 0
  MaxChecks = 2
SPECIFICATION Spec
SYMMETRY Alike
INVARIANTS
  OneWriter
  LiveDiscovery
  WritesReachDiscovered
PROPERTY KnownMovesForward
