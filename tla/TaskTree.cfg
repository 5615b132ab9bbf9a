CONSTANTS
  Task = {p1, p2, c1, c2}
  Agent = {a1, a2}
  None = None
  parentOf <- Crossed
  agentOf <- CrossAgent
  rank <- Order
  attempts <- AgainC1
  MaxResults = 1
  Steered = {p1, c1}
  Failing = {c1}
  Asking = {c1}
  Changing = {c1}
  Dated = {}
  a1 = a1  a2 = a2
  p1 = p1  p2 = p2  c1 = c1  c2 = c2
SPECIFICATION Spec
INVARIANTS
  WorksAlone
  CoverageHonest
  AnswerReachesAsker
PROPERTIES
  NoSilentCycle
CHECK_DEADLOCK FALSE
