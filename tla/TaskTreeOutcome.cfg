CONSTANTS
  Task = {p1, c1}
  Agent = {a1, a2}
  None = None
  parentOf <- Crossed
  agentOf <- CrossAgent
  rank <- Order
  attempts <- OnlyOnce
  MaxResults = 1
  Steered = {p1, c1}
  Failing = {c1}
  Asking = {}
  Changing = {}
  Dated = {c1}
  a1 = a1  a2 = a2
  p1 = p1  p2 = p2  c1 = c1  c2 = c2
SPECIFICATION Spec
INVARIANT
  ChildOutcomeReachesParent
CHECK_DEADLOCK FALSE
