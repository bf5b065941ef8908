CONSTANTS
  w1 = w1
  w2 = w2
  k1 = k1
  k2 = k2
  k3 = k3
  a1 = a1
  a2 = a2
  a3 = a3
  NoWorkflow = NoWorkflow
  NoAgent = NoAgent
  NoCall = NoCall
  Workflows = {w1, w2}
  Calls = {k1, k2}
  Agents = {a1, a2}
  MaxConcurrent = 1
  MaxClicks = 1
  SameThread = TRUE
  ReportOp = "send"
SPECIFICATION Spec
SYMMETRY Symmetry
INVARIANTS
  UnknownOnlyIfClosed
  ClosedFirstIterationHasNoAgent
