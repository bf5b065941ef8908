CONSTANTS
  w1 = w1
  w2 = w2
  k1 = k1
  k2 = k2
  k3 = k3
  a1 = a1
  a2 = a2
  a3 = a3
  NoWorkflow = NoWorkflow
  NoAgent = NoAgent
  Workflows = {w1, w2}
  Calls = {k1, k2, k3}
  Agents = {a1, a2, a3}
  MaxConcurrent = 1
SPECIFICATION Spec
SYMMETRY Symmetry
INVARIANTS
  TypeOK
  SlotsConserved
  NoOrphanProcess
PROPERTY OnlyOwnerEvicts
