CONSTANTS
  m1 = m1
  m2 = m2
  k1 = k1
  k2 = k2
  th = th
  Stray = Stray
  None = None
  Messages = {m1, m2}
  Clicks = {k1, k2}
  Threads = {th}
  MaxHistory = 2
  ErrorLimit = 1
  MaxRefusals = 2
SPECIFICATION Spec
SYMMETRY Symmetry
INVARIANTS
  SettledOnce
  TurnCommittedOnce
  InFlightExact
  NoForgottenPlaceholder
