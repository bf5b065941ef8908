CONSTANTS
  c1 = c1
  c2 = c2
  c3 = c3
  a = a
  b = b
  r1 = r1
  r2 = r2
  r3 = r3
  r4 = r4
  system = system
  news = news
  System = system
  NoConn = NoConn
  NoSandbox = NoSandbox
  NoRequest = NoRequest
  Sandboxes = {a, b}
  Conns = {c1, c2, c3}
  Channels = {system}
  Requests = {r1}
  MaxPending = 1
  MaxChannels = 1
  ClientOps <- RequestOps
SPECIFICATION Spec
SYMMETRY Symmetry
INVARIANT CleanedUp
