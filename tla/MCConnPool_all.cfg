SPECIFICATION Spec
CONSTANTS
  Callers = {k1, k2}
  Slots = {a}
  n1 = n1
  n2 = n2
  Nodes = {n1, n2}
  Conns = {c1, c2, c3}
  Views <- PairOrUnknown
  FirstViews <- FirstOrUnknown
  Preferences <- Modes
  MaxCalls = 3
  MaxEvents = 1
  NoConn = NoConn
  NoNode = NoNode
INVARIANTS
  RegistriesAgree
  FreshUnlessRaced
  CloseClosesAll
PROPERTIES
  WaitersReturn
CHECK_DEADLOCK FALSE
