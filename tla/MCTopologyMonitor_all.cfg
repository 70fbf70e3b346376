SPECIFICATION Spec
CONSTANTS
  n1 = n1
  n2 = n2
  r1 = r1
  k1 = k1
  h1 = h1
  h2 = h2
  s1 = s1
  s2 = s2
  LastSlot = 1
  Nodes = {n1, n2}
  FirstMasters = {n1}
  Subs = {s1}
  HashslotOf <- AllOfOne
  Redirects = {r1}
  Callers = {k1}
  Handles = {h1, h2}
  AutoResubscribe = TRUE
  MaxEvents = 2
  NoNode = NoNode
  NoHandle = NoHandle
  NoOne = NoOne
  NoSlot = NoSlot
INVARIANTS
  KnowledgeIsSound
  NoMoveLost
  NewestIsCancellable
  NothingAfterStop
PROPERTIES
  NeverBackwards
  StopReturns
  CatchesUp
CHECK_DEADLOCK FALSE
