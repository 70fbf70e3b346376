\* Four calls of enqueue, one of them by a goroutine Close does not join, and
\* a queue of one: overflow episodes open and end while drains hand over.
CONSTANTS
  m1 = m1
  m2 = m2
  m3 = m3
  m4 = m4
  Msg = {m1, m2, m3, m4}
  Detached = {m4}
  MaxQueueSize = 1
SPECIFICATION Spec
INVARIANTS TypeOK OneDrainWhileNeeded FifoDelivery OneSignalPerEpisode
  CloseWaitsForCallbacks
PROPERTIES AcceptedIsStarted CloseReturns
CHECK_DEADLOCK FALSE
