CONSTANTS
  t1 = t1
  t2 = t2
  t3 = t3
  t4 = t4
  Tasks = {t1, t2, t3, t4}
  Method <- MCMethod
  w1 = w1
  w2 = w2
  Workers = {w1, w2}
  QueueSize = 1
  s1 = s1
  s2 = s2
  Stoppers = {s1, s2}
  NoTask = NoTask
SPECIFICATION Spec
INVARIANTS TypeOK NoSendOnClosedChannel TasksRunAsPromised
PROPERTIES CallsTerminate ImplementsService
CHECK_DEADLOCK FALSE
