SPECIFICATION Spec
CONSTANTS
  s1 = s1
  s2 = s2
  s3 = s3
  ch1 = ch1
  ch2 = ch2
  n1 = n1
  n2 = n2
  c1 = c1
  c2 = c2
  c3 = c3
  h1 = h1
  h2 = h2
  Subs = {s1, s2, s3}
  Channels = {ch1, ch2}
  ChannelOf <- TwoChannelsOf
  Starts <- StartsWithTwo
  Nodes = {n1, n2}
  Conns = {c1, c2, c3}
  Handles = {h1, h2}
  MaxEvents = 2
  NoSub = NoSub
  NoConn = NoConn
  NoNode = NoNode
  NoHandle = NoHandle
INVARIANTS
  RepairedUnlessCut
PROPERTIES
  TimeoutIsTold Settles
CHECK_DEADLOCK FALSE
