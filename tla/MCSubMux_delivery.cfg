SPECIFICATION Spec
CONSTANTS
  h1 = h1
  h2 = h2
  s1 = s1
  s2 = s2
  s3 = s3
  ch1 = ch1
  ch2 = ch2
  NoSub = NoSub
  NoConn = NoConn
  NoChannel = NoChannel
  Handles <- TwoHandles
  Subs <- TwoSubs
  SubsOf <- TwoSubsOf
  ChannelOf <- TwoChannelOf
  TypeOf <- TwoTypeOf
  Channels = {ch1}
  Types = {"SUBSCRIBE"}
  Conns = {c1}
  CmdCap = 1
  MaxPublish = 2
  MaxBreaks = 1
  Deadlined = {}
  UnsubDeadlined = {h1}
  Unsubscribers = {h1, h2}
  Serial = FALSE
  MayClose = FALSE
  AutoResubscribe = TRUE
  c1 = c1
  c2 = c2
INVARIANTS
  DeliveryInOrder
  ConfirmedBeforeReturn
PROPERTIES
  QuietAfterUnsubscribe
CHECK_DEADLOCK FALSE
