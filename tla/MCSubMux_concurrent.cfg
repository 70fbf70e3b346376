SPECIFICATION Spec
CONSTANTS
  h1 = h1
  h2 = h2
  s1 = s1
  s2 = s2
  s3 = s3
  ch1 = ch1
  ch2 = ch2
  NoSub = NoSub
  NoConn = NoConn
  NoChannel = NoChannel
  Handles <- TwoHandles
  Subs <- MixedSubs
  SubsOf <- MixedSubsOf
  ChannelOf <- MixedChannelOf
  TypeOf <- MixedTypeOf
  Channels = {ch1, ch2}
  Types = {"SUBSCRIBE"}
  Conns = {c1}
  CmdCap = 1
  MaxPublish = 0
  MaxBreaks = 1
  Deadlined = {h1}
  UnsubDeadlined = {}
  Unsubscribers = {}
  Serial = FALSE
  MayClose = FALSE
  AutoResubscribe = FALSE
  c1 = c1
  c2 = c2
INVARIANTS
  TypeOK
  PendingHasOwner
  NoLostWakeup
  FailedLeavesNothing
PROPERTIES
  SubscribeReturns
CHECK_DEADLOCK FALSE
