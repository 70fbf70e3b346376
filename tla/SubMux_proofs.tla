---------------------------- MODULE SubMux_proofs ----------------------------
(***************************************************************************)
(* Type correctness of SubMux and the absence of lost wake-ups, for any    *)
(* callers, channels, connections, bounds and configuration.               *)
(***************************************************************************)
EXTENDS SubMux, WellFoundedInduction, TLAPS

\* The subscription exists: setState on it goes through Pending.
Alive == {s \in Subs : state[s] # "none"}

\* The places of subscribeToChannel after the subscription has been created.
CreatedPcs ==
  {"register", "send", "confirm", "waitActive", "checkState", "checkPending", "activate",
   "dropPending", "untrack", "unregister"}

AppendedChannels(h) == {ChannelOf[s] : s \in Appended(h)}

\* What a caller's local variables hold at each place.
PlacedAt(h) ==
  /\ idx[h] <= Len(SubsOf[h]) + 1
  /\ pc[h] \in {"new", "lookup", "create", "list", "track"} \cup CreatedPcs
       => idx[h] <= Len(SubsOf[h])
  /\ pc[h] \in {"list", "track"} \cup CreatedPcs => CurConn(h) \in Conns
  /\ chTodo[h] \subseteq AppendedChannels(h)
  /\ awaiting[h] \subseteq AppendedChannels(h)
  /\ pc[h] \in {"uSend", "uClean", "uRemove"} => curCh[h] \in AppendedChannels(h)

Placed == \A h \in Handles : PlacedAt(h)

\* Whatever a goroutine holds or finds is a subscription that was created.
ConnAlive(c) ==
  /\ subscriptions[c] \subseteq Alive /\ loopTodo[c] \subseteq Alive
  /\ \A ch \in Channels : pending[c][ch] \in Alive \cup {NoSub}
  /\ \A i \in 1..Len(cmdCh[c]) : cmdCh[c][i].sub \in Alive
  /\ loop[c] \in {"expired", "rejected", "confirm", "unpend", "signal", "handOver"}
       => loopSub[c] \in Alive

CallAlive(h) ==
  /\ Appended(h) \subseteq Alive
  /\ pc[h] \in CreatedPcs => Cur(h) \in Alive
  /\ pc[h] \in {"waitActive", "checkPending"} => waitOn[h] \in Alive

AllAlive ==
  /\ global \subseteq Alive /\ closeSubs \subseteq Alive
  /\ \A c \in Conns : ConnAlive(c)
  /\ \A h \in Handles : CallAlive(h)

\* A subscription that has left Pending has signalled it, both ways.
Signalled ==
  /\ \A s \in Subs : state[s] \in {"active", "failed", "closed"} => doneCh[s] # "open"
  /\ \A h \in Handles :
       pc[h] \in {"register", "send", "confirm"} /\ state[Cur(h)] # "pending"
         => confirmCh[Cur(h)] # "empty"

IInv == TypeOK /\ Placed /\ AllAlive /\ Signalled

-----------------------------------------------------------------------------
(* What the operators that actions share do to the types *)

LEMMA CurTypes ==
  ASSUME TypeOK, Placed, NEW h \in Handles,
         pc[h] \in {"new", "lookup", "create", "list", "track"} \cup CreatedPcs
  PROVE  Cur(h) \in Subs /\ CurChannel(h) \in Channels
<1>1. idx[h] \in 1..Len(SubsOf[h])
      BY DEF TypeOK, CallTypes, Placed, PlacedAt
<1> QED BY <1>1, SubMuxAssumption DEF Cur, CurChannel

LEMMA AppendedTypes ==
  ASSUME TypeOK, Placed, NEW h \in Handles
  PROVE  Appended(h) \subseteq Subs /\ AppendedChannels(h) \subseteq Channels
<1>1. \A i \in 1..(idx[h] - 1) : i \in 1..Len(SubsOf[h])
      BY SubMuxAssumption DEF TypeOK, CallTypes, Placed, PlacedAt
<1>2. Appended(h) \subseteq Subs
      BY <1>1, SubMuxAssumption DEF Appended
<1> QED BY <1>2, SubMuxAssumption DEF AppendedChannels

\* The subscription that unsubscribe takes the connection of exists: a nonempty
\* set of indices has a least element.
LEMMA FirstSubExists ==
  ASSUME TypeOK, Placed, NEW h \in Handles, NEW ch \in AppendedChannels(h)
  PROVE  FirstSub(h, ch) \in Appended(h) /\ ChannelOf[FirstSub(h, ch)] = ch
<1> DEFINE I == {i \in 1..(idx[h] - 1) : ChannelOf[SubsOf[h][i]] = ch}
<1>1. I \subseteq Nat /\ I # {}
  <2>1. PICK s \in Appended(h) : ChannelOf[s] = ch
        BY DEF AppendedChannels
  <2>2. PICK i \in 1..(idx[h] - 1) : SubsOf[h][i] = s
        BY DEF Appended
  <2>3. i \in I
        BY <2>1, <2>2
  <2>4. \A j \in I : j \in Nat
        BY DEF TypeOK, CallTypes
  <2> QED BY <2>3, <2>4
<1>2. PICK m \in I : \A j \in I : ~ (<<j, m>> \in OpToRel(<, Nat))
  <2> HIDE DEF I
  <2> QED BY <1>1, WFMin, NatLessThanWellFounded
<1>3. \A j \in I : ~ (j < m)
      BY <1>1, <1>2 DEF OpToRel
<1>4. \A j \in 1..(m - 1) : ChannelOf[SubsOf[h][j]] # ch
      BY <1>3 DEF TypeOK, CallTypes
<1> QED BY <1>2, <1>4 DEF FirstSub, Appended

LEMMA SetStateTypes ==
  ASSUME SubTypes, NEW s, NEW new \in {"active", "failed", "closed"},
         NEW err \in {"nil", "err"}, SetState(s, new, err)
  PROVE  SubTypes'
BY DEF SubTypes, SetState, Confirmed, Announced

LEMMA SetClosedTypes ==
  ASSUME SubTypes, NEW S, SetClosed(S)
  PROVE  SubTypes'
BY DEF SubTypes, SetClosed, Confirmed, Announced

LEMMA RemoveTypes ==
  ASSUME MetaTypes, NEW c, NEW S, RemoveFromMeta(c, S)
  PROVE  /\ subscriptions' \in [Conns -> SUBSET Subs]
         /\ pending' \in [Conns -> [Channels -> Subs \cup {NoSub}]]
BY DEF MetaTypes, RemoveFromMeta

LEMMA DropPendingTypes ==
  ASSUME MetaTypes, NEW c, NEW ch, DropPending(c, ch)
  PROVE  pending' \in [Conns -> [Channels -> Subs \cup {NoSub}]]
BY DEF MetaTypes, DropPending

LEMMA QueueTypes ==
  ASSUME MetaTypes, NEW c, NEW cmd \in Commands, CanQueue(c), Queue(c, cmd)
  PROVE  cmdCh' \in [Conns -> Seq(Commands)] /\ \A d \in Conns : Len(cmdCh'[d]) <= CmdCap
<1>1. ASSUME NEW d \in Conns
      PROVE  cmdCh'[d] \in Seq(Commands) /\ Len(cmdCh'[d]) <= CmdCap
  <2>1. CASE d = c
    <3>1. cmdCh'[d] = Append(cmdCh[d], cmd) /\ Len(cmdCh[d]) < CmdCap
          BY <2>1 DEF MetaTypes, Queue, CanQueue
    <3> HIDE DEF Commands
    <3> QED BY <3>1, SubMuxAssumption DEF MetaTypes
  <2>2. CASE d # c
        BY <2>2 DEF MetaTypes, Queue
  <2> QED BY <2>1, <2>2
<1>2. cmdCh' = [d \in Conns |-> cmdCh'[d]]
      BY DEF MetaTypes, Queue
<1> QED BY <1>1, <1>2

LEMMA DequeueTypes ==
  ASSUME MetaTypes, NEW c \in Conns, cmdCh[c] # <<>>,
         cmdCh' = [cmdCh EXCEPT ![c] = Tail(@)]
  PROVE  /\ cmdCh' \in [Conns -> Seq(Commands)] /\ \A d \in Conns : Len(cmdCh'[d]) <= CmdCap
         /\ Head(cmdCh[c]) \in Commands
BY SubMuxAssumption DEF MetaTypes

-----------------------------------------------------------------------------
(* Type correctness *)

USE DEF muxVars, subVars, metaVars, loopVars, srvVars, callVars, endVars, callRest, envVars,
        metaEnd, loopFrame, closeFrame

LEMMA GoTypes ==
  ASSUME CallTypes, NEW h, NEW p \in ClientPcs, Go(h, p)
  PROVE  pc' \in [Handles -> ClientPcs]
<1> HIDE DEF ClientPcs
<1> QED BY DEF CallTypes, Go

LEMMA GotoTypes ==
  ASSUME TypeOK, NEW h, NEW p \in ClientPcs, Goto(h, p)
  PROVE  TypeOK'
<1>1. pc' \in [Handles -> ClientPcs]
      BY GoTypes DEF Goto, TypeOK
<1> HIDE DEF ClientPcs
<1> QED BY <1>1 DEF Goto, TypeOK, MuxTypes, SubTypes, MetaTypes, LoopTypes, ServerTypes,
      CallTypes, EndTypes

LEMMA CallerKeepsTypes ==
  ASSUME TypeOK, Placed, NEW h \in Handles,
         Subscribe(h) \/ Unsubscribe(h) \/ Expire(h) \/ CallStep(h)
  PROVE  TypeOK'
<1> USE DEF MuxTypes, LoopTypes, ServerTypes, EndTypes, ClientPcs, UnsubPcs
<1>1. CASE Subscribe(h) \/ Unsubscribe(h)
  <2>1. \E p \in ClientPcs : Goto(h, p)
        BY <1>1 DEF Subscribe, Unsubscribe
  <2> QED BY <2>1, GotoTypes
<1>2. CASE Expire(h)
      BY <1>2 DEF Expire, TypeOK, SubTypes, MetaTypes, CallTypes
<1>3. CASE Lookup(h)
  <2>1. CallTypes'
        BY <1>3 DEF Lookup, Go, TypeOK, CallTypes
  <2>2. SubTypes'
    <3>1. LeastLoaded \subseteq Conns
          BY DEF LeastLoaded, TypeOK
    <3>2. pubsub' = pubsub \/ \E c \in Conns : pubsub' = [pubsub EXCEPT ![Cur(h)] = c]
          BY <1>3, <3>1 DEF Lookup
    <3>3. pubsub' \in [Subs -> Conns \cup {NoConn}]
          BY <3>2 DEF TypeOK, SubTypes
    <3> QED BY <1>3, <3>3 DEF Lookup, TypeOK, SubTypes
  <2> QED BY <1>3, <2>1, <2>2 DEF Lookup, TypeOK, MetaTypes
<1>4. CASE Create(h)
  <2>1. CallTypes' /\ MuxTypes' /\ LoopTypes'
        BY <1>4 DEF Create, Go, TypeOK, CallTypes, LoopPcs
  <2>2. SubTypes' /\ MetaTypes'
    <3>1. PICK c \in Conns : /\ connState' = [connState EXCEPT ![c] = "active"]
                            /\ pubsub' = [pubsub EXCEPT ![Cur(h)] = c]
          BY <1>4 DEF Create
    <3>2. pubsub' \in [Subs -> Conns \cup {NoConn}]
          BY <3>1 DEF TypeOK, SubTypes
    <3>3. connState' \in [Conns -> {"none", "active", "failed", "closed"}]
          BY <3>1 DEF TypeOK, MetaTypes
    <3> QED BY <1>4, <3>2, <3>3 DEF Create, TypeOK, SubTypes, MetaTypes
  <2> QED BY <1>4, <2>1, <2>2 DEF Create, TypeOK
<1>5. CASE CreateFails(h) \/ MetadataGone(h) \/ SendFails(h) \/ WaitActive(h) \/ WaitExpires(h)
             \/ CheckPending(h) \/ Abort(h)
  <2>1. \E p \in ClientPcs : Goto(h, p)
        BY <1>5 DEF List, CreateFails, MetadataGone, SendFails, WaitActive, WaitExpires,
           CheckPending, Abort
  <2> QED BY <2>1, GotoTypes
<1>5l. CASE List(h)
  <2>1. CurConn(h) \in Conns
        BY <1>5l DEF List, Placed, PlacedAt
  <2> QED BY <1>5l, <2>1 DEF List, Go, TypeOK, SubTypes, MetaTypes, CallTypes
<1>6. CASE Track(h)
  <2>1. Cur(h) \in Subs
        BY <1>6, CurTypes DEF Track
  <2>2. MuxTypes'
        BY <1>6, <2>1 DEF Track, TypeOK
  <2>3. SubTypes' /\ CallTypes'
        BY <1>6 DEF Track, Go, TypeOK, SubTypes, CallTypes
  <2> QED BY <1>6, <2>2, <2>3 DEF Track, TypeOK, MetaTypes
<1>7. CASE Register(h)
  <2>1. Cur(h) \in Subs /\ CurChannel(h) \in Channels /\ CurConn(h) \in Conns
        BY <1>7, CurTypes DEF Register, Placed, PlacedAt, CreatedPcs
  <2>2. RegisterDecision(CurConn(h), CurChannel(h)) \in {"waitActive", "send", "activate"}
        BY DEF RegisterDecision
  <2>3. CallTypes'
        BY <1>7, <2>1, <2>2 DEF Register, Go, TypeOK, CallTypes, MetaTypes
  <2>4. MetaTypes'
        BY <1>7, <2>1 DEF Register, TypeOK, MetaTypes
  <2> QED BY <1>7, <2>3, <2>4 DEF Register, TypeOK, SubTypes
<1>8. CASE SendQueues(h)
  <2>1. Command("subscribe", Cur(h), h) \in Commands
        BY <1>8, CurTypes DEF SendQueues, Command, Commands, CreatedPcs
  <2>2. MetaTypes'
        BY <1>8, <2>1, QueueTypes DEF SendQueues, TypeOK, MetaTypes
  <2> QED BY <1>8, <2>2 DEF SendQueues, Go, TypeOK, SubTypes, CallTypes
<1>9. CASE Confirm(h)
      BY <1>9 DEF Confirm, Go, TypeOK, SubTypes, MetaTypes, CallTypes
<1>10. CASE CheckState(h)
  <2>1. pc' \in [Handles -> ClientPcs]
        BY <1>10, GoTypes DEF CheckState, Advance, TypeOK
  <2>2. idx' \in [Handles -> Nat \ {0}]
    <3>1. idx' = idx \/ idx' = [idx EXCEPT ![h] = @ + 1]
          BY <1>10 DEF CheckState, Advance
    <3> QED BY <3>1 DEF TypeOK, CallTypes
  <2> QED BY <1>10, <2>1, <2>2 DEF CheckState, TypeOK, SubTypes, MetaTypes, CallTypes
<1>11. CASE Activate(h)
  <2>1. SubTypes'
        BY <1>11, SetStateTypes DEF Activate, TypeOK
  <2>2. CallTypes'
        BY <1>11 DEF Activate, Advance, Go, TypeOK, CallTypes
  <2> QED BY <1>11, <2>1, <2>2 DEF Activate, TypeOK, MetaTypes
<1>12. CASE SendCleanup(h)
  <2>1. MetaTypes'
        BY <1>12, DropPendingTypes DEF SendCleanup, TypeOK, MetaTypes
  <2> QED BY <1>12, <2>1 DEF SendCleanup, Go, TypeOK, SubTypes, CallTypes
<1>13. CASE Untrack(h) \/ UnsubUntrack(h)
  <2>1. pc' \in [Handles -> ClientPcs]
        BY <1>13, GoTypes DEF Untrack, UnsubUntrack, TypeOK
  <2>2. /\ UNCHANGED <<closed, inPool, listed, subVars, metaVars, idx, callRest, envVars>>
        /\ global' \subseteq global
        BY <1>13 DEF Untrack, UnsubUntrack
  <2> QED BY <2>1, <2>2 DEF TypeOK, SubTypes, MetaTypes, CallTypes
<1>14. CASE Unregister(h) \/ UnsubClean(h) \/ UnsubRemove(h)
  <2>1. MetaTypes'
        BY <1>14, RemoveTypes DEF Unregister, UnsubClean, UnsubRemove, TypeOK, MetaTypes
  <2>2. pc' \in [Handles -> ClientPcs]
        BY <1>14, GoTypes DEF Unregister, UnsubClean, UnsubRemove, TypeOK
  <2>3. UNCHANGED <<muxVars, subVars, idx, callRest, envVars>>
        BY <1>14 DEF Unregister, UnsubClean, UnsubRemove
  <2> QED BY <2>1, <2>2, <2>3 DEF TypeOK, SubTypes, CallTypes
<1>15. CASE UnsubCheck(h)
  <2>1. {ChannelOf[s] : s \in Appended(h)} \subseteq Channels
        BY AppendedTypes DEF AppendedChannels
  <2>2. CallTypes'
    <3>1. pc' \in [Handles -> ClientPcs]
          BY <1>15, GoTypes DEF UnsubCheck, Ended, TypeOK
    <3>2. chTodo' \in [Handles -> SUBSET Channels]
          BY <1>15, <2>1 DEF UnsubCheck, TypeOK, CallTypes
    <3> QED BY <1>15, <3>1, <3>2 DEF UnsubCheck, TypeOK, CallTypes
  <2> QED BY <1>15, <2>2 DEF UnsubCheck, TypeOK, SubTypes, MetaTypes
<1>16. CASE UnsubCount(h)
  <2>1. {ChannelOf[s] : s \in Appended(h)} \subseteq Channels
        BY AppendedTypes DEF AppendedChannels
  <2>2. CallTypes'
    <3>1. pc' \in [Handles -> ClientPcs]
          BY <1>16, GoTypes DEF UnsubCount, TypeOK, CallTypes
    <3>2. PICK X \in SUBSET Channels : chTodo' = [chTodo EXCEPT ![h] = X]
      <4>1. chTodo[h] \subseteq Channels
            BY DEF TypeOK, CallTypes
      <4> QED BY <1>16, <2>1, <4>1 DEF UnsubCount
    <3>3. chTodo' \in [Handles -> SUBSET Channels]
          BY <3>2 DEF TypeOK, CallTypes
    <3>4. toUnsub' = toUnsub \/ \E ch \in Channels : toUnsub' = [toUnsub EXCEPT ![h] = @ \cup {ch}]
          BY <1>16 DEF UnsubCount, TypeOK, CallTypes
    <3>5. toUnsub' \in [Handles -> SUBSET Channels]
      <4>1. CASE toUnsub' = toUnsub
            BY <4>1 DEF TypeOK, CallTypes
      <4>2. ASSUME NEW ch \in Channels, toUnsub' = [toUnsub EXCEPT ![h] = @ \cup {ch}]
            PROVE  toUnsub' \in [Handles -> SUBSET Channels]
        <5>1. toUnsub \in [Handles -> SUBSET Channels]
              BY DEF TypeOK, CallTypes
        <5>2. toUnsub[h] \cup {ch} \in SUBSET Channels
              BY <5>1
        <5> QED BY <4>2, <5>1, <5>2
      <4> QED BY <3>4, <4>1, <4>2
    <3> QED BY <1>16, <3>1, <3>3, <3>5 DEF UnsubCount, TypeOK, CallTypes
  <2> QED BY <1>16, <2>2 DEF UnsubCount, TypeOK, SubTypes, MetaTypes
<1>17. CASE UnsubPhase1(h)
  <2>1. CallTypes'
    <3>1. pc' \in [Handles -> ClientPcs]
          BY <1>17, GoTypes DEF UnsubPhase1, TypeOK, CallTypes
    <3>2. chTodo' = chTodo \/ \E ch \in Channels : chTodo' = [chTodo EXCEPT ![h] = @ \ {ch}]
          BY <1>17 DEF UnsubPhase1, TypeOK, CallTypes
    <3>3. chTodo' \in [Handles -> SUBSET Channels]
      <4>1. CASE chTodo' = chTodo
            BY <4>1 DEF TypeOK, CallTypes
      <4>2. ASSUME NEW ch \in Channels, chTodo' = [chTodo EXCEPT ![h] = @ \ {ch}]
            PROVE  chTodo' \in [Handles -> SUBSET Channels]
        <5>1. chTodo \in [Handles -> SUBSET Channels]
              BY DEF TypeOK, CallTypes
        <5>2. chTodo[h] \ {ch} \in SUBSET Channels
              BY <5>1
        <5> QED BY <4>2, <5>1, <5>2
      <4> QED BY <3>2, <4>1, <4>2
    <3>4. curCh' = curCh \/ \E ch \in Channels : curCh' = [curCh EXCEPT ![h] = ch]
          BY <1>17 DEF UnsubPhase1, TypeOK, CallTypes
    <3>5. curCh' \in [Handles -> Channels \cup {NoChannel}]
          BY <3>4 DEF TypeOK, CallTypes
    <3> QED BY <1>17, <3>1, <3>3, <3>5 DEF UnsubPhase1, TypeOK, CallTypes
  <2>2. SubTypes'
    <3>1. UNCHANGED subVars \/ \E ch : SetClosed(OnChannel(Appended(h), ch))
          BY <1>17 DEF UnsubPhase1
    <3>2. CASE UNCHANGED subVars
          BY <3>2 DEF TypeOK, SubTypes
    <3>3. CASE \E ch : SetClosed(OnChannel(Appended(h), ch))
          BY <3>3, SetClosedTypes DEF TypeOK
    <3> QED BY <3>1, <3>2, <3>3
  <2> QED BY <1>17, <2>1, <2>2 DEF UnsubPhase1, TypeOK, MetaTypes
<1>18. CASE UnsubQueues(h)
  <2>1. curCh[h] \in AppendedChannels(h)
        BY <1>18 DEF UnsubQueues, Placed, PlacedAt
  <2>2. FirstSub(h, curCh[h]) \in Subs /\ curCh[h] \in Channels
        BY <2>1, FirstSubExists, AppendedTypes
  <2>3. Command("unsubscribe", FirstSub(h, curCh[h]), h) \in Commands
        BY <2>2 DEF Command, Commands
  <2>4. MetaTypes'
        BY <1>18, <2>3, QueueTypes DEF UnsubQueues, TypeOK, MetaTypes
  <2>5. CallTypes'
        BY <1>18, <2>2 DEF UnsubQueues, Go, TypeOK, CallTypes
  <2> QED BY <1>18, <2>4, <2>5 DEF UnsubQueues, TypeOK, SubTypes
<1>19. CASE UnsubSendFails(h)
      BY <1>19, GotoTypes DEF UnsubSendFails
<1>20. CASE UnsubWait(h)
  <2>1. CallTypes'
    <3>1. pc' \in [Handles -> ClientPcs]
          BY <1>20, GoTypes DEF UnsubWait, Ended, TypeOK
    <3>2. \/ UNCHANGED <<curCh, awaiting>>
          \/ \E ch \in Channels : /\ curCh' = [curCh EXCEPT ![h] = ch]
                                  /\ awaiting' = [awaiting EXCEPT ![h] = @ \ {ch}]
          BY <1>20 DEF UnsubWait, TypeOK, CallTypes
    <3>3. awaiting' \in [Handles -> SUBSET Channels]
          BY <3>2 DEF TypeOK, CallTypes
    <3>4. curCh' \in [Handles -> Channels \cup {NoChannel}]
          BY <3>2 DEF TypeOK, CallTypes
    <3> QED BY <1>20, <3>1, <3>3, <3>4 DEF UnsubWait, TypeOK, CallTypes
  <2> QED BY <1>20, <2>1 DEF UnsubWait, TypeOK, SubTypes, MetaTypes
<1> QED BY <1>1, <1>2, <1>3, <1>4, <1>5, <1>5l, <1>6, <1>7, <1>8, <1>9, <1>10, <1>11, <1>12,
      <1>13, <1>14, <1>15, <1>16, <1>17, <1>18, <1>19, <1>20 DEF CallStep

LEMMA LoopKeepsTypes ==
  ASSUME TypeOK, NEW c \in Conns, LoopStep(c) \/ Break(c)
  PROVE  TypeOK'
<1> USE DEF MuxTypes, EndTypes, CallTypes, LoopTo, LoopPcs
<1>1. CASE LoopSends(c)
  <2>1. /\ Head(cmdCh[c]) \in Commands
        /\ cmdCh' \in [Conns -> Seq(Commands)] /\ \A d \in Conns : Len(cmdCh'[d]) <= CmdCap
        BY <1>1, DequeueTypes DEF LoopSends, TypeOK
  <2> DEFINE s == Head(cmdCh[c]).sub
  <2>2. s \in Subs /\ Topic(s) \in Types \X Channels /\ ChannelOf[s] \in Channels
        BY <2>1, SubMuxAssumption DEF Commands, Topic
  <2>3. MetaTypes'
    <3>1. response' \in [Subs -> {"empty", "nil", "err"}]
          BY <1>1 DEF LoopSends, TypeOK, MetaTypes
    <3> QED BY <1>1, <2>1, <3>1 DEF LoopSends, TypeOK, MetaTypes
  <2>4. topics' \in [Conns -> SUBSET (Types \X Channels)]
    <3>1. \E X \in SUBSET (Types \X Channels) : topics' = [topics EXCEPT ![c] = X]
      <4>1. topics[c] \cup {Topic(s)} \in SUBSET (Types \X Channels)
            BY <2>2 DEF TypeOK, ServerTypes
      <4>2. topics[c] \ {Topic(s)} \in SUBSET (Types \X Channels)
            BY DEF TypeOK, ServerTypes
      <4> QED BY <1>1, <4>1, <4>2 DEF LoopSends
    <3> QED BY <3>1 DEF TypeOK, ServerTypes
  <2>5. inbox' \in [Conns -> Seq(Incoming)]
    <3>1. \E q \in Seq(Incoming) : inbox' = [inbox EXCEPT ![c] = q]
      <4> DEFINE conf == [kind |-> "confirm", channel |-> ChannelOf[s], id |-> 0]
      <4>1. conf \in Incoming
            BY <2>2 DEF Incoming
      <4>2. inbox[c] \in Seq(Incoming)
            BY DEF TypeOK, ServerTypes
      <4>3. Append(inbox[c], conf) \in Seq(Incoming)
        <5> HIDE DEF conf
        <5> QED BY <4>1, <4>2
      <4> QED BY <1>1, <4>2, <4>3 DEF LoopSends
    <3> QED BY <3>1 DEF TypeOK, ServerTypes
  <2> QED BY <1>1, <2>3, <2>4, <2>5 DEF LoopSends, TypeOK, SubTypes, LoopTypes, ServerTypes
<1>2. CASE LoopSendFails(c)
  <2>1. /\ Head(cmdCh[c]) \in Commands
        /\ cmdCh' \in [Conns -> Seq(Commands)] /\ \A d \in Conns : Len(cmdCh'[d]) <= CmdCap
        BY <1>2, DequeueTypes DEF LoopSendFails, TypeOK
  <2>2. Head(cmdCh[c]).sub \in Subs
        BY <2>1 DEF Commands
  <2>3. pending' \in [Conns -> [Channels -> Subs \cup {NoSub}]]
        BY <1>2, DropPendingTypes DEF LoopSendFails, TypeOK, MetaTypes
  <2>4. response' \in [Subs -> {"empty", "nil", "err"}]
        BY <1>2 DEF LoopSendFails, TypeOK, MetaTypes
  <2>5. loopSub' \in [Conns -> Subs \cup {NoSub}]
        BY <1>2, <2>2 DEF LoopSendFails, TypeOK, LoopTypes
  <2>6. loop' \in [Conns -> LoopPcs]
        BY <1>2 DEF LoopSendFails, TypeOK, LoopTypes
  <2>7. MetaTypes'
        BY <1>2, <2>1, <2>3, <2>4 DEF LoopSendFails, TypeOK, MetaTypes
  <2> QED BY <1>2, <2>5, <2>6, <2>7 DEF LoopSendFails, TypeOK, SubTypes, LoopTypes, ServerTypes
<1>3. CASE LoopFailsSub(c)
  <2>1. SubTypes'
        BY <1>3, SetStateTypes DEF LoopFailsSub, TypeOK
  <2> QED BY <1>3, <2>1 DEF LoopFailsSub, TypeOK, MetaTypes, LoopTypes, ServerTypes
<1>4. CASE LoopConfirms(c)
  <2>1. SubTypes'
        BY <1>4, SetStateTypes DEF LoopConfirms, TypeOK
  <2> QED BY <1>4, <2>1 DEF LoopConfirms, TypeOK, MetaTypes, LoopTypes, ServerTypes
<1>5. CASE LoopNotifies(c)
  <2>1. SubTypes'
    <3>1. UNCHANGED subVars \/ \E s \in loopTodo[c] : SetState(s, "failed", "err")
          BY <1>5 DEF LoopNotifies
    <3>2. CASE UNCHANGED subVars
          BY <3>2 DEF TypeOK, SubTypes
    <3> QED BY <3>1, <3>2, SetStateTypes DEF TypeOK
  <2>2. loop' \in [Conns -> LoopPcs]
        BY <1>5 DEF LoopNotifies, TypeOK, LoopTypes
  <2>3. loopTodo' \in [Conns -> SUBSET Subs]
    <3>1. loopTodo' = loopTodo \/ \E s : loopTodo' = [loopTodo EXCEPT ![c] = loopTodo[c] \ {s}]
          BY <1>5 DEF LoopNotifies
    <3>2. \A s : loopTodo[c] \ {s} \in SUBSET Subs
          BY DEF TypeOK, LoopTypes
    <3> QED BY <3>1, <3>2 DEF TypeOK, LoopTypes
  <2>4. loopSub' \in [Conns -> Subs \cup {NoSub}]
    <3>1. loopSub' = loopSub \/ \E s \in Subs : loopSub' = [loopSub EXCEPT ![c] = s]
          BY <1>5 DEF LoopNotifies, TypeOK, LoopTypes
    <3> QED BY <3>1 DEF TypeOK, LoopTypes
  <2> QED BY <1>5, <2>1, <2>2, <2>3, <2>4 DEF LoopNotifies, TypeOK, MetaTypes, LoopTypes,
        ServerTypes
<1>5s. CASE LoopSignals(c) \/ LoopHandsOver(c)
  <2>1. PICK m \in Nat : delivered' = [delivered EXCEPT ![loopSub[c]] = Append(@, m)]
    <3>1. Signal \in Nat /\ loopMsg[c] \in Nat
          BY SubMuxAssumption DEF Signal, TypeOK, LoopTypes
    <3> QED BY <1>5s, <3>1 DEF LoopSignals, LoopHandsOver
  <2>2. delivered' \in [Subs -> Seq(Nat)]
    <3>1. \A s \in Subs : Append(delivered[s], m) \in Seq(Nat)
          BY DEF TypeOK
    <3> QED BY <2>1, <3>1 DEF TypeOK
  <2>3. loop' \in [Conns -> LoopPcs]
        BY <1>5s DEF LoopSignals, LoopHandsOver, TypeOK, LoopTypes
  <2>4. UNCHANGED <<muxVars, subVars, metaVars, loopSub, loopTodo, loopMsg, srvVars, loopFrame>>
        BY <1>5s DEF LoopSignals, LoopHandsOver
  <2> QED BY <2>2, <2>3, <2>4 DEF TypeOK, SubTypes, MetaTypes, LoopTypes, ServerTypes
<1>6. CASE LoopReceivesConfirmation(c)
  <2>1. Head(inbox[c]) \in Incoming /\ Tail(inbox[c]) \in Seq(Incoming)
        BY <1>6 DEF LoopReceivesConfirmation, TypeOK, ServerTypes
  <2>2. pending[c][Head(inbox[c]).channel] \in Subs \cup {NoSub}
        BY <2>1 DEF TypeOK, MetaTypes, Incoming
  <2>3. LoopTypes'
        BY <1>6, <2>2 DEF LoopReceivesConfirmation, TypeOK, LoopTypes
  <2>4. ServerTypes'
        BY <1>6, <2>1 DEF LoopReceivesConfirmation, TypeOK, ServerTypes
  <2> QED BY <1>6, <2>3, <2>4 DEF LoopReceivesConfirmation, TypeOK, SubTypes, MetaTypes
<1>7. CASE LoopReceivesMessage(c)
  <2>1. Head(inbox[c]) \in Incoming /\ Tail(inbox[c]) \in Seq(Incoming)
        BY <1>7 DEF LoopReceivesMessage, TypeOK, ServerTypes
  <2>2. Head(inbox[c]).id \in Nat
        BY <2>1 DEF Incoming
  <2>3. OnChannel(subscriptions[c], Head(inbox[c]).channel) \in SUBSET Subs
        BY DEF OnChannel, TypeOK, MetaTypes
  <2>4. LoopTypes'
        BY <1>7, <2>2, <2>3 DEF LoopReceivesMessage, TypeOK, LoopTypes
  <2>5. ServerTypes'
        BY <1>7, <2>1 DEF LoopReceivesMessage, TypeOK, ServerTypes
  <2> QED BY <1>7, <2>4, <2>5 DEF LoopReceivesMessage, TypeOK, SubTypes, MetaTypes
<1>8. CASE LoopDispatches(c)
  <2>1. loop' \in [Conns -> LoopPcs]
        BY <1>8 DEF LoopDispatches, TypeOK, LoopTypes
  <2>2. loopTodo' \in [Conns -> SUBSET Subs]
    <3>1. loopTodo' = loopTodo \/ \E s : loopTodo' = [loopTodo EXCEPT ![c] = loopTodo[c] \ {s}]
          BY <1>8 DEF LoopDispatches
    <3>2. \A s : loopTodo[c] \ {s} \in SUBSET Subs
          BY DEF TypeOK, LoopTypes
    <3> QED BY <3>1, <3>2 DEF TypeOK, LoopTypes
  <2>3. loopSub' \in [Conns -> Subs \cup {NoSub}]
    <3>1. loopSub' = loopSub \/ \E s \in Subs : loopSub' = [loopSub EXCEPT ![c] = s]
          BY <1>8 DEF LoopDispatches, TypeOK, LoopTypes
    <3> QED BY <3>1 DEF TypeOK, LoopTypes
  <2> QED BY <1>8, <2>1, <2>2, <2>3 DEF LoopDispatches, TypeOK, SubTypes, MetaTypes, LoopTypes,
        ServerTypes
<1>9. CASE LoopDrains(c)
  <2>1. /\ cmdCh' \in [Conns -> Seq(Commands)]
        /\ \A d \in Conns : Len(cmdCh'[d]) <= CmdCap
        BY <1>9, SubMuxAssumption DEF LoopDrains, TypeOK, MetaTypes
  <2>2. response' \in [Subs -> {"empty", "nil", "err"}]
        BY <1>9 DEF LoopDrains, TypeOK, MetaTypes
  <2>3. MetaTypes'
        BY <1>9, <2>1, <2>2 DEF LoopDrains, TypeOK, MetaTypes
  <2> QED BY <1>9, <2>3 DEF LoopDrains, TypeOK, SubTypes, LoopTypes, ServerTypes
<1>10. CASE LoopRetires(c)
  <2>1. MetaTypes'
        BY <1>10 DEF LoopRetires, CloseMeta, TypeOK, MetaTypes
  <2> QED BY <1>10, <2>1 DEF LoopRetires, TypeOK, SubTypes, LoopTypes, ServerTypes
<1>11. CASE LoopUnpends(c)
  <2>1. MetaTypes'
        BY <1>11, DropPendingTypes DEF LoopUnpends, TypeOK, MetaTypes
  <2> QED BY <1>11, <2>1 DEF LoopUnpends, TypeOK, SubTypes, LoopTypes, ServerTypes
<1>12. CASE LoopMarksFailed(c)
      BY <1>12 DEF LoopMarksFailed, TypeOK, SubTypes, MetaTypes, LoopTypes, ServerTypes
<1>13. CASE LoopSnapshots(c)
      BY <1>13 DEF LoopSnapshots, TypeOK, SubTypes, MetaTypes, LoopTypes, ServerTypes
<1>14. CASE LoopClosesLoopDone(c)
      BY <1>14 DEF LoopClosesLoopDone, TypeOK, SubTypes, MetaTypes, LoopTypes, ServerTypes
<1>15. CASE LoopLosesChannel(c)
      BY <1>15 DEF LoopLosesChannel, TypeOK, SubTypes, MetaTypes, LoopTypes, ServerTypes
<1>16. CASE LoopStops(c)
      BY <1>16 DEF LoopStops, TypeOK, SubTypes, MetaTypes, LoopTypes, ServerTypes
<1>17. CASE LoopExits(c)
      BY <1>17 DEF LoopExits, TypeOK, SubTypes, MetaTypes, LoopTypes, ServerTypes
<1>18. CASE LoopRemovesConn(c)
      BY <1>18 DEF LoopRemovesConn, TypeOK, SubTypes, MetaTypes, LoopTypes, ServerTypes
<1>19. CASE LoopCleansZombies(c)
      BY <1>19 DEF LoopCleansZombies, TypeOK, SubTypes, MetaTypes, LoopTypes, ServerTypes
<1>20. CASE Break(c)
  <2>1. \E q \in Seq(Incoming) : inbox' = [inbox EXCEPT ![c] = q]
    <3>1. PICK n \in 0..Len(inbox[c]) : inbox' = [inbox EXCEPT ![c] = SubSeq(@, 1, n)]
          BY <1>20 DEF Break
    <3>2. SubSeq(inbox[c], 1, n) \in Seq(Incoming)
      <4>1. inbox[c] \in Seq(Incoming)
            BY DEF TypeOK, ServerTypes
      <4> QED BY <4>1
    <3> QED BY <3>1, <3>2
  <2>2. inbox' \in [Conns -> Seq(Incoming)]
        BY <2>1 DEF TypeOK, ServerTypes
  <2>3. ServerTypes'
        BY <1>20, <2>2 DEF Break, TypeOK, ServerTypes
  <2> QED BY <1>20, <2>3 DEF Break, TypeOK, SubTypes, MetaTypes, LoopTypes
<1> QED BY <1>1, <1>2, <1>3, <1>4, <1>5, <1>5s, <1>6, <1>7, <1>8, <1>9, <1>10, <1>11, <1>12, <1>13,
      <1>14, <1>15, <1>16, <1>17, <1>18, <1>19, <1>20 DEF LoopStep

LEMMA CloseAndPublishKeepTypes ==
  ASSUME TypeOK, CloseBegins \/ CloseStep \/ \E type \in Types, ch \in Channels : Publish(type, ch)
  PROVE  TypeOK'
<1> USE DEF MuxTypes, CallTypes, LoopTypes, EndTypes
<1>1. CASE CloseBegins
      BY <1>1 DEF CloseBegins, TypeOK, SubTypes, MetaTypes, ServerTypes
<1>2. CASE CloseMarks
  <2>1. SubTypes'
    <3>1. UNCHANGED subVars \/ \E s \in closeSubs : SetState(s, "closed", "nil")
          BY <1>2 DEF CloseMarks
    <3>2. CASE UNCHANGED subVars
          BY <3>2 DEF TypeOK, SubTypes
    <3> QED BY <3>1, <3>2, SetStateTypes DEF TypeOK
  <2>2. EndTypes'
        BY <1>2 DEF CloseMarks, TypeOK
  <2> QED BY <1>2, <2>1, <2>2 DEF CloseMarks, TypeOK, MetaTypes, ServerTypes
<1>3. CASE CloseTakesPool \/ CloseJoins \/ CloseClears
      BY <1>3 DEF CloseTakesPool, CloseJoins, CloseClears, TypeOK, SubTypes, MetaTypes,
         ServerTypes
<1>4. CASE CloseConnection
  <2>1. EndTypes'
        BY <1>4 DEF CloseConnection, TypeOK
  <2>2. UNCHANGED <<connState, done>> \/ \E c \in Conns : CloseMeta(c)
        BY <1>4 DEF CloseConnection, TypeOK
  <2>3. connState' \in [Conns -> {"none", "active", "failed", "closed"}]
        BY <2>2 DEF CloseMeta, TypeOK, MetaTypes
  <2>4. done' \in [Conns -> {"open", "closed", "panic"}]
    <3>1. \/ done' = done
          \/ \E c \in Conns, v \in {"closed", "panic"} : done' = [done EXCEPT ![c] = v]
          BY <2>2 DEF CloseMeta
    <3> QED BY <3>1 DEF TypeOK, MetaTypes
  <2>5. MetaTypes'
        BY <1>4, <2>3, <2>4 DEF CloseConnection, TypeOK, MetaTypes
  <2> QED BY <1>4, <2>1, <2>5 DEF CloseConnection, TypeOK, SubTypes, ServerTypes
<1>5. ASSUME NEW type \in Types, NEW ch \in Channels, Publish(type, ch) PROVE TypeOK'
  <2> DEFINE msg == [kind |-> "message", channel |-> ch, id |-> published + 1]
  <2>1. published' \in 0..MaxPublish /\ published \in Nat
        BY <1>5, SubMuxAssumption DEF Publish, TypeOK, ServerTypes
  <2>2. msg \in Incoming
        BY <2>1 DEF Incoming
  <2>3. inbox' \in [Conns -> Seq(Incoming)]
    <3>1. inbox' = [c \in Conns |-> IF <<type, ch>> \in topics[c] THEN Append(inbox[c], msg)
                                                               ELSE inbox[c]]
          BY <1>5 DEF Publish
    <3> HIDE DEF msg
    <3> QED BY <2>2, <3>1 DEF TypeOK, ServerTypes
  <2>4. ServerTypes'
        BY <1>5, <2>1, <2>3 DEF Publish, TypeOK, ServerTypes
  <2> QED BY <1>5, <2>4 DEF Publish, TypeOK, SubTypes, MetaTypes
<1> QED BY <1>1, <1>2, <1>3, <1>4, <1>5 DEF CloseStep

LEMMA TypeStep == TypeOK /\ Placed /\ [Next]_vars => TypeOK'
<1> SUFFICES ASSUME TypeOK, Placed, [Next]_vars PROVE TypeOK'
    OBVIOUS
<1>1. CASE UNCHANGED vars
      BY <1>1 DEF vars, TypeOK, MuxTypes, SubTypes, MetaTypes, LoopTypes, ServerTypes, CallTypes,
         EndTypes
<1> QED BY <1>1, CallerKeepsTypes, LoopKeepsTypes, CloseAndPublishKeepTypes DEF Next

-----------------------------------------------------------------------------
(* The callers' local variables *)

LEMMA AppendedGrows ==
  ASSUME TypeOK, NEW h \in Handles, idx'[h] \in {idx[h], idx[h] + 1}
  PROVE  Appended(h) \subseteq Appended(h)' /\ AppendedChannels(h) \subseteq AppendedChannels(h)'
<1>1. \A i \in 1..(idx[h] - 1) : i \in 1..(idx'[h] - 1)
      BY DEF TypeOK, CallTypes
<1>2. Appended(h) \subseteq Appended(h)'
      BY <1>1 DEF Appended
<1> QED BY <1>2 DEF AppendedChannels

\* A step of h leaves the other callers where they are.
LEMMA OthersPlaced ==
  ASSUME TypeOK, Placed, NEW h,
         \A g \in Handles \ {h} : /\ pc'[g] = pc[g] /\ idx'[g] = idx[g] /\ chTodo'[g] = chTodo[g]
                                  /\ awaiting'[g] = awaiting[g] /\ curCh'[g] = curCh[g],
         \A s \in Subs : pubsub'[s] = pubsub[s] \/ pubsub'[s] \in Conns
  PROVE  \A g \in Handles \ {h} : PlacedAt(g)'
<1> SUFFICES ASSUME NEW g \in Handles \ {h} PROVE PlacedAt(g)'
    OBVIOUS
<1>1. PlacedAt(g)
      BY DEF Placed
<1>2. AppendedChannels(g)' = AppendedChannels(g)
      BY DEF AppendedChannels, Appended
<1>3. pc'[g] \in {"list", "track"} \cup CreatedPcs => CurConn(g)' \in Conns
      BY <1>1, CurTypes DEF PlacedAt, CurConn, Cur
<1> QED BY <1>1, <1>2, <1>3 DEF PlacedAt

LEMMA MovePlaced ==
  ASSUME TypeOK, Placed, NEW h \in Handles, NEW p, Go(h, p),
         UNCHANGED <<idx, chTodo, awaiting, curCh, pubsub>>,
         p \in {"new", "lookup", "create", "list", "track"} \cup CreatedPcs
           => idx[h] <= Len(SubsOf[h]),
         p \in {"list", "track"} \cup CreatedPcs => CurConn(h) \in Conns,
         p \in {"uSend", "uClean", "uRemove"} => curCh[h] \in AppendedChannels(h)
  PROVE  Placed'
<1>1. pc'[h] = p /\ \A g \in Handles \ {h} : pc'[g] = pc[g]
      BY DEF Go, TypeOK, CallTypes
<1>2. \A g \in Handles \ {h} : PlacedAt(g)'
      BY <1>1, OthersPlaced
<1>3. PlacedAt(h)'
  <2>1. AppendedChannels(h)' = AppendedChannels(h) /\ CurConn(h)' = CurConn(h)
        BY DEF AppendedChannels, Appended, CurConn, Cur
  <2> QED BY <1>1, <2>1 DEF Placed, PlacedAt
<1> QED BY <1>2, <1>3 DEF Placed

LEMMA CallerStaysPlaced ==
  ASSUME TypeOK, Placed, NEW h \in Handles,
         Subscribe(h) \/ Unsubscribe(h) \/ Expire(h) \/ CallStep(h)
  PROVE  Placed'
<1>0. PlacedAt(h)
      BY DEF Placed
<1>1. CASE Subscribe(h) \/ Unsubscribe(h) \/ Abort(h)
  <2>1. \E p \in {"failed", "lookup", "uCheck"} :
           /\ Goto(h, p)
           /\ p = "lookup" => pc[h] = "new"
        BY <1>1 DEF Subscribe, Unsubscribe, Abort
  <2> QED BY <1>0, <2>1, MovePlaced DEF Goto, PlacedAt, CreatedPcs
<1>2. CASE Expire(h)
      BY <1>2 DEF Expire, Placed, PlacedAt, AppendedChannels, Appended, CurConn, Cur
<1>3. CASE Lookup(h) \/ Create(h)
  <2>1. /\ UNCHANGED <<idx, chTodo, awaiting, curCh>>
        /\ pc[h] \in {"lookup", "create"}
        /\ \/ pubsub' = pubsub /\ Go(h, "create")
           \/ \E c \in Conns, p \in {"list", "track"} :
                pubsub' = [pubsub EXCEPT ![Cur(h)] = c] /\ Go(h, p)
    <3>1. LeastLoaded \subseteq Conns
          BY DEF LeastLoaded, TypeOK, MuxTypes
    <3> QED BY <1>3, <3>1 DEF Lookup, Create
  <2>2. CASE pubsub' = pubsub /\ Go(h, "create")
        BY <1>0, <2>1, <2>2, MovePlaced DEF PlacedAt, CreatedPcs
  <2>3. ASSUME NEW c \in Conns, NEW p \in {"list", "track"},
               pubsub' = [pubsub EXCEPT ![Cur(h)] = c], Go(h, p)
        PROVE  Placed'
    <3>1. pc'[h] = p /\ \A g \in Handles \ {h} : pc'[g] = pc[g]
          BY <2>3 DEF Go, TypeOK, CallTypes
    <3>2. \A s \in Subs : pubsub'[s] = pubsub[s] \/ pubsub'[s] \in Conns
          BY <2>3 DEF TypeOK, SubTypes
    <3>3. \A g \in Handles \ {h} : PlacedAt(g)'
          BY <2>1, <3>1, <3>2, OthersPlaced
    <3>4. Cur(h) \in Subs
          BY <2>1, CurTypes
    <3>5. CurConn(h)' = c /\ AppendedChannels(h)' = AppendedChannels(h)
          BY <2>1, <2>3, <3>4 DEF CurConn, Cur, AppendedChannels, Appended, TypeOK, SubTypes
    <3>6. PlacedAt(h)'
          BY <1>0, <2>1, <3>1, <3>5 DEF PlacedAt, CreatedPcs
    <3> QED BY <3>3, <3>6 DEF Placed
  <2> QED BY <2>1, <2>2, <2>3
<1>4. CASE CreateFails(h) \/ MetadataGone(h)
      BY <1>4, MovePlaced DEF CreateFails, MetadataGone, Goto, CreatedPcs
<1>4l. CASE List(h)
      BY <1>0, <1>4l, MovePlaced DEF List, PlacedAt, CreatedPcs
<1>5. CASE Track(h) \/ Register(h) \/ SendQueues(h) \/ SendFails(h) \/ Confirm(h) \/ WaitActive(h)
             \/ WaitExpires(h) \/ CheckPending(h) \/ SendCleanup(h) \/ Untrack(h)
  <2>1. /\ UNCHANGED <<idx, chTodo, awaiting, curCh, pubsub>>
        /\ pc[h] \in {"track"} \cup CreatedPcs
        /\ \E p \in CreatedPcs : Go(h, p)
        BY <1>5 DEF Track, Register, RegisterDecision, SendQueues, SendFails, Confirm, WaitActive,
           WaitExpires, CheckPending, SendCleanup, Untrack, Goto, CreatedPcs
  <2> QED BY <1>0, <2>1, MovePlaced DEF PlacedAt, CreatedPcs
<1>6. CASE Unregister(h)
      BY <1>6, MovePlaced DEF Unregister, CreatedPcs
<1>7. CASE CheckState(h) \/ Activate(h)
  <2>1. pc[h] \in CreatedPcs /\ UNCHANGED <<chTodo, awaiting, curCh, pubsub>>
        BY <1>7 DEF CheckState, Activate, SetState, CreatedPcs
  <2>2. (Go(h, "untrack") /\ UNCHANGED idx) \/ Advance(h)
        BY <1>7 DEF CheckState, Activate
  <2>3. CASE Go(h, "untrack") /\ UNCHANGED idx
        BY <1>0, <2>1, <2>3, MovePlaced DEF PlacedAt, CreatedPcs
  <2>4. CASE Advance(h)
    <3>1. /\ idx'[h] = idx[h] + 1 /\ idx[h] <= Len(SubsOf[h])
          /\ idx[h] \in Nat /\ Len(SubsOf[h]) \in Nat
          BY <1>0, <2>1, <2>4, SubMuxAssumption DEF Advance, PlacedAt, TypeOK, CallTypes
    <3>2. pc'[h] = IF idx[h] = Len(SubsOf[h]) THEN "subscribed" ELSE "lookup"
          BY <2>4 DEF Advance, Go, TypeOK, CallTypes
    <3>3. \A g \in Handles \ {h} : pc'[g] = pc[g] /\ idx'[g] = idx[g]
          BY <2>4 DEF Advance, Go, TypeOK, CallTypes
    <3>4. \A g \in Handles \ {h} : PlacedAt(g)'
          BY <2>1, <3>3, OthersPlaced
    <3>5. AppendedChannels(h) \subseteq AppendedChannels(h)'
          BY <3>1, AppendedGrows
    <3>6. /\ idx'[h] <= Len(SubsOf[h]) + 1
          /\ pc'[h] \in {"subscribed", "lookup"} /\ (pc'[h] = "lookup" => idx'[h] <= Len(SubsOf[h]))
          BY <3>1, <3>2
    <3>7. PlacedAt(h)'
          BY <1>0, <2>1, <3>5, <3>6 DEF PlacedAt, CreatedPcs
    <3> QED BY <3>4, <3>7 DEF Placed
  <2> QED BY <2>2, <2>3, <2>4
<1>8. CASE UnsubUntrack(h)
      BY <1>8, MovePlaced DEF UnsubUntrack, CreatedPcs
<1>9. CASE UnsubSendFails(h)
      BY <1>0, <1>9, MovePlaced DEF UnsubSendFails, Goto, PlacedAt, CreatedPcs
<1>10. CASE UnsubClean(h) \/ UnsubRemove(h)
      BY <1>10, MovePlaced DEF UnsubClean, UnsubRemove, CreatedPcs
<1>11. CASE UnsubCheck(h) \/ UnsubCount(h) \/ UnsubPhase1(h) \/ UnsubQueues(h) \/ UnsubWait(h)
  <2>1. UNCHANGED <<idx, pubsub>>
        BY <1>11 DEF UnsubCheck, UnsubCount, UnsubPhase1, UnsubQueues, UnsubWait, SetClosed
  <2>2. AppendedChannels(h)' = AppendedChannels(h)
        BY <2>1 DEF AppendedChannels, Appended
  <2>3. pc'[h] \in UnsubPcs \cup {"gone", "failed"}
        BY <1>11 DEF UnsubCheck, UnsubCount, UnsubPhase1, UnsubQueues, UnsubWait, UnsubPcs, Ended,
           Go, TypeOK, CallTypes
  <2>4. \A g \in Handles \ {h} : pc'[g] = pc[g]
        BY <1>11 DEF UnsubCheck, UnsubCount, UnsubPhase1, UnsubQueues, UnsubWait, Go, TypeOK,
           CallTypes
  <2>5. chTodo'[h] \subseteq AppendedChannels(h) /\ \A g \in Handles \ {h} : chTodo'[g] = chTodo[g]
        BY <1>0, <1>11 DEF UnsubCheck, UnsubCount, UnsubPhase1, UnsubQueues, UnsubWait, PlacedAt,
           AppendedChannels, TypeOK, CallTypes
  <2>6. awaiting'[h] \subseteq AppendedChannels(h)
          /\ \A g \in Handles \ {h} : awaiting'[g] = awaiting[g]
        BY <1>0, <1>11 DEF UnsubCheck, UnsubCount, UnsubPhase1, UnsubQueues, UnsubWait, PlacedAt,
           TypeOK, CallTypes
  <2>7. /\ pc'[h] \in {"uSend", "uClean", "uRemove"} => curCh'[h] \in AppendedChannels(h)
        /\ \A g \in Handles \ {h} : curCh'[g] = curCh[g]
        BY <1>0, <1>11 DEF UnsubCheck, UnsubCount, UnsubPhase1, UnsubQueues, UnsubWait, PlacedAt,
           Ended, Go, TypeOK, CallTypes
  <2>8. \A g \in Handles \ {h} : PlacedAt(g)'
        BY <2>1, <2>4, <2>5, <2>6, <2>7, OthersPlaced
  <2>9. PlacedAt(h)'
        BY <1>0, <2>1, <2>2, <2>3, <2>5, <2>6, <2>7 DEF PlacedAt, CreatedPcs, UnsubPcs
  <2> QED BY <2>8, <2>9 DEF Placed
<1> QED BY <1>1, <1>2, <1>3, <1>4, <1>4l, <1>5, <1>6, <1>7, <1>8, <1>9, <1>10, <1>11 DEF CallStep

\* Nobody but a caller changes a caller's variables or a subscription's connection.
LEMMA OthersFrame ==
  ASSUME \/ \E c \in Conns : LoopStep(c) \/ Break(c)
         \/ CloseBegins \/ CloseStep
         \/ \E type \in Types, ch \in Channels : Publish(type, ch)
  PROVE  UNCHANGED <<callVars, pubsub>>
<1>1. ASSUME NEW c \in Conns, LoopStep(c) PROVE UNCHANGED <<callVars, pubsub>>
      BY <1>1 DEF LoopStep, LoopSends, LoopSendFails, LoopFailsSub, LoopLosesChannel,
         LoopMarksFailed, LoopSnapshots, LoopNotifies, LoopSignals, LoopReceivesConfirmation,
         LoopConfirms, LoopUnpends, LoopReceivesMessage, LoopDispatches, LoopHandsOver, LoopStops,
         LoopDrains, LoopClosesLoopDone, LoopExits, LoopRetires, LoopRemovesConn,
         LoopCleansZombies, SetState
<1>2. ASSUME NEW c \in Conns, Break(c) PROVE UNCHANGED <<callVars, pubsub>>
      BY <1>2 DEF Break
<1>3. ASSUME CloseBegins \/ CloseStep PROVE UNCHANGED <<callVars, pubsub>>
      BY <1>3 DEF CloseBegins, CloseStep, CloseMarks, CloseTakesPool, CloseConnection, CloseJoins,
         CloseClears, SetState
<1>4. ASSUME NEW type \in Types, NEW ch \in Channels, Publish(type, ch)
      PROVE  UNCHANGED <<callVars, pubsub>>
      BY <1>4 DEF Publish
<1> QED BY <1>1, <1>2, <1>3, <1>4

LEMMA PlacedStep == TypeOK /\ Placed /\ [Next]_vars => Placed'
<1> SUFFICES ASSUME TypeOK, Placed, [Next]_vars PROVE Placed'
    OBVIOUS
<1>1. CASE UNCHANGED <<callVars, pubsub>>
      BY <1>1 DEF Placed, PlacedAt, AppendedChannels, Appended, CurConn, Cur
<1> QED BY <1>1, CallerStaysPlaced, OthersFrame DEF Next, vars

-----------------------------------------------------------------------------
(* Only subscriptions that were created are in use *)

\* How a step may treat the states: leave them, create one subscription, or
\* move existing ones out of Pending through setState.
StatesMove ==
  \/ UNCHANGED <<state, confirmCh, doneCh>>
  \/ \E s \in Alive, new \in {"active", "failed", "closed"}, err \in {"nil", "err"} :
       SetState(s, new, err)
  \/ \E S \in SUBSET Alive : SetClosed(S)

LEMMA AliveGrows == ASSUME TypeOK, StatesMove PROVE Alive \subseteq Alive'
BY DEF StatesMove, SetState, SetClosed, Alive, TypeOK, SubTypes

LEMMA CallAliveFrame ==
  ASSUME Alive \subseteq Alive', NEW h \in Handles, CallAlive(h), pc'[h] = pc[h],
         idx'[h] = idx[h], waitOn'[h] = waitOn[h]
  PROVE  CallAlive(h)'
<1>1. Appended(h)' = Appended(h) /\ Cur(h)' = Cur(h)
      BY DEF Appended, Cur
<1> QED BY <1>1 DEF CallAlive

LEMMA CallerStates ==
  ASSUME TypeOK, Placed, AllAlive, NEW h \in Handles,
         Subscribe(h) \/ Unsubscribe(h) \/ Expire(h) \/ CallStep(h)
  PROVE  StatesMove \/ Track(h) \/ Confirm(h)
<1>0. CallAlive(h)
      BY DEF AllAlive
<1>1. CASE Activate(h)
  <2>1. Cur(h) \in Alive
        BY <1>0, <1>1 DEF Activate, CallAlive, CreatedPcs
  <2> QED BY <1>1, <2>1 DEF Activate, StatesMove
<1>2. CASE UnsubPhase1(h)
  <2>1. \A ch : OnChannel(Appended(h), ch) \in SUBSET Alive
        BY <1>0 DEF OnChannel, CallAlive
  <2>2. UNCHANGED <<state, confirmCh, doneCh>> \/ \E ch : SetClosed(OnChannel(Appended(h), ch))
        BY <1>2 DEF UnsubPhase1
  <2> QED BY <2>1, <2>2 DEF StatesMove
<1>3. CASE Subscribe(h) \/ Unsubscribe(h) \/ Expire(h) \/ Lookup(h) \/ Create(h) \/ List(h)
             \/ CreateFails(h)
             \/ MetadataGone(h) \/ Register(h) \/ SendQueues(h) \/ SendFails(h) \/ WaitActive(h)
             \/ WaitExpires(h) \/ CheckPending(h) \/ CheckState(h) \/ SendCleanup(h) \/ Untrack(h)
             \/ Unregister(h) \/ Abort(h) \/ UnsubCheck(h) \/ UnsubCount(h) \/ UnsubUntrack(h)
             \/ UnsubQueues(h) \/ UnsubSendFails(h) \/ UnsubClean(h) \/ UnsubWait(h)
             \/ UnsubRemove(h)
      BY <1>3 DEF StatesMove, Subscribe, Unsubscribe, Expire, Lookup, Create, List, CreateFails,
         MetadataGone, Register, SendQueues, SendFails, WaitActive, WaitExpires, CheckPending,
         CheckState, SendCleanup, Untrack, Unregister, Abort, UnsubCheck, UnsubCount,
         UnsubUntrack, UnsubQueues, UnsubSendFails, UnsubClean, UnsubWait, UnsubRemove, Goto
<1> QED BY <1>1, <1>2, <1>3 DEF CallStep

LEMMA CallerAliveGrows ==
  ASSUME TypeOK, NEW h \in Handles, StatesMove \/ Track(h) \/ Confirm(h)
  PROVE  Alive \subseteq Alive'
<1>1. CASE StatesMove
      BY <1>1, AliveGrows
<1>2. CASE Track(h) \/ Confirm(h)
      BY <1>2 DEF Track, Confirm, Alive, TypeOK, SubTypes
<1> QED BY <1>1, <1>2

\* The caller's own variables.
LEMMA CallerItself ==
  ASSUME TypeOK, Placed, AllAlive, NEW h \in Handles, Alive \subseteq Alive',
         Subscribe(h) \/ Unsubscribe(h) \/ Expire(h) \/ CallStep(h)
  PROVE  /\ CallAlive(h)'
         /\ \A g \in Handles \ {h} : pc'[g] = pc[g] /\ idx'[g] = idx[g] /\ waitOn'[g] = waitOn[g]
<1> USE DEF Go, Goto
<1>0. CallAlive(h) /\ pc \in [Handles -> ClientPcs] /\ idx \in [Handles -> Nat \ {0}]
        /\ waitOn \in [Handles -> Subs \cup {NoSub}]
      BY DEF AllAlive, TypeOK, CallTypes
<1>a. ASSUME NEW p, pc' = [pc EXCEPT ![h] = p], UNCHANGED <<idx, waitOn>>,
             p \in CreatedPcs => pc[h] \in CreatedPcs \/ Cur(h) \in Alive',
             p \in {"waitActive", "checkPending"} => pc[h] \in {"waitActive", "checkPending"}
      PROVE  /\ CallAlive(h)'
             /\ \A g \in Handles \ {h} : pc'[g] = pc[g] /\ idx'[g] = idx[g] /\ waitOn'[g] = waitOn[g]
  <2>1. pc'[h] = p /\ Appended(h)' = Appended(h) /\ Cur(h)' = Cur(h) /\ waitOn'[h] = waitOn[h]
        BY <1>0, <1>a DEF Appended, Cur
  <2>2. \A g \in Handles \ {h} : pc'[g] = pc[g] /\ idx'[g] = idx[g] /\ waitOn'[g] = waitOn[g]
        BY <1>0, <1>a
  <2> QED BY <1>0, <1>a, <2>1, <2>2 DEF CallAlive
<1>1. CASE Subscribe(h) \/ Unsubscribe(h) \/ Lookup(h) \/ Create(h) \/ List(h) \/ CreateFails(h)
             \/ MetadataGone(h) \/ Unregister(h) \/ Abort(h)
  <2>1. /\ \E p \in ClientPcs \ CreatedPcs : pc' = [pc EXCEPT ![h] = p]
        /\ UNCHANGED <<idx, waitOn>>
        BY <1>1 DEF Subscribe, Unsubscribe, Lookup, Create, List, CreateFails, MetadataGone,
           Unregister, Abort, ClientPcs, UnsubPcs, CreatedPcs
  <2> QED BY <1>a, <2>1 DEF CreatedPcs
<1>2. CASE UnsubCheck(h) \/ UnsubUntrack(h) \/ UnsubPhase1(h) \/ UnsubQueues(h) \/ UnsubCount(h)
             \/ UnsubSendFails(h) \/ UnsubClean(h) \/ UnsubWait(h) \/ UnsubRemove(h)
  <2>1. /\ pc[h] \in UnsubPcs /\ UNCHANGED <<idx, waitOn>>
        /\ \E p \in UnsubPcs \cup {"gone", "failed"} : pc' = [pc EXCEPT ![h] = p]
    <3>1. pc = [pc EXCEPT ![h] = pc[h]]
          BY <1>0
    <3> QED BY <1>2, <3>1 DEF UnsubCheck, UnsubUntrack, UnsubPhase1, UnsubQueues, UnsubCount,
          UnsubSendFails, UnsubClean, UnsubWait, UnsubRemove, Ended, UnsubPcs
  <2> QED BY <1>a, <2>1 DEF CreatedPcs, UnsubPcs
<1>3. CASE Expire(h)
  <2>1. UNCHANGED <<pc, idx, waitOn>>
        BY <1>3 DEF Expire
  <2> QED BY <1>0, <2>1, CallAliveFrame
<1>4. CASE Track(h)
  <2>1. Cur(h) \in Alive'
        BY <1>4, CurTypes DEF Track, Alive, TypeOK, SubTypes
  <2> QED BY <1>4, <1>a, <2>1 DEF Track
<1>5. CASE Register(h)
  <2> DEFINE next == RegisterDecision(CurConn(h), CurChannel(h))
             old == pending[CurConn(h)][CurChannel(h)]
  <2>1. pc[h] = "register" /\ pc' = [pc EXCEPT ![h] = next] /\ UNCHANGED idx
          /\ waitOn' = [waitOn EXCEPT ![h] = old]
        BY <1>5 DEF Register
  <2>2. next \in {"waitActive", "send", "activate"} /\ (next = "waitActive" => old # NoSub)
        BY DEF RegisterDecision
  <2>3. old \in Alive \cup {NoSub}
        BY <2>1, CurTypes DEF AllAlive, ConnAlive, Placed, PlacedAt, CreatedPcs
  <2> HIDE DEF next, old
  <2>4. pc'[h] = next /\ waitOn'[h] = old /\ Appended(h)' = Appended(h) /\ Cur(h)' = Cur(h)
        BY <1>0, <2>1 DEF Appended, Cur
  <2>5. CallAlive(h)'
        BY <1>0, <2>1, <2>2, <2>3, <2>4 DEF CallAlive, CreatedPcs
  <2> QED BY <1>0, <2>1, <2>5
<1>6. CASE SendQueues(h) \/ SendFails(h) \/ Confirm(h) \/ WaitActive(h) \/ WaitExpires(h)
             \/ CheckPending(h) \/ SendCleanup(h) \/ Untrack(h)
  <2>1. /\ pc[h] \in CreatedPcs /\ UNCHANGED <<idx, waitOn>>
        /\ \E p \in CreatedPcs : /\ pc' = [pc EXCEPT ![h] = p]
                                  /\ p # "waitActive" /\ (p = "checkPending" => pc[h] = "waitActive")
        BY <1>6 DEF SendQueues, SendFails, Confirm, WaitActive, WaitExpires, CheckPending,
           SendCleanup, Untrack, CreatedPcs
  <2> QED BY <1>a, <2>1
<1>7. CASE CheckState(h) \/ Activate(h)
  <2>1. pc[h] \in CreatedPcs /\ UNCHANGED waitOn
        BY <1>7 DEF CheckState, Activate, CreatedPcs
  <2>2. (pc' = [pc EXCEPT ![h] = "untrack"] /\ UNCHANGED idx) \/ Advance(h)
        BY <1>7 DEF CheckState, Activate
  <2>3. CASE pc' = [pc EXCEPT ![h] = "untrack"] /\ UNCHANGED idx
        BY <1>a, <2>1, <2>3 DEF CreatedPcs
  <2>4. CASE Advance(h)
    <3>1. /\ idx'[h] = idx[h] + 1 /\ pc'[h] \in {"subscribed", "lookup"}
          /\ \A g \in Handles \ {h} : pc'[g] = pc[g] /\ idx'[g] = idx[g]
          BY <1>0, <2>4 DEF Advance
    <3>2. \A i \in 1..(idx'[h] - 1) : i \in 1..(idx[h] - 1) \/ i = idx[h]
          BY <1>0, <3>1
    <3>3. Appended(h)' \subseteq Appended(h) \cup {Cur(h)}
          BY <3>2 DEF Appended, Cur
    <3>4. CallAlive(h)'
          BY <1>0, <2>1, <3>1, <3>3 DEF CallAlive, CreatedPcs
    <3> QED BY <2>1, <3>1, <3>4
  <2> QED BY <2>2, <2>3, <2>4
<1> QED BY <1>1, <1>2, <1>3, <1>4, <1>5, <1>6, <1>7 DEF CallStep

\* The connections, and the global map.
LEMMA CallerKeepsConns ==
  ASSUME TypeOK, Placed, AllAlive, NEW h \in Handles, Alive \subseteq Alive',
         Subscribe(h) \/ Unsubscribe(h) \/ Expire(h) \/ CallStep(h)
  PROVE  (\A c \in Conns : ConnAlive(c)') /\ global' \subseteq Alive' /\ UNCHANGED closeSubs
<1> USE DEF Goto
<1>0. CallAlive(h) /\ (\A c \in Conns : ConnAlive(c)) /\ global \subseteq Alive'
      BY DEF AllAlive
<1>a. ASSUME UNCHANGED <<loopVars, subscriptions, pending, cmdCh>>
      PROVE  \A c \in Conns : ConnAlive(c)'
      BY <1>0, <1>a DEF ConnAlive
<1>b. ASSUME UNCHANGED <<loopVars, cmdCh>>,
             \A c \in Conns : subscriptions'[c] \subseteq subscriptions[c],
             \A c \in Conns, ch \in Channels : pending'[c][ch] \in {pending[c][ch], NoSub}
      PROVE  \A c \in Conns : ConnAlive(c)'
      BY <1>0, <1>b DEF ConnAlive
<1>1. CASE Subscribe(h) \/ Unsubscribe(h) \/ Expire(h) \/ Lookup(h) \/ List(h) \/ CreateFails(h)
             \/ MetadataGone(h) \/ SendFails(h) \/ Confirm(h) \/ WaitActive(h) \/ WaitExpires(h)
             \/ CheckPending(h) \/ CheckState(h) \/ Activate(h) \/ Untrack(h) \/ Abort(h)
             \/ UnsubCheck(h) \/ UnsubCount(h) \/ UnsubUntrack(h) \/ UnsubPhase1(h)
             \/ UnsubSendFails(h) \/ UnsubWait(h)
  <2>1. /\ UNCHANGED <<loopVars, subscriptions, pending, cmdCh, closeSubs>>
        /\ global' \subseteq global
        BY <1>1 DEF Subscribe, Unsubscribe, Expire, Lookup, List, CreateFails, MetadataGone,
           SendFails, Confirm, WaitActive, WaitExpires, CheckPending, CheckState, Activate,
           Untrack, Abort, UnsubCheck, UnsubCount, UnsubUntrack, UnsubPhase1, UnsubSendFails,
           UnsubWait
  <2> QED BY <1>0, <1>a, <2>1
<1>2. CASE Create(h)
  <2>1. /\ \E c \in Conns : loop' = [loop EXCEPT ![c] = "select"]
        /\ UNCHANGED <<subscriptions, pending, cmdCh, loopSub, loopTodo, global, closeSubs>>
        BY <1>2 DEF Create
  <2>2. \A c \in Conns : loop'[c] \in {"select", loop[c]}
        BY <2>1 DEF TypeOK, LoopTypes
  <2> QED BY <1>0, <2>1, <2>2 DEF ConnAlive
<1>3. CASE Track(h)
  <2>1. /\ global' \subseteq global \cup {Cur(h)}
        /\ UNCHANGED <<loopVars, subscriptions, pending, cmdCh, closeSubs>>
        BY <1>3 DEF Track
  <2>2. Cur(h) \in Alive'
        BY <1>3, CurTypes DEF Track, Alive, TypeOK, SubTypes
  <2> QED BY <1>0, <1>a, <2>1, <2>2
<1>4. CASE Register(h)
  <2>1. Cur(h) \in Alive
        BY <1>0, <1>4 DEF Register, CallAlive, CreatedPcs
  <2>2. /\ UNCHANGED <<loopVars, cmdCh, global, closeSubs>>
        /\ subscriptions' = [subscriptions EXCEPT ![CurConn(h)] = @ \cup {Cur(h)}]
        /\ pending' \in {pending, [pending EXCEPT ![CurConn(h)][CurChannel(h)] = Cur(h)]}
        BY <1>4 DEF Register
  <2>3. \A c \in Conns : subscriptions'[c] \subseteq subscriptions[c] \cup {Cur(h)}
        BY <2>2 DEF TypeOK, MetaTypes
  <2>4. \A c \in Conns, ch \in Channels : pending'[c][ch] \in {pending[c][ch], Cur(h)}
    <3>1. CurConn(h) \in Conns /\ CurChannel(h) \in Channels
          BY <1>4, CurTypes DEF Register, Placed, PlacedAt, CreatedPcs
    <3>2. CASE pending' = pending
          BY <3>2
    <3>3. CASE pending' = [pending EXCEPT ![CurConn(h)][CurChannel(h)] = Cur(h)]
          BY <3>1, <3>3 DEF TypeOK, MetaTypes
    <3> QED BY <2>2, <3>2, <3>3
  <2> QED BY <1>0, <2>1, <2>2, <2>3, <2>4 DEF ConnAlive
<1>5. CASE SendQueues(h) \/ UnsubQueues(h)
  <2>1. PICK s \in Alive : \E d, op : Queue(d, Command(op, s, h))
    <3>1. CASE SendQueues(h)
      <4>1. Cur(h) \in Alive
            BY <1>0, <3>1 DEF SendQueues, CallAlive, CreatedPcs
      <4> QED BY <3>1, <4>1 DEF SendQueues
    <3>2. CASE UnsubQueues(h)
      <4>1. curCh[h] \in AppendedChannels(h)
            BY <3>2 DEF UnsubQueues, Placed, PlacedAt
      <4>2. FirstSub(h, curCh[h]) \in Alive
            BY <1>0, <4>1, FirstSubExists DEF CallAlive
      <4> QED BY <3>2, <4>2 DEF UnsubQueues
    <3> QED BY <1>5, <3>1, <3>2
  <2>q. PICK d, op : Queue(d, Command(op, s, h))
        BY <2>1
  <2>2. UNCHANGED <<loopVars, subscriptions, pending, global, closeSubs>>
        BY <1>5 DEF SendQueues, UnsubQueues
  <2>3. ASSUME NEW c \in Conns PROVE ConnAlive(c)'
    <3>1. cmdCh[c] \in Seq(Commands)
          BY DEF TypeOK, MetaTypes
    <3>2. cmdCh'[c] = cmdCh[c] \/ cmdCh'[c] = Append(cmdCh[c], Command(op, s, h))
          BY <2>q DEF Queue, TypeOK, MetaTypes
    <3>3. \A i \in 1..Len(cmdCh'[c]) : cmdCh'[c][i].sub \in Alive
      <4>1. CASE cmdCh'[c] = cmdCh[c]
            BY <1>0, <4>1 DEF ConnAlive
      <4>2. CASE cmdCh'[c] = Append(cmdCh[c], Command(op, s, h))
        <5>1. Command(op, s, h).sub = s
              BY DEF Command
        <5>2. \A i \in 1..Len(cmdCh'[c]) : cmdCh'[c][i] = IF i = Len(cmdCh[c]) + 1
                THEN Command(op, s, h) ELSE cmdCh[c][i]
              BY <3>1, <4>2
        <5>3. \A i \in 1..Len(cmdCh'[c]) : i = Len(cmdCh[c]) + 1 \/ i \in 1..Len(cmdCh[c])
              BY <3>1, <4>2
        <5> QED BY <1>0, <5>1, <5>2, <5>3 DEF ConnAlive
      <4> QED BY <3>2, <4>1, <4>2
    <3> QED BY <1>0, <2>2, <3>3 DEF ConnAlive
  <2> QED BY <1>0, <2>2, <2>3
<1>6. CASE SendCleanup(h)
  <2>1. UNCHANGED <<loopVars, subscriptions, cmdCh, global, closeSubs>>
        BY <1>6 DEF SendCleanup
  <2>2. \A c \in Conns, ch \in Channels : pending'[c][ch] \in {pending[c][ch], NoSub}
        BY <1>6 DEF SendCleanup, DropPending, TypeOK, MetaTypes
  <2> QED BY <1>0, <1>b, <2>1, <2>2
<1>7. CASE Unregister(h) \/ UnsubClean(h) \/ UnsubRemove(h)
  <2>1. /\ UNCHANGED <<loopVars, cmdCh, global, closeSubs>>
        /\ \E d, S : RemoveFromMeta(d, S)
        BY <1>7 DEF Unregister, UnsubClean, UnsubRemove
  <2>2. /\ \A c \in Conns : subscriptions'[c] \subseteq subscriptions[c]
        /\ \A c \in Conns, ch \in Channels : pending'[c][ch] \in {pending[c][ch], NoSub}
        BY <2>1 DEF RemoveFromMeta, TypeOK, MetaTypes
  <2> QED BY <1>0, <1>b, <2>1, <2>2
<1> QED BY <1>1, <1>2, <1>3, <1>4, <1>5, <1>6, <1>7 DEF CallStep

LEMMA LoopKeepsAlive ==
  ASSUME TypeOK, AllAlive, NEW c \in Conns, LoopStep(c) \/ Break(c)
  PROVE  AllAlive' /\ StatesMove
<1> USE DEF LoopTo
<1>0. /\ ConnAlive(c) /\ loop \in [Conns -> LoopPcs] /\ loopSub \in [Conns -> Subs \cup {NoSub}]
      /\ loopTodo \in [Conns -> SUBSET Subs]
      BY DEF AllAlive, TypeOK, LoopTypes
<1>1. StatesMove
  <2>1. CASE LoopFailsSub(c) \/ LoopConfirms(c)
    <3>1. loopSub[c] \in Alive
          BY <1>0, <2>1 DEF LoopFailsSub, LoopConfirms, ConnAlive
    <3> QED BY <2>1, <3>1 DEF LoopFailsSub, LoopConfirms, StatesMove
  <2>2. CASE LoopNotifies(c)
    <3>1. loopTodo[c] \subseteq Alive
          BY <1>0 DEF ConnAlive
    <3> QED BY <2>2, <3>1 DEF LoopNotifies, StatesMove
  <2>3. CASE ~(LoopFailsSub(c) \/ LoopConfirms(c) \/ LoopNotifies(c))
        BY <2>3 DEF StatesMove, LoopStep, LoopSends, LoopSendFails, LoopLosesChannel,
           LoopMarksFailed, LoopSnapshots, LoopSignals, LoopReceivesConfirmation, LoopUnpends,
           LoopReceivesMessage, LoopDispatches, LoopHandsOver, LoopStops, LoopDrains,
           LoopClosesLoopDone, LoopExits, LoopRetires, LoopRemovesConn, LoopCleansZombies, Break
  <2> QED BY <2>1, <2>2, <2>3
<1>2. Alive \subseteq Alive'
      BY <1>1, AliveGrows
<1>3. /\ global' \subseteq global /\ UNCHANGED <<closeSubs, callVars>>
      /\ \A d \in Conns : subscriptions'[d] = subscriptions[d]
      BY DEF LoopStep, LoopSends, LoopSendFails, LoopFailsSub, LoopLosesChannel, LoopMarksFailed,
         LoopSnapshots, LoopNotifies, LoopSignals, LoopReceivesConfirmation, LoopConfirms,
         LoopUnpends, LoopReceivesMessage, LoopDispatches, LoopHandsOver, LoopStops, LoopDrains,
         LoopClosesLoopDone, LoopExits, LoopRetires, LoopRemovesConn, LoopCleansZombies, Break
<1>4. \A d \in Conns, ch \in Channels : pending'[d][ch] \in {pending[d][ch], NoSub}
  <2>1. UNCHANGED pending \/ \E d, ch : DropPending(d, ch)
        BY DEF LoopStep, LoopSends, LoopSendFails, LoopFailsSub, LoopLosesChannel,
           LoopMarksFailed, LoopSnapshots, LoopNotifies, LoopSignals, LoopReceivesConfirmation,
           LoopConfirms, LoopUnpends, LoopReceivesMessage, LoopDispatches, LoopHandsOver,
           LoopStops, LoopDrains, LoopClosesLoopDone, LoopExits, LoopRetires, LoopRemovesConn,
           LoopCleansZombies, Break
  <2>2. CASE UNCHANGED pending
        BY <2>2
  <2>3. ASSUME NEW d, NEW ch, DropPending(d, ch)
        PROVE  \A e \in Conns, x \in Channels : pending'[e][x] \in {pending[e][x], NoSub}
        BY <2>3 DEF DropPending, TypeOK, MetaTypes
  <2> QED BY <2>1, <2>2, <2>3
<1>5. \A d \in Conns \ {c} : loop'[d] = loop[d] /\ loopSub'[d] = loopSub[d]
                               /\ loopTodo'[d] = loopTodo[d]
      BY <1>0 DEF LoopStep, LoopSends, LoopSendFails, LoopFailsSub, LoopLosesChannel,
         LoopMarksFailed, LoopSnapshots, LoopNotifies, LoopSignals, LoopReceivesConfirmation,
         LoopConfirms, LoopUnpends, LoopReceivesMessage, LoopDispatches, LoopHandsOver, LoopStops,
         LoopDrains, LoopClosesLoopDone, LoopExits, LoopRetires, LoopRemovesConn,
         LoopCleansZombies, Break
<1>6. ASSUME NEW d \in Conns PROVE \A i \in 1..Len(cmdCh'[d]) : cmdCh'[d][i].sub \in Alive
  <2>1. \/ UNCHANGED cmdCh
        \/ cmdCh[c] # <<>> /\ cmdCh' = [cmdCh EXCEPT ![c] = Tail(@)]
        \/ cmdCh' = [cmdCh EXCEPT ![c] = <<>>]
        BY DEF LoopStep, LoopSends, LoopSendFails, LoopFailsSub, LoopLosesChannel,
           LoopMarksFailed, LoopSnapshots, LoopNotifies, LoopSignals, LoopReceivesConfirmation,
           LoopConfirms, LoopUnpends, LoopReceivesMessage, LoopDispatches, LoopHandsOver,
           LoopStops, LoopDrains, LoopClosesLoopDone, LoopExits, LoopRetires, LoopRemovesConn,
           LoopCleansZombies, Break
  <2>2. cmdCh[d] \in Seq(Commands) /\ \A i \in 1..Len(cmdCh[d]) : cmdCh[d][i].sub \in Alive
        BY DEF AllAlive, ConnAlive, TypeOK, MetaTypes
  <2>3. cmdCh'[d] = cmdCh[d] \/ cmdCh'[d] = <<>> \/ (cmdCh[d] # <<>> /\ cmdCh'[d] = Tail(cmdCh[d]))
        BY <2>1 DEF TypeOK, MetaTypes
  <2>4. ASSUME cmdCh[d] # <<>>, cmdCh'[d] = Tail(cmdCh[d])
        PROVE  \A i \in 1..Len(cmdCh'[d]) : cmdCh'[d][i].sub \in Alive
    <3>1. \A i \in 1..Len(cmdCh'[d]) : i + 1 \in 1..Len(cmdCh[d]) /\ cmdCh'[d][i] = cmdCh[d][i + 1]
          BY <2>2, <2>4
    <3> QED BY <2>2, <3>1
  <2> QED BY <2>2, <2>3, <2>4
<1>7. loopTodo'[c] \subseteq Alive
  <2>1. \/ loopTodo'[c] \subseteq loopTodo[c] \/ loopTodo'[c] \subseteq subscriptions[c]
        BY <1>0 DEF LoopStep, LoopSends, LoopSendFails, LoopFailsSub, LoopLosesChannel,
           LoopMarksFailed, LoopSnapshots, LoopNotifies, LoopSignals, LoopReceivesConfirmation,
           LoopConfirms, LoopUnpends, LoopReceivesMessage, LoopDispatches, LoopHandsOver,
           LoopStops, LoopDrains, OnChannel, LoopClosesLoopDone, LoopExits, LoopRetires,
           LoopRemovesConn, LoopCleansZombies, Break
  <2> QED BY <1>0, <2>1 DEF ConnAlive
<1>8. loop'[c] \in {"expired", "rejected", "confirm", "unpend", "signal", "handOver"}
        => loopSub'[c] \in Alive
  <2>1. CASE LoopSendFails(c)
    <3>1. cmdCh[c] \in Seq(Commands) /\ cmdCh[c] # <<>> /\ Head(cmdCh[c]) = cmdCh[c][1]
          BY <2>1 DEF LoopSendFails, TypeOK, MetaTypes
    <3>2. Head(cmdCh[c]).sub \in Alive
          BY <1>0, <3>1 DEF ConnAlive
    <3>3. loopSub'[c] = Head(cmdCh[c]).sub \/ loop'[c] = "fail"
          BY <1>0, <2>1 DEF LoopSendFails
    <3> QED BY <3>2, <3>3
  <2>2. CASE LoopReceivesConfirmation(c)
    <3> DEFINE s == pending[c][Head(inbox[c]).channel]
    <3>1. Head(inbox[c]) \in Incoming
          BY <2>2 DEF LoopReceivesConfirmation, TypeOK, ServerTypes
    <3>2. s \in Alive \cup {NoSub}
          BY <1>0, <3>1 DEF ConnAlive, Incoming
    <3>3. loopSub'[c] = s /\ (s = NoSub => loop'[c] = "select")
          BY <1>0, <2>2 DEF LoopReceivesConfirmation
    <3> QED BY <3>2, <3>3
  <2>3. CASE LoopConfirms(c)
        BY <1>0, <2>3 DEF LoopConfirms, ConnAlive
  <2>5. CASE LoopNotifies(c) \/ LoopDispatches(c)
    <3>1. loopTodo[c] \subseteq Alive
          BY <1>0 DEF ConnAlive
    <3>2. loop'[c] \in {"drain", "select", "dispatch"} \/ loopSub'[c] \in loopTodo[c]
          BY <1>0, <2>5 DEF LoopNotifies, LoopDispatches
    <3> QED BY <3>1, <3>2
  <2>4. CASE ~(LoopSendFails(c) \/ LoopReceivesConfirmation(c) \/ LoopConfirms(c)
                 \/ LoopNotifies(c) \/ LoopDispatches(c))
    <3>1. \/ UNCHANGED <<loop, loopSub>>
          \/ loop'[c] \notin {"expired", "rejected", "confirm", "unpend", "signal", "handOver"}
          BY <1>0, <2>4 DEF LoopStep, LoopSends, LoopFailsSub, LoopLosesChannel, LoopMarksFailed,
             LoopSnapshots, LoopSignals, LoopUnpends, LoopReceivesMessage, LoopHandsOver,
             LoopStops, LoopDrains, LoopClosesLoopDone, LoopExits, LoopRetires, LoopRemovesConn,
             LoopCleansZombies, Break
    <3> QED BY <1>0, <3>1 DEF ConnAlive
  <2> QED BY <2>1, <2>2, <2>3, <2>4, <2>5
<1>9. \A d \in Conns : ConnAlive(d)'
  <2> SUFFICES ASSUME NEW d \in Conns PROVE ConnAlive(d)'
      OBVIOUS
  <2>1. ConnAlive(d)
        BY DEF AllAlive
  <2> QED BY <1>2, <1>3, <1>4, <1>5, <1>6, <1>7, <1>8, <2>1 DEF ConnAlive
<1>10. \A h \in Handles : CallAlive(h)'
      BY <1>2, <1>3, CallAliveFrame DEF AllAlive
<1> QED BY <1>1, <1>2, <1>3, <1>9, <1>10 DEF AllAlive

LEMMA CloseKeepsAlive ==
  ASSUME TypeOK, AllAlive,
         CloseBegins \/ CloseStep \/ \E type \in Types, ch \in Channels : Publish(type, ch)
  PROVE  AllAlive' /\ StatesMove
<1>1. StatesMove
  <2>1. CASE CloseMarks
        BY <2>1 DEF CloseMarks, StatesMove, AllAlive, subVars
  <2>2. CASE CloseBegins \/ CloseTakesPool \/ CloseConnection \/ CloseJoins \/ CloseClears
        BY <2>2 DEF CloseBegins, CloseTakesPool, CloseConnection, CloseJoins, CloseClears,
           StatesMove, subVars
  <2>3. ASSUME NEW type \in Types, NEW ch \in Channels, Publish(type, ch) PROVE StatesMove
        BY <2>3 DEF Publish, StatesMove, subVars
  <2> QED BY <2>1, <2>2, <2>3 DEF CloseStep
<1>2. Alive \subseteq Alive'
      BY <1>1, AliveGrows
<1>3. /\ UNCHANGED <<loop, loopSub, loopTodo, subscriptions, pending, cmdCh, pc, idx, waitOn>>
      /\ global' \subseteq global /\ closeSubs' \subseteq closeSubs \cup global
  <2>1. CASE CloseBegins \/ CloseStep
        BY <2>1 DEF CloseBegins, CloseStep, CloseMarks, CloseTakesPool, CloseConnection,
           CloseJoins, CloseClears, muxVars, metaVars, closeFrame, loopVars, callVars
  <2>2. ASSUME NEW type \in Types, NEW ch \in Channels, Publish(type, ch)
        PROVE  UNCHANGED <<loop, loopSub, loopTodo, subscriptions, pending, cmdCh, pc, idx, waitOn,
                           global, closeSubs>>
        BY <2>2 DEF Publish, muxVars, metaVars, loopVars, callVars, endVars
  <2> QED BY <2>1, <2>2
<1>4. \A c \in Conns : ConnAlive(c)'
      BY <1>2, <1>3 DEF AllAlive, ConnAlive
<1>5. \A h \in Handles : CallAlive(h)'
      BY <1>2, <1>3, CallAliveFrame DEF AllAlive
<1> QED BY <1>1, <1>2, <1>3, <1>4, <1>5 DEF AllAlive

LEMMA CallerKeepsAlive ==
  ASSUME TypeOK, Placed, AllAlive, NEW h \in Handles,
         Subscribe(h) \/ Unsubscribe(h) \/ Expire(h) \/ CallStep(h)
  PROVE  AllAlive'
<1>1. Alive \subseteq Alive'
      BY CallerStates, CallerAliveGrows
<1>2. /\ CallAlive(h)'
      /\ \A g \in Handles \ {h} : pc'[g] = pc[g] /\ idx'[g] = idx[g] /\ waitOn'[g] = waitOn[g]
      BY <1>1, CallerItself
<1>3. \A g \in Handles \ {h} : CallAlive(g)'
      BY <1>1, <1>2, CallAliveFrame DEF AllAlive
<1>4. (\A c \in Conns : ConnAlive(c)') /\ global' \subseteq Alive' /\ UNCHANGED closeSubs
      BY <1>1, CallerKeepsConns
<1> QED BY <1>1, <1>2, <1>3, <1>4 DEF AllAlive

LEMMA StutterKeepsAlive == ASSUME AllAlive, UNCHANGED vars PROVE AllAlive'
<1>1. UNCHANGED <<state, global, closeSubs, loop, loopSub, loopTodo, subscriptions, pending, cmdCh,
                  pc, idx, waitOn>>
      BY DEF vars, muxVars, subVars, metaVars, loopVars, callVars, endVars
<1>2. Alive' = Alive
      BY <1>1 DEF Alive
<1>3. \A c \in Conns : ConnAlive(c)'
      BY <1>1, <1>2 DEF AllAlive, ConnAlive
<1>4. \A h \in Handles : CallAlive(h)'
      BY <1>1, <1>2, CallAliveFrame DEF AllAlive
<1> QED BY <1>1, <1>2, <1>3, <1>4 DEF AllAlive

LEMMA AliveStep == TypeOK /\ Placed /\ AllAlive /\ [Next]_vars => AllAlive'
BY CallerKeepsAlive, LoopKeepsAlive, CloseKeepsAlive, StutterKeepsAlive DEF Next

-----------------------------------------------------------------------------
(* Leaving Pending is signalled *)

\* The two halves of Signalled.
DoneSignalled ==
  \A s \in Subs : state[s] \in {"active", "failed", "closed"} => doneCh[s] # "open"
ConfirmSignalled(h) ==
  pc[h] \in {"register", "send", "confirm"} /\ state[Cur(h)] # "pending"
    => confirmCh[Cur(h)] # "empty"

\* setState signals: a subscription that is not pending after it was signalled
\* before, or is now.
LEMMA MoveSignals ==
  ASSUME TypeOK, StatesMove, NEW s \in Alive
  PROVE  /\ state[s] # "pending" => UNCHANGED <<confirmCh[s], doneCh[s]>>
         /\ state'[s] # "pending"
              => state[s] # "pending" \/ (confirmCh'[s] # "empty" /\ doneCh'[s] # "open")
<1> USE DEF TypeOK, SubTypes, Alive
<1>1. CASE UNCHANGED <<state, confirmCh, doneCh>>
      BY <1>1
<1>2. ASSUME NEW t \in Alive, NEW new \in {"active", "failed", "closed"}, NEW err \in {"nil", "err"},
             SetState(t, new, err)
      PROVE  /\ state[s] # "pending" => UNCHANGED <<confirmCh[s], doneCh[s]>>
             /\ state'[s] # "pending"
                  => state[s] # "pending" \/ (confirmCh'[s] # "empty" /\ doneCh'[s] # "open")
  <2>1. CASE s = t
        BY <1>2, <2>1 DEF SetState, Confirmed, Announced
  <2>2. CASE s # t
        BY <1>2, <2>2 DEF SetState, Confirmed, Announced
  <2> QED BY <2>1, <2>2
<1>3. ASSUME NEW S \in SUBSET Alive, SetClosed(S)
      PROVE  /\ state[s] # "pending" => UNCHANGED <<confirmCh[s], doneCh[s]>>
             /\ state'[s] # "pending"
                  => state[s] # "pending" \/ (confirmCh'[s] # "empty" /\ doneCh'[s] # "open")
      BY <1>3 DEF SetClosed, Confirmed, Announced
<1> QED BY <1>1, <1>2, <1>3 DEF StatesMove

\* What is not created stays so.
LEMMA MoveKeepsNone ==
  ASSUME TypeOK, StatesMove, NEW s \in Subs \ Alive PROVE state'[s] = "none"
BY DEF StatesMove, SetState, SetClosed, Alive, TypeOK, SubTypes

LEMMA MoveKeepsDone ==
  ASSUME TypeOK, StatesMove, DoneSignalled PROVE DoneSignalled'
<1> SUFFICES ASSUME NEW s \in Subs, state'[s] \in {"active", "failed", "closed"}
             PROVE  doneCh'[s] # "open"
    BY DEF DoneSignalled
<1>1. s \in Alive
      BY MoveKeepsNone
<1>2. state[s] \in {"pending", "active", "failed", "closed"}
      BY <1>1 DEF Alive, TypeOK, SubTypes
<1> QED BY <1>1, <1>2, MoveSignals DEF DoneSignalled

LEMMA MoveKeepsConfirm ==
  ASSUME TypeOK, Placed, AllAlive, StatesMove, NEW h \in Handles, ConfirmSignalled(h),
         pc'[h] \in {"register", "send", "confirm"}
           => pc[h] \in {"register", "send", "confirm"} /\ idx'[h] = idx[h]
  PROVE  ConfirmSignalled(h)'
<1> SUFFICES ASSUME pc'[h] \in {"register", "send", "confirm"}, state'[Cur(h)'] # "pending"
             PROVE  confirmCh'[Cur(h)'] # "empty"
    BY DEF ConfirmSignalled
<1>1. Cur(h)' = Cur(h) /\ Cur(h) \in Alive
      BY DEF Cur, AllAlive, CallAlive, CreatedPcs
<1> QED BY <1>1, MoveSignals DEF ConfirmSignalled

\* Two callers are never inside subscribeToChannel for the same subscription.
LEMMA CurDistinct ==
  ASSUME TypeOK, Placed, NEW g \in Handles, NEW h \in Handles, g # h,
         pc[g] \in CreatedPcs, pc[h] \in CreatedPcs
  PROVE  Cur(g) # Cur(h)
<1>1. idx[g] \in 1..Len(SubsOf[g]) /\ idx[h] \in 1..Len(SubsOf[h])
      BY DEF TypeOK, CallTypes, Placed, PlacedAt
<1> QED BY <1>1, SubMuxAssumption DEF Cur

\* A caller reaches the places where it counts on confirmCh from Track, or from
\* one of them.
LEMMA CallerReaches ==
  ASSUME TypeOK, NEW h \in Handles, Subscribe(h) \/ Unsubscribe(h) \/ Expire(h) \/ CallStep(h),
         ~Track(h), pc'[h] \in {"register", "send", "confirm"}
  PROVE  pc[h] \in {"register", "send", "confirm"} /\ idx'[h] = idx[h]
<1> USE DEF Go, Goto
<1>0. pc \in [Handles -> ClientPcs]
      BY DEF TypeOK, CallTypes
<1>1. CASE Expire(h) \/ Register(h) \/ SendQueues(h)
      BY <1>0, <1>1 DEF Expire, Register, SendQueues
<1>2. CASE CheckState(h) \/ Activate(h)
      BY <1>0, <1>2 DEF CheckState, Activate, Advance
<1>3. CASE Subscribe(h) \/ Unsubscribe(h) \/ Lookup(h) \/ Create(h) \/ List(h) \/ CreateFails(h)
             \/ MetadataGone(h) \/ SendFails(h) \/ Confirm(h) \/ WaitActive(h) \/ WaitExpires(h)
             \/ CheckPending(h) \/ SendCleanup(h) \/ Untrack(h) \/ Unregister(h) \/ Abort(h)
      BY <1>0, <1>3 DEF Subscribe, Unsubscribe, Lookup, Create, List, CreateFails, MetadataGone,
         SendFails, Confirm, WaitActive, WaitExpires, CheckPending, SendCleanup, Untrack,
         Unregister, Abort
<1>4. CASE UnsubCheck(h) \/ UnsubCount(h) \/ UnsubUntrack(h) \/ UnsubPhase1(h) \/ UnsubQueues(h)
             \/ UnsubSendFails(h) \/ UnsubClean(h) \/ UnsubWait(h) \/ UnsubRemove(h)
      BY <1>0, <1>4 DEF UnsubCheck, UnsubCount, UnsubUntrack, UnsubPhase1, UnsubQueues,
         UnsubSendFails, UnsubClean, UnsubWait, UnsubRemove, Ended
<1> QED BY <1>1, <1>2, <1>3, <1>4 DEF CallStep

LEMMA CallerSignals ==
  ASSUME TypeOK, Placed, AllAlive, Signalled, NEW h \in Handles,
         Subscribe(h) \/ Unsubscribe(h) \/ Expire(h) \/ CallStep(h)
  PROVE  Signalled'
<1>0. DoneSignalled /\ \A g \in Handles : ConfirmSignalled(g)
      BY DEF Signalled, DoneSignalled, ConfirmSignalled
<1>1. Alive \subseteq Alive'
      BY CallerStates, CallerAliveGrows
<1>2. \A g \in Handles \ {h} : pc'[g] = pc[g] /\ idx'[g] = idx[g]
      BY <1>1, CallerItself
<1>3. CASE Track(h)
  <2>1. /\ Cur(h) \in Subs /\ Cur(h)' = Cur(h)
        /\ state' = [state EXCEPT ![Cur(h)] = "pending"] /\ UNCHANGED <<confirmCh, doneCh>>
        BY <1>3, CurTypes DEF Track, Cur
  <2>2. \A s \in Subs : state'[s] \in {"pending", state[s]}
        BY <2>1 DEF TypeOK, SubTypes
  <2>3. DoneSignalled'
        BY <1>0, <2>1, <2>2 DEF DoneSignalled
  <2>4. state'[Cur(h)'] = "pending"
        BY <2>1 DEF TypeOK, SubTypes
  <2>5. ASSUME NEW g \in Handles \ {h} PROVE ConfirmSignalled(g)'
    <3>1. Cur(g)' = Cur(g)
          BY <1>2 DEF Cur
    <3>2. pc[g] \in {"register", "send", "confirm"} => Cur(g) \in Subs
          BY CurTypes DEF CreatedPcs
    <3> QED BY <1>0, <1>2, <2>1, <2>2, <3>1, <3>2 DEF ConfirmSignalled
  <2>6. ConfirmSignalled(h)'
        BY <2>4 DEF ConfirmSignalled
  <2> QED BY <2>3, <2>5, <2>6 DEF Signalled, DoneSignalled, ConfirmSignalled
<1>4. CASE Confirm(h)
  <2>1. /\ pc[h] \in CreatedPcs /\ UNCHANGED <<state, doneCh>>
        /\ confirmCh' = [confirmCh EXCEPT ![Cur(h)] = "empty"]
        /\ pc'[h] \in {"checkState", "untrack"}
        BY <1>4 DEF Confirm, CreatedPcs, Go, TypeOK, CallTypes
  <2>2. DoneSignalled'
        BY <1>0, <2>1 DEF DoneSignalled
  <2>3. ASSUME NEW g \in Handles \ {h} PROVE ConfirmSignalled(g)'
    <3>1. Cur(g)' = Cur(g)
          BY <1>2 DEF Cur
    <3>2. pc[g] \in {"register", "send", "confirm"} => Cur(g) \in Subs /\ Cur(g) # Cur(h)
          BY <2>1, CurTypes, CurDistinct DEF CreatedPcs
    <3>3. \A s \in Subs : s # Cur(h) => confirmCh'[s] = confirmCh[s]
          BY <2>1 DEF TypeOK, SubTypes
    <3> QED BY <1>0, <1>2, <2>1, <3>1, <3>2, <3>3 DEF ConfirmSignalled
  <2>4. ConfirmSignalled(h)'
        BY <2>1 DEF ConfirmSignalled
  <2> QED BY <2>2, <2>3, <2>4 DEF Signalled, DoneSignalled, ConfirmSignalled
<1>5. CASE StatesMove /\ ~Track(h)
  <2>1. DoneSignalled'
        BY <1>0, <1>5, MoveKeepsDone
  <2>2. \A g \in Handles : pc'[g] \in {"register", "send", "confirm"}
          => pc[g] \in {"register", "send", "confirm"} /\ idx'[g] = idx[g]
        BY <1>2, <1>5, CallerReaches
  <2>3. \A g \in Handles : ConfirmSignalled(g)'
        BY <1>0, <1>5, <2>2, MoveKeepsConfirm
  <2> QED BY <2>1, <2>3 DEF Signalled, DoneSignalled, ConfirmSignalled
<1> QED BY <1>3, <1>4, <1>5, CallerStates

LEMMA MoveKeepsSignalled ==
  ASSUME TypeOK, Placed, AllAlive, Signalled, StatesMove, UNCHANGED callVars
  PROVE  Signalled'
<1>0. DoneSignalled /\ \A g \in Handles : ConfirmSignalled(g)
      BY DEF Signalled, DoneSignalled, ConfirmSignalled
<1>1. UNCHANGED <<pc, idx>>
      BY DEF callVars
<1>2. DoneSignalled'
      BY <1>0, MoveKeepsDone
<1>3. \A g \in Handles : ConfirmSignalled(g)'
      BY <1>0, <1>1, MoveKeepsConfirm
<1> QED BY <1>2, <1>3 DEF Signalled, DoneSignalled, ConfirmSignalled

LEMMA SignalStep == TypeOK /\ Placed /\ AllAlive /\ Signalled /\ [Next]_vars => Signalled'
<1> SUFFICES ASSUME TypeOK, Placed, AllAlive, Signalled, [Next]_vars PROVE Signalled'
    OBVIOUS
<1>1. CASE UNCHANGED vars
  <2>1. StatesMove /\ UNCHANGED callVars
        BY <1>1 DEF vars, subVars, StatesMove
  <2> QED BY <2>1, MoveKeepsSignalled
<1>2. ASSUME NEW h \in Handles, Subscribe(h) \/ Unsubscribe(h) \/ Expire(h) \/ CallStep(h)
      PROVE  Signalled'
      BY <1>2, CallerSignals
<1>3. ASSUME NEW c \in Conns, LoopStep(c) \/ Break(c)
      PROVE  Signalled'
  <2>1. StatesMove
        BY <1>3, LoopKeepsAlive
  <2>2. UNCHANGED callVars
        BY <1>3, OthersFrame
  <2> QED BY <2>1, <2>2, MoveKeepsSignalled
<1>4. CASE CloseBegins \/ CloseStep \/ \E type \in Types, ch \in Channels : Publish(type, ch)
  <2>1. StatesMove
        BY <1>4, CloseKeepsAlive
  <2>2. UNCHANGED callVars
        BY <1>4, OthersFrame
  <2> QED BY <2>1, <2>2, MoveKeepsSignalled
<1> QED BY <1>1, <1>2, <1>3, <1>4 DEF Next

-----------------------------------------------------------------------------

LEMMA InitHolds == Init => IInv
<1> SUFFICES ASSUME Init PROVE IInv
    OBVIOUS
<1>1. Placed
  <2> SUFFICES ASSUME NEW h \in Handles PROVE PlacedAt(h)
      BY DEF Placed
  <2>1. Len(SubsOf[h]) \in Nat \ {0}
        BY SubMuxAssumption
  <2> QED BY <2>1 DEF Init, PlacedAt, CreatedPcs
<1>2. AllAlive
  <2>1. \A c \in Conns : ConnAlive(c)
        BY DEF Init, ConnAlive
  <2>2. \A h \in Handles : CallAlive(h)
        BY DEF Init, CallAlive, Appended, CreatedPcs
  <2> QED BY <2>1, <2>2 DEF Init, AllAlive
<1>3. Signalled
      BY DEF Init, Signalled
<1>4. MuxTypes /\ SubTypes /\ EndTypes
      BY DEF Init, MuxTypes, SubTypes, EndTypes
<1>5. MetaTypes
      BY SubMuxAssumption DEF Init, MetaTypes
<1>6. LoopTypes /\ ServerTypes
      BY SubMuxAssumption DEF Init, LoopTypes, ServerTypes, LoopPcs
<1>7. CallTypes
      BY DEF Init, CallTypes, ClientPcs
<1>8. delivered \in [Subs -> Seq(Nat)]
      BY DEF Init
<1> QED BY <1>1, <1>2, <1>3, <1>4, <1>5, <1>6, <1>7, <1>8 DEF IInv, TypeOK

\* The inductive invariant: the types, what the callers' local variables hold,
\* that only created subscriptions are in use, and that every subscription that
\* left Pending has signalled it.
THEOREM Invariance == Spec => []IInv
<1>1. IInv /\ [Next]_vars => IInv'
      BY TypeStep, PlacedStep, AliveStep, SignalStep DEF IInv
<1> QED BY <1>1, InitHolds, PTL DEF Spec

\* Every field keeps its type, every goroutine is at one of the places of the
\* code and no command channel is filled beyond its capacity (pool.go:691),
\* whatever the number of callers, channels and connections.
THEOREM TypeCorrect == Spec => []TypeOK
<1>1. IInv => TypeOK
      BY DEF IInv
<1> QED BY <1>1, Invariance, PTL

\* No caller waits for a signal that was given and lost: setState of any
\* goroutine (event loop, Unsubscribe, Close, another subscriber) leaves the
\* wake-up for whoever blocks on the subscription (subscription.go:165-190).
THEOREM WakeupsAreKept == Spec => []NoLostWakeup
<1>1. IInv => NoLostWakeup
  <2> SUFFICES ASSUME IInv, NEW h \in Handles
               PROVE  /\ pc[h] = "confirm" /\ state[Cur(h)] # "pending"
                           => confirmCh[Cur(h)] # "empty"
                      /\ pc[h] = "waitActive" /\ state[waitOn[h]] # "pending"
                           => doneCh[waitOn[h]] # "open"
      BY DEF NoLostWakeup
  <2>1. pc[h] = "confirm" /\ state[Cur(h)] # "pending" => confirmCh[Cur(h)] # "empty"
        BY DEF IInv, Signalled
  <2>2. ASSUME pc[h] = "waitActive", state[waitOn[h]] # "pending"
        PROVE  doneCh[waitOn[h]] # "open"
    <3>1. waitOn[h] \in Alive
          BY <2>2 DEF IInv, AllAlive, CallAlive
    <3>2. state[waitOn[h]] \in {"active", "failed", "closed"}
          BY <2>2, <3>1 DEF IInv, TypeOK, SubTypes, Alive
    <3> QED BY <3>1, <3>2 DEF IInv, Signalled, Alive
  <2> QED BY <2>1, <2>2
<1> QED BY <1>1, Invariance, PTL
=============================================================================
