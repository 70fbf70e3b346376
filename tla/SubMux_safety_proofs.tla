------------------------ MODULE SubMux_safety_proofs ------------------------
(***************************************************************************)
(* The safety properties of SubMux that concern several goroutines at      *)
(* once, for any callers, channels, connections, bounds and configuration: *)
(* messages are handed over in order, every pending entry has an owner, a  *)
(* failed Subscribe leaves nothing behind, no message is decided on for    *)
(* who has unsubscribed, and a Subscribe that succeeds has its topic at    *)
(* Redis until somebody leaves; and, for an application that makes one     *)
(* call at a time, the topics at Redis are those of the registered         *)
(* subscriptions.                                                          *)
(***************************************************************************)
EXTENDS SubMux_proofs, FiniteSetTheorems

\* A step of the call a handle is in, its start or its deadline.
CallerStep(h) == Subscribe(h) \/ Unsubscribe(h) \/ Expire(h) \/ CallStep(h)

\* The places before the subscription at hand is created.
Early == {"new", "lookup", "create", "list", "track"}

\* A subscription is created by Track and is untouched before it.
NotYet ==
  /\ \A h \in Handles : \A i \in 1..Len(SubsOf[h]) :
       i > idx[h] \/ (i = idx[h] /\ pc[h] \in Early) => SubsOf[h][i] \notin Alive
  /\ \A s \in Subs : s \notin Alive => confirmCh[s] = "empty" /\ delivered[s] = <<>>

\* A subscription lives on one connection, which exists.
Homes ==
  /\ \A c \in Conns : \A s \in subscriptions[c] \cup loopTodo[c] : pubsub[s] = c
  /\ \A c \in Conns :
       loop[c] \in {"confirm", "unpend", "handOver", "signal"} => pubsub[loopSub[c]] = c
  /\ \A c \in Conns : (c \in inPool \/ loop[c] # "off") => connState[c] # "none"
  /\ \A h \in Handles : pc[h] \in {"list", "track"} => connState[CurConn(h)] # "none"
  /\ \A s \in Alive : pubsub[s] \in Conns /\ connState[pubsub[s]] # "none"

\* Messages reach a connection, its event loop and its subscriptions in the
\* order in which they were published.
Rising(q) == \A i, j \in DOMAIN q : i < j => q[i] < q[j]

\* What is in the inbox is newer than what the loop received.
InboxInOrder(c) ==
  /\ loopMsg[c] <= published
  /\ \A i \in DOMAIN inbox[c] : inbox[c][i].kind = "message" =>
       /\ loopMsg[c] < inbox[c][i].id /\ inbox[c][i].id <= published
       /\ \A j \in DOMAIN inbox[c] :
            inbox[c][j].kind = "message" /\ i < j => inbox[c][i].id < inbox[c][j].id

\* The places of a loop that has begun to signal its end, or has ended.
Ending ==
  {"notify", "signal", "drain", "closeLoopDone", "exit", "retire", "remove", "zombies", "ended"}

\* The subscription is in the loop's snapshot or in its hands.
Owed(s) ==
  LET c == pubsub[s]
  IN  s \in loopTodo[c] \/ (loop[c] \in {"handOver", "signal"} /\ loopSub[c] = s)

\* The message at hand, or at least the signal, may still be handed to it.
MessageOwed(s) == loop[pubsub[s]] \in {"dispatch", "handOver"} /\ Owed(s)
SignalOwed(s) ==
  loop[pubsub[s]] \in Ending => loop[pubsub[s]] \in {"notify", "signal"} /\ Owed(s)

\* What a subscription was handed is older than what it may still be handed.
HandedOver(s) ==
  /\ Rising(delivered[s])
  /\ SignalOwed(s) => \A i \in DOMAIN delivered[s] : delivered[s][i] <= loopMsg[pubsub[s]]
  /\ MessageOwed(s) => \A i \in DOMAIN delivered[s] : delivered[s][i] < loopMsg[pubsub[s]]

\* What the loop has in its hands has left the snapshot.
TakenOnce(c) == loop[c] \in {"handOver", "signal"} => loopSub[c] \notin loopTodo[c]

\* The order of messages, on every connection and for every subscription.
InOrder ==
  /\ \A c \in Conns : InboxInOrder(c) /\ TakenOnce(c)
  /\ \A s \in Alive : HandedOver(s)

\* pendingSubscriptions and who is behind its entries.
PendingRegistered ==
  \A c \in Conns, ch \in Channels :
    pending[c][ch] # NoSub => pending[c][ch] \in subscriptions[c] /\ ChannelOf[pending[c][ch]] = ch

\* A subscription is unknown to every connection until its caller registers it.
Unregistered(h) ==
  pc[h] = "register" => \A c \in Conns : /\ Cur(h) \notin subscriptions[c]
                                         /\ loop[c] = "confirm" => loopSub[c] # Cur(h)

\* A pending entry of the caller's own is about to be removed by its event loop.
BeingUnpended(h) ==
  pending[CurConn(h)][CurChannel(h)] = Cur(h)
    => loop[CurConn(h)] = "unpend" /\ loopSub[CurConn(h)] = Cur(h)

\* A caller that was, or will be, told nil has no pending entry that stays.
Confirming(h) ==
  /\ pc[h] = "register" => confirmCh[Cur(h)] # "nil"
  /\ pc[h] \in {"send", "confirm"} /\ confirmCh[Cur(h)] = "nil" => BeingUnpended(h)
  /\ pc[h] = "checkState" => BeingUnpended(h)

\* meta.subscriptions, pendingSubscriptions and confirmCh fit together.
Registry ==
  /\ PendingRegistered /\ \A h \in Handles : Unregistered(h)
  /\ ~closed => \A h \in Handles : Confirming(h)

\* The subscription a loop is about to confirm is not one a caller already has.
NotReturned(c) ==
  loop[c] = "confirm" => \A h \in Handles :
    /\ loopSub[c] \notin Appended(h)
    /\ pc[h] \in CreatedPcs /\ Cur(h) = loopSub[c] =>
         /\ pc[h] \notin {"register", "waitActive", "checkPending", "activate", "checkState"}
         /\ pc[h] \in {"send", "confirm"} => confirmCh[Cur(h)] # "nil"

\* How far Unsubscribe, or the rollback of Subscribe, has come.
Phases(h) ==
  /\ pc[h] = "abort" => idx[h] <= Len(SubsOf[h])
  /\ pc[h] \in {"gone", "subscribed"} => idx[h] > Len(SubsOf[h])
  /\ pc[h] \notin {"uCount", "uUntrack", "uPhase1", "uSend", "uClean"} => chTodo[h] = {}
  /\ pc[h] \notin {"uPhase1", "uSend", "uClean", "uWait", "uRemove"} => awaiting[h] = {}

\* The places after the handle has left the global map.
AfterUntrack == {"uPhase1", "uSend", "uClean", "uWait", "uRemove", "gone", "failed"}

\* The subscription that failed is out of the global map, then off its connection.
GivenUp(h) ==
  idx[h] <= Len(SubsOf[h]) =>
    /\ pc[h] \in {"unregister", "abort", "failed"} \cup UnsubPcs => Cur(h) \notin global
    /\ pc[h] \in {"abort", "failed"} \cup UnsubPcs => \A c \in Conns : Cur(h) \notin subscriptions[c]

\* Only an event loop that has ended takes its connection out of the pool.
LeftPool ==
  \A c \in Conns :
    connState[c] # "none" /\ c \notin inPool => loop[c] \in {"zombies", "ended"}

\* No message will be decided on for the subscription any more.
Silenced(s) == state[s] \in {"closed", "failed"} \/ loop[pubsub[s]] \in {"zombies", "ended"}

\* Unsubscribe has silenced every subscription whose channel is not left to do.
Quieted(h) ==
  pc[h] \in {"uUntrack"} \cup (AfterUntrack \ {"failed"}) =>
    \A s \in Appended(h) : ChannelOf[s] \in chTodo[h] \/ Silenced(s)

\* And has removed it, unless its channel is at hand or awaits its response.
Removed(h) ==
  pc[h] \in {"uUntrack"} \cup AfterUntrack =>
    \A s \in Appended(h) :
      \/ ChannelOf[s] \in chTodo[h] \cup awaiting[h]
      \/ pc[h] \in {"uSend", "uClean", "uRemove"} /\ curCh[h] = ChannelOf[s]
      \/ pubsub[s] \notin inPool
      \/ s \notin subscriptions[pubsub[s]]

\* A caller that leaves takes its subscriptions with it.
Leaving ==
  /\ \A h \in Handles : Phases(h) /\ GivenUp(h)
  /\ ~closed => /\ LeftPool
                /\ \A c \in Conns : NotReturned(c)
                /\ \A h \in Handles :
                    /\ pc[h] \in AfterUntrack => Appended(h) \cap global = {}
                    /\ DistinctChannels(h) => Quieted(h) /\ Removed(h)

\* Only Close sets closed, and first.
CloseFlag == closePc # "open" => closed

SafeInv == CloseFlag /\ NotYet /\ Homes /\ InOrder /\ Registry /\ PendingHasOwner /\ Leaving

-----------------------------------------------------------------------------
(* What each kind of step leaves alone *)

USE DEF muxVars, subVars, metaVars, loopVars, srvVars, callVars, endVars, callRest, envVars,
        metaEnd, loopFrame, closeFrame

\* A caller's step leaves the event loops' data, Redis and the other callers alone.
LEMMA CallerOthers ==
  ASSUME TypeOK, NEW h \in Handles, CallerStep(h)
  PROVE  /\ UNCHANGED <<closed, loopSub, loopTodo, loopMsg, srvVars, endVars, delivered>>
         /\ \A g \in Handles \ {h} :
              /\ pc'[g] = pc[g] /\ idx'[g] = idx[g] /\ waitOn'[g] = waitOn[g] /\ ctx'[g] = ctx[g]
              /\ chTodo'[g] = chTodo[g] /\ awaiting'[g] = awaiting[g] /\ curCh'[g] = curCh[g]
<1> USE DEF Go, Goto
<1>0. CallTypes
      BY DEF TypeOK
<1>1. CASE Subscribe(h) \/ Unsubscribe(h) \/ Expire(h) \/ Lookup(h) \/ Create(h) \/ List(h)
             \/ CreateFails(h)
             \/ MetadataGone(h) \/ Track(h) \/ Register(h)
      BY <1>0, <1>1 DEF CallTypes, Subscribe, Unsubscribe, Expire, Lookup, Create, List,
         CreateFails, MetadataGone, Track, Register
<1>2. CASE SendQueues(h) \/ SendFails(h) \/ Confirm(h) \/ WaitActive(h) \/ WaitExpires(h)
             \/ CheckPending(h) \/ CheckState(h) \/ Activate(h) \/ SendCleanup(h) \/ Untrack(h)
             \/ Unregister(h) \/ Abort(h)
      BY <1>0, <1>2 DEF CallTypes, SendQueues, SendFails, Confirm, WaitActive, WaitExpires,
         CheckPending, CheckState, Activate, SendCleanup, Untrack, Unregister, Abort, Advance
<1>3. CASE UnsubCheck(h) \/ UnsubCount(h) \/ UnsubUntrack(h) \/ UnsubPhase1(h) \/ UnsubQueues(h)
             \/ UnsubSendFails(h) \/ UnsubClean(h) \/ UnsubWait(h) \/ UnsubRemove(h)
      BY <1>0, <1>3 DEF CallTypes, UnsubCheck, UnsubCount, UnsubUntrack, UnsubPhase1, UnsubQueues,
         UnsubSendFails, UnsubClean, UnsubWait, UnsubRemove
<1> QED BY <1>1, <1>2, <1>3 DEF CallerStep, CallStep

\* A step of connection c's loop, or the loss of its connection.
LEMMA LoopOthers ==
  ASSUME TypeOK, NEW c \in Conns, LoopStep(c) \/ Break(c)
  PROVE  /\ UNCHANGED <<closed, callVars, pubsub, subscriptions, endVars>>
         /\ global' \subseteq global /\ inPool' \subseteq inPool
         /\ \A d \in Conns \ {c} : /\ loop'[d] = loop[d] /\ loopSub'[d] = loopSub[d]
                                   /\ loopTodo'[d] = loopTodo[d] /\ loopMsg'[d] = loopMsg[d]
                                   /\ connState'[d] = connState[d] /\ inbox'[d] = inbox[d]
         /\ loop[c] # "off" \/ Break(c)
         /\ loop'[c] # "off" \/ Break(c)
<1> USE DEF LoopTo
<1>0. LoopTypes /\ ServerTypes /\ MetaTypes
      BY DEF TypeOK
<1>1. CASE LoopSends(c) \/ LoopSendFails(c) \/ LoopFailsSub(c) \/ LoopLosesChannel(c)
             \/ LoopMarksFailed(c) \/ LoopSnapshots(c) \/ LoopNotifies(c) \/ LoopSignals(c)
      BY <1>0, <1>1 DEF LoopTypes, ServerTypes, MetaTypes, LoopSends, LoopSendFails, LoopFailsSub,
         LoopLosesChannel, LoopMarksFailed, LoopSnapshots, LoopNotifies, LoopSignals, SetState
<1>2. CASE LoopReceivesConfirmation(c) \/ LoopConfirms(c) \/ LoopUnpends(c)
             \/ LoopReceivesMessage(c) \/ LoopDispatches(c) \/ LoopHandsOver(c) \/ LoopStops(c)
      BY <1>0, <1>2 DEF LoopTypes, ServerTypes, MetaTypes, LoopReceivesConfirmation, LoopConfirms,
         LoopUnpends, LoopReceivesMessage, LoopDispatches, LoopHandsOver, LoopStops, SetState
<1>3. CASE LoopDrains(c) \/ LoopClosesLoopDone(c) \/ LoopExits(c) \/ LoopRetires(c)
             \/ LoopRemovesConn(c) \/ LoopCleansZombies(c)
      BY <1>0, <1>3 DEF LoopTypes, ServerTypes, MetaTypes, LoopDrains, LoopClosesLoopDone,
         LoopExits, LoopRetires, LoopRemovesConn, LoopCleansZombies, CloseMeta
<1>4. CASE Break(c)
      BY <1>0, <1>4 DEF ServerTypes, Break
<1> QED BY <1>1, <1>2, <1>3, <1>4 DEF LoopStep

\* Close.
LEMMA CloseOthers ==
  ASSUME CloseBegins \/ CloseStep
  PROVE  /\ UNCHANGED <<loopVars, srvVars, callVars, delivered, pubsub, subscriptions, pending, cmdCh>>
         /\ global' \subseteq global /\ inPool' \subseteq inPool
BY DEF CloseBegins, CloseStep, CloseMarks, CloseTakesPool, CloseConnection, CloseJoins,
   CloseClears, SetState

\* A publication only touches the inboxes.
LEMMA PublishOthers ==
  ASSUME NEW type \in Types, NEW ch \in Channels, Publish(type, ch)
  PROVE  UNCHANGED <<muxVars, subVars, metaVars, loopVars, topics, wire, callVars, endVars, delivered>>
BY DEF Publish

\* A connection that exists never ceases to.
LEMMA BornStays ==
  ASSUME TypeOK, [Next]_vars, NEW d \in Conns, connState[d] # "none"
  PROVE  connState'[d] # "none"
<1>0. MetaTypes
      BY DEF TypeOK
<1>1. ASSUME NEW h \in Handles, CallerStep(h) PROVE connState'[d] # "none"
  <2>1. UNCHANGED connState \/ Create(h)
        BY <1>1 DEF CallerStep, CallStep, Goto, Subscribe, Unsubscribe, Expire, Lookup, List,
           CreateFails, MetadataGone, Track, Register, SendQueues, SendFails, Confirm, WaitActive,
           WaitExpires, CheckPending, CheckState, Activate, SendCleanup, Untrack, Unregister,
           Abort, UnsubCheck, UnsubCount, UnsubUntrack, UnsubPhase1, UnsubQueues, UnsubSendFails,
           UnsubClean, UnsubWait, UnsubRemove
  <2> QED BY <1>0, <2>1 DEF Create, MetaTypes
<1>2. ASSUME NEW c \in Conns, LoopStep(c) \/ Break(c) PROVE connState'[d] # "none"
      BY <1>0, <1>2 DEF MetaTypes, LoopStep, LoopSends, LoopSendFails, LoopFailsSub,
         LoopLosesChannel, LoopMarksFailed, LoopSnapshots, LoopNotifies, LoopSignals,
         LoopReceivesConfirmation, LoopConfirms, LoopUnpends, LoopReceivesMessage, LoopDispatches,
         LoopHandsOver, LoopStops, LoopDrains, LoopClosesLoopDone, LoopExits, LoopRetires,
         LoopRemovesConn, LoopCleansZombies, CloseMeta, Break
<1>3. ASSUME CloseBegins \/ CloseStep PROVE connState'[d] # "none"
      BY <1>0, <1>3 DEF MetaTypes, CloseBegins, CloseStep, CloseMarks, CloseTakesPool,
         CloseConnection, CloseMeta, CloseJoins, CloseClears
<1>4. ASSUME NEW type \in Types, NEW ch \in Channels, Publish(type, ch)
      PROVE  connState'[d] # "none"
      BY <1>4 DEF Publish
<1>5. CASE UNCHANGED vars
      BY <1>5 DEF vars
<1> QED BY <1>1, <1>2, <1>3, <1>4, <1>5 DEF Next, CallerStep

\* Two places of the callers' lists hold two subscriptions.
LEMMA PlacesDistinct ==
  ASSUME NEW g \in Handles, NEW h \in Handles, NEW i \in 1..Len(SubsOf[g]),
         NEW j \in 1..Len(SubsOf[h]), g # h \/ i # j
  PROVE  SubsOf[g][i] # SubsOf[h][j]
BY SubMuxAssumption

\* The subscription at hand is nobody's finished one.
LEMMA CurNotAppended ==
  ASSUME TypeOK, Placed, NEW g \in Handles, NEW h \in Handles, idx[g] <= Len(SubsOf[g])
  PROVE  Cur(g) \notin Appended(h) /\ Cur(g) \in Subs
<1>1. idx[g] \in 1..Len(SubsOf[g])
      BY SubMuxAssumption DEF TypeOK, CallTypes
<1>2. \A i \in 1..(idx[h] - 1) : i \in 1..Len(SubsOf[h]) /\ (g = h => i # idx[g])
      BY SubMuxAssumption DEF TypeOK, CallTypes, Placed, PlacedAt
<1>3. \A i \in 1..(idx[h] - 1) : SubsOf[h][i] # Cur(g)
      BY <1>1, <1>2, PlacesDistinct DEF Cur
<1> QED BY <1>1, <1>3, SubMuxAssumption DEF Appended, Cur

-----------------------------------------------------------------------------
(* Creation *)

\* How a caller comes to a place before the creation of its subscription.
LEMMA CallerEarly ==
  ASSUME TypeOK, NEW h \in Handles, CallerStep(h)
  PROVE  /\ idx'[h] \in {idx[h], idx[h] + 1}
         /\ pc'[h] \in Early => (pc[h] \in Early /\ idx'[h] = idx[h]) \/ idx'[h] = idx[h] + 1
         /\ idx'[h] = idx[h] + 1 => pc[h] \in {"checkState", "activate"}
<1> USE DEF Go, Goto, Early
<1>0. CallTypes
      BY DEF TypeOK
<1>1. CASE Subscribe(h) \/ Unsubscribe(h) \/ Expire(h) \/ Lookup(h) \/ Create(h) \/ List(h)
             \/ CreateFails(h)
             \/ MetadataGone(h) \/ Track(h) \/ Register(h)
      BY <1>0, <1>1 DEF CallTypes, Subscribe, Unsubscribe, Expire, Lookup, Create, List,
         CreateFails, MetadataGone, Track, Register, RegisterDecision
<1>2. CASE SendQueues(h) \/ SendFails(h) \/ Confirm(h) \/ WaitActive(h) \/ WaitExpires(h)
             \/ CheckPending(h) \/ CheckState(h) \/ Activate(h) \/ SendCleanup(h) \/ Untrack(h)
             \/ Unregister(h) \/ Abort(h)
      BY <1>0, <1>2 DEF CallTypes, SendQueues, SendFails, Confirm, WaitActive, WaitExpires,
         CheckPending, CheckState, Activate, SendCleanup, Untrack, Unregister, Abort, Advance
<1>3. CASE UnsubCheck(h) \/ UnsubCount(h) \/ UnsubUntrack(h) \/ UnsubPhase1(h) \/ UnsubQueues(h)
             \/ UnsubSendFails(h) \/ UnsubClean(h) \/ UnsubWait(h) \/ UnsubRemove(h)
      BY <1>0, <1>3 DEF CallTypes, UnsubCheck, UnsubCount, UnsubUntrack, UnsubPhase1, UnsubQueues,
         UnsubSendFails, UnsubClean, UnsubWait, UnsubRemove, Ended
<1> QED BY <1>1, <1>2, <1>3 DEF CallerStep, CallStep

\* What no step but a caller's does: every other one moves states by setState.
LEMMA OthersMove ==
  ASSUME TypeOK, Placed, AllAlive, [Next]_vars, \A h \in Handles : ~CallerStep(h)
  PROVE  StatesMove /\ UNCHANGED <<callVars, pubsub>>
<1>1. CASE UNCHANGED vars
      BY <1>1 DEF vars, StatesMove
<1>2. CASE \E c \in Conns : LoopStep(c) \/ Break(c)
      BY <1>2, LoopKeepsAlive, OthersFrame
<1>3. CASE CloseBegins \/ CloseStep \/ \E type \in Types, ch \in Channels : Publish(type, ch)
      BY <1>3, CloseKeepsAlive, OthersFrame
<1> QED BY <1>1, <1>2, <1>3 DEF Next, CallerStep

\* Subscriptions are created by Track and never cease to exist.
LEMMA WhoIsCreated ==
  ASSUME TypeOK, Placed, AllAlive, [Next]_vars
  PROVE  /\ Alive \subseteq Alive'
         /\ \A s \in Alive' : s \in Alive \/ \E h \in Handles : Track(h) /\ s = Cur(h)
<1>1. ASSUME NEW h \in Handles, CallerStep(h)
      PROVE  Alive \subseteq Alive' /\ \A s \in Alive' : s \in Alive \/ (Track(h) /\ s = Cur(h))
  <2>1. StatesMove \/ Track(h) \/ Confirm(h)
        BY <1>1, CallerStates DEF CallerStep
  <2>2. Alive \subseteq Alive'
        BY <2>1, CallerAliveGrows
  <2>3. CASE StatesMove
        BY <2>2, <2>3, MoveKeepsNone DEF Alive
  <2>4. CASE Track(h) \/ Confirm(h)
        BY <2>2, <2>4 DEF Track, Confirm, Alive, TypeOK, SubTypes
  <2> QED BY <2>1, <2>3, <2>4
<1>2. CASE StatesMove
      BY <1>2, AliveGrows, MoveKeepsNone DEF Alive
<1> QED BY <1>1, <1>2, OthersMove

\* The connection of a subscription that exists does not change.
LEMMA HomeStays ==
  ASSUME TypeOK, Placed, AllAlive, NotYet, [Next]_vars, NEW s \in Alive
  PROVE  pubsub'[s] = pubsub[s]
<1>1. ASSUME NEW h \in Handles, CallerStep(h) PROVE pubsub'[s] = pubsub[s]
  <2>1. UNCHANGED pubsub \/ Lookup(h) \/ Create(h)
        BY <1>1 DEF CallerStep, CallStep, Goto, Subscribe, Unsubscribe, Expire, List, CreateFails,
           MetadataGone, Track, Register, SendQueues, SendFails, Confirm, WaitActive, WaitExpires,
           CheckPending, CheckState, Activate, SetState, SendCleanup, Untrack, Unregister, Abort,
           UnsubCheck, UnsubCount, UnsubUntrack, UnsubPhase1, SetClosed, UnsubQueues,
           UnsubSendFails, UnsubClean, UnsubWait, UnsubRemove
  <2>2. CASE Lookup(h) \/ Create(h)
    <3>1. pc[h] \in Early
          BY <2>2 DEF Lookup, Create, Early
    <3>2. idx[h] \in 1..Len(SubsOf[h])
          BY <3>1 DEF TypeOK, CallTypes, Placed, PlacedAt, Early
    <3>3. Cur(h) \notin Alive
          BY <3>1, <3>2 DEF NotYet, Cur
    <3>4. UNCHANGED pubsub \/ \E c : pubsub' = [pubsub EXCEPT ![Cur(h)] = c]
          BY <2>2 DEF Lookup, Create
    <3> QED BY <3>3, <3>4 DEF TypeOK, SubTypes, Alive
  <2> QED BY <2>1, <2>2
<1> QED BY <1>1, OthersMove

\* Nothing touches a subscription before Track creates it.
LEMMA NotYetStep ==
  ASSUME TypeOK, Placed, AllAlive, NotYet, [Next]_vars PROVE NotYet'
<1>1. ASSUME NEW h \in Handles, NEW i \in 1..Len(SubsOf[h]),
             i > idx'[h] \/ (i = idx'[h] /\ pc'[h] \in Early)
      PROVE  SubsOf[h][i] \notin Alive'
  <2>0. idx[h] \in Nat /\ idx'[h] \in Nat
    <3>1. CallTypes'
          BY TypeStep DEF TypeOK
    <3> QED BY <3>1 DEF TypeOK, CallTypes
  <2>1. i > idx[h] \/ (i = idx[h] /\ pc[h] \in Early)
    <3>1. CASE CallerStep(h)
      <4>1. /\ idx'[h] \in {idx[h], idx[h] + 1}
            /\ pc'[h] \in Early => (pc[h] \in Early /\ idx'[h] = idx[h]) \/ idx'[h] = idx[h] + 1
            BY <3>1, CallerEarly
      <4> QED BY <1>1, <2>0, <4>1
    <3>2. CASE ~CallerStep(h)
      <4>1. pc'[h] = pc[h] /\ idx'[h] = idx[h]
            BY <3>2, CallerOthers, OthersMove
      <4> QED BY <1>1, <4>1
    <3> QED BY <3>1, <3>2
  <2>2. SubsOf[h][i] \notin Alive
        BY <2>1 DEF NotYet
  <2>3. ASSUME NEW g \in Handles, Track(g) PROVE SubsOf[h][i] # Cur(g)
    <3>1. pc[g] = "track" /\ pc'[g] = "register" /\ idx'[g] = idx[g]
          BY <2>3 DEF Track, Go, TypeOK, CallTypes
    <3>2. idx[g] \in 1..Len(SubsOf[g])
          BY <3>1 DEF TypeOK, CallTypes, Placed, PlacedAt
    <3>3. g # h \/ i # idx[g]
          BY <1>1, <2>0, <3>1 DEF Early
    <3> QED BY <3>2, <3>3, PlacesDistinct DEF Cur
  <2> QED BY <2>2, <2>3, WhoIsCreated
<1>2. ASSUME NEW s \in Subs, s \notin Alive' PROVE confirmCh'[s] = "empty" /\ delivered'[s] = <<>>
  <2>1. s \notin Alive /\ confirmCh[s] = "empty" /\ delivered[s] = <<>>
        BY <1>2, WhoIsCreated DEF NotYet
  <2>2. confirmCh'[s] = confirmCh[s]
    <3>1. CASE StatesMove
          BY <2>1, <3>1 DEF StatesMove, SetState, SetClosed, Confirmed, TypeOK, SubTypes
    <3>2. ASSUME NEW h \in Handles, Track(h) \/ Confirm(h) PROVE confirmCh'[s] = confirmCh[s]
          BY <2>1, <3>2 DEF Track, Confirm, TypeOK, SubTypes
    <3> QED BY <3>1, <3>2, OthersMove, CallerStates DEF CallerStep
  <2>3. delivered'[s] = delivered[s]
    <3>1. ASSUME NEW c \in Conns, LoopStep(c) \/ Break(c) PROVE delivered'[s] = delivered[s]
      <4>1. UNCHANGED delivered \/ LoopHandsOver(c) \/ LoopSignals(c)
            BY <3>1 DEF LoopStep, LoopSends, LoopSendFails, LoopFailsSub, LoopLosesChannel,
               LoopMarksFailed, LoopSnapshots, LoopNotifies, LoopReceivesConfirmation,
               LoopConfirms, LoopUnpends, LoopReceivesMessage, LoopDispatches, LoopStops,
               LoopDrains, LoopClosesLoopDone, LoopExits, LoopRetires, LoopRemovesConn,
               LoopCleansZombies, Break
      <4>2. LoopHandsOver(c) \/ LoopSignals(c) => s # loopSub[c]
            BY <2>1 DEF AllAlive, ConnAlive, LoopHandsOver, LoopSignals
      <4> QED BY <4>1, <4>2 DEF LoopHandsOver, LoopSignals, TypeOK
    <3>2. CASE UNCHANGED delivered
          BY <3>2
    <3> QED BY <3>1, <3>2, CallerOthers, CloseOthers, PublishOthers DEF Next, CallerStep, vars
  <2> QED BY <2>1, <2>2, <2>3
<1> QED BY <1>1, <1>2 DEF NotYet

-----------------------------------------------------------------------------
(* The registered subscriptions and the pending entries *)

\* What callers do to a connection's subscriptions and pending entries.
LEMMA CallerMeta ==
  ASSUME NEW h \in Handles, CallerStep(h)
  PROVE  \/ UNCHANGED <<subscriptions, pending>>
         \/ Register(h)
         \/ SendCleanup(h)
         \/ Unregister(h) /\ RemoveFromMeta(CurConn(h), {Cur(h)})
         \/ (UnsubClean(h) \/ UnsubRemove(h)) /\ RemoveFromMeta(UnsubConn(h), UnsubSubs(h))
BY DEF CallerStep, CallStep, Goto, Subscribe, Unsubscribe, Expire, Lookup, Create, List,
   CreateFails, MetadataGone, Track, SendQueues, SendFails, Confirm, WaitActive, WaitExpires,
   CheckPending, CheckState, Activate, Untrack, Unregister, Abort, UnsubCheck, UnsubCount,
   UnsubUntrack, UnsubPhase1, UnsubQueues, UnsubSendFails, UnsubClean, UnsubWait, UnsubRemove

\* addSubscriptionAndCheckFirst adds one entry, and a pending entry only to send.
LEMMA RegisterEffect ==
  ASSUME TypeOK, Placed, NEW h \in Handles, Register(h)
  PROVE  /\ pc[h] = "register" /\ Cur(h) \in Subs /\ CurConn(h) \in Conns /\ CurChannel(h) \in Channels
         /\ pc'[h] = RegisterDecision(CurConn(h), CurChannel(h)) /\ UNCHANGED <<idx, pubsub>>
         /\ \A d \in Conns : subscriptions'[d] =
              IF d = CurConn(h) THEN subscriptions[d] \cup {Cur(h)} ELSE subscriptions[d]
         /\ \A d \in Conns, ch \in Channels :
              \/ pending'[d][ch] = pending[d][ch]
              \/ /\ d = CurConn(h) /\ ch = CurChannel(h) /\ pc'[h] = "send"
                 /\ pending'[d][ch] = Cur(h) /\ pending[d][ch] = NoSub
         /\ pc'[h] = "send" => pending'[CurConn(h)][CurChannel(h)] = Cur(h)
<1>1. pc[h] = "register" /\ Cur(h) \in Subs /\ CurConn(h) \in Conns /\ CurChannel(h) \in Channels
      BY CurTypes DEF Register, Placed, PlacedAt, CreatedPcs
<1>2. pc'[h] = RegisterDecision(CurConn(h), CurChannel(h)) /\ UNCHANGED <<idx, pubsub>>
      BY DEF Register, Go, TypeOK, CallTypes
<1>3. \A d \in Conns : subscriptions'[d] =
        IF d = CurConn(h) THEN subscriptions[d] \cup {Cur(h)} ELSE subscriptions[d]
      BY DEF Register, TypeOK, MetaTypes
<1>4. RegisterDecision(CurConn(h), CurChannel(h)) = "send" => pending[CurConn(h)][CurChannel(h)] = NoSub
      BY DEF RegisterDecision
<1>5. pending' = IF RegisterDecision(CurConn(h), CurChannel(h)) = "send"
                   THEN [pending EXCEPT ![CurConn(h)][CurChannel(h)] = Cur(h)] ELSE pending
      BY DEF Register
<1>6. pending \in [Conns -> [Channels -> Subs \cup {NoSub}]]
      BY DEF TypeOK, MetaTypes
<1> QED BY <1>1, <1>2, <1>3, <1>4, <1>5, <1>6

\* removePendingSubscription drops one channel's entry.
LEMMA DropEffect ==
  ASSUME TypeOK, NEW c \in Conns, NEW ch \in Channels, DropPending(c, ch), NEW d \in Conns,
         NEW x \in Channels
  PROVE  pending'[d][x] = IF d = c /\ x = ch THEN NoSub ELSE pending[d][x]
BY DEF DropPending, TypeOK, MetaTypes

\* The cleanup after a failed sendCommand.
LEMMA CleanupEffect ==
  ASSUME TypeOK, Placed, NEW h \in Handles, SendCleanup(h)
  PROVE  /\ CurConn(h) \in Conns /\ CurChannel(h) \in Channels /\ UNCHANGED subscriptions
         /\ DropPending(CurConn(h), CurChannel(h)) /\ pc'[h] = "untrack" /\ pc[h] = "dropPending"
         /\ UNCHANGED <<idx, pubsub>>
BY CurTypes DEF SendCleanup, Go, TypeOK, CallTypes, Placed, PlacedAt, CreatedPcs

\* The removal of the subscription of a failed subscribeToChannel.
LEMMA UnregisterEffect ==
  ASSUME TypeOK, Placed, NEW h \in Handles, Unregister(h)
  PROVE  /\ CurConn(h) \in Conns /\ CurChannel(h) \in Channels /\ Cur(h) \in Subs
         /\ pc'[h] = "abort" /\ pc[h] = "unregister" /\ UNCHANGED <<idx, pubsub, global, inPool>>
BY CurTypes DEF Unregister, Go, TypeOK, CallTypes, Placed, PlacedAt, CreatedPcs

\* Unsubscribe works on a connection and on the handle's own subscriptions.
LEMMA UnsubConnTypes ==
  ASSUME TypeOK, Placed, AllAlive, Homes, NEW h \in Handles,
         pc[h] \in {"uSend", "uClean", "uRemove"}
  PROVE  /\ UnsubConn(h) \in Conns /\ UnsubSubs(h) \subseteq Appended(h)
         /\ FirstSub(h, curCh[h]) \in Appended(h)
<1>1. FirstSub(h, curCh[h]) \in Appended(h)
      BY FirstSubExists DEF Placed, PlacedAt
<1> QED BY <1>1 DEF UnsubConn, UnsubSubs, OnChannel, AllAlive, CallAlive, Homes

\* A caller's step adds at most the subscription it registers.
LEMMA CallerRegisters ==
  ASSUME TypeOK, Placed, AllAlive, Homes, NEW h \in Handles, CallerStep(h), NEW d \in Conns,
         NEW s \in subscriptions'[d]
  PROVE  s \in subscriptions[d] \/ (Register(h) /\ d = CurConn(h) /\ s = Cur(h))
<1>1. CASE Register(h)
  <2>1. subscriptions'[d] =
          IF d = CurConn(h) THEN subscriptions[d] \cup {Cur(h)} ELSE subscriptions[d]
        BY <1>1, RegisterEffect
  <2> QED BY <1>1, <2>1
<1>2. CASE Unregister(h) /\ RemoveFromMeta(CurConn(h), {Cur(h)})
  <2>1. CurConn(h) \in Conns
        BY <1>2, UnregisterEffect
  <2> QED BY <1>2, <2>1 DEF RemoveFromMeta, TypeOK, MetaTypes
<1>3. CASE (UnsubClean(h) \/ UnsubRemove(h)) /\ RemoveFromMeta(UnsubConn(h), UnsubSubs(h))
  <2>1. UnsubConn(h) \in Conns
        BY <1>3, UnsubConnTypes DEF UnsubClean, UnsubRemove
  <2> QED BY <1>3, <2>1 DEF RemoveFromMeta, TypeOK, MetaTypes
<1>4. CASE SendCleanup(h)
      BY <1>4 DEF SendCleanup
<1> QED BY <1>1, <1>2, <1>3, <1>4, CallerMeta

\* What the loop holds comes from the connection's registry.
LEMMA LoopTakes ==
  ASSUME TypeOK, NEW c \in Conns, LoopStep(c) \/ Break(c)
  PROVE  /\ \/ loopTodo'[c] \subseteq loopTodo[c]
            \/ loop[c] \in {"select", "snapshot"} /\ loopTodo'[c] \subseteq subscriptions[c]
         /\ loop'[c] \in {"handOver", "signal"} =>
              \/ loop'[c] = loop[c] /\ loopSub'[c] = loopSub[c]
              \/ loop[c] = "notify" /\ loopSub'[c] \in loopTodo[c]
              \/ /\ loop[c] = "dispatch" /\ loopSub'[c] \in loopTodo[c]
                 /\ state[loopSub'[c]] \notin {"closed", "failed"}
         /\ loop'[c] = "confirm" =>
              \/ loop[c] = "confirm" /\ loopSub'[c] = loopSub[c]
              \/ /\ loop[c] = "select" /\ loopSub'[c] # NoSub
                 /\ \E ch \in Channels : loopSub'[c] = pending[c][ch]
         /\ loop'[c] = "unpend" => loop[c] \in {"confirm", "unpend"} /\ loopSub'[c] = loopSub[c]
<1> USE DEF LoopTo
<1>0. LoopTypes /\ ServerTypes
      BY DEF TypeOK
<1>1. CASE LoopReceivesConfirmation(c)
  <2>1. Head(inbox[c]).channel \in Channels
    <3>1. Head(inbox[c]) \in Incoming
          BY <1>0, <1>1 DEF LoopReceivesConfirmation, ServerTypes
    <3> QED BY <3>1 DEF Incoming
  <2> QED BY <1>0, <1>1, <2>1 DEF LoopReceivesConfirmation, LoopTypes
<1>2. CASE LoopConfirms(c) \/ LoopUnpends(c) \/ LoopReceivesMessage(c) \/ LoopDispatches(c)
             \/ LoopHandsOver(c)
             \/ LoopStops(c) \/ LoopSnapshots(c) \/ LoopNotifies(c) \/ LoopSignals(c)
      BY <1>0, <1>2 DEF LoopTypes, LoopConfirms, LoopUnpends, LoopReceivesMessage, LoopDispatches,
         LoopHandsOver, LoopStops, LoopSnapshots, LoopNotifies, LoopSignals, OnChannel
<1>3. CASE LoopSends(c) \/ LoopSendFails(c) \/ LoopFailsSub(c) \/ LoopLosesChannel(c)
             \/ LoopMarksFailed(c) \/ LoopDrains(c) \/ LoopClosesLoopDone(c) \/ LoopExits(c)
             \/ LoopRetires(c) \/ LoopRemovesConn(c) \/ LoopCleansZombies(c) \/ Break(c)
      BY <1>0, <1>3 DEF LoopTypes, LoopSends, LoopSendFails, LoopFailsSub, LoopLosesChannel,
         LoopMarksFailed, LoopDrains, LoopClosesLoopDone, LoopExits, LoopRetires, LoopRemovesConn,
         LoopCleansZombies, Break
<1> QED BY <1>1, <1>2, <1>3 DEF LoopStep

\* A loop clears a pending entry when its SUBSCRIBE could not be sent and after
\* its confirmation.
LEMMA LoopPending ==
  ASSUME TypeOK, AllAlive, NEW c \in Conns, LoopStep(c) \/ Break(c)
  PROVE  \/ UNCHANGED pending
         \/ \E ch \in Channels : DropPending(c, ch) /\ loop[c] = "select"
         \/ LoopUnpends(c) /\ ChannelOf[loopSub[c]] \in Channels
<1>1. CASE LoopSendFails(c)
  <2>1. cmdCh[c] \in Seq(Commands) /\ cmdCh[c] # <<>> /\ loop[c] = "select"
        BY <1>1 DEF LoopSendFails, TypeOK, MetaTypes
  <2>2. Head(cmdCh[c]).sub \in Subs
    <3>1. Head(cmdCh[c]) \in Commands
          BY <2>1
    <3> QED BY <3>1 DEF Commands
  <2> QED BY <1>1, <2>1, <2>2, SubMuxAssumption DEF LoopSendFails
<1>2. CASE LoopUnpends(c)
      BY <1>2, SubMuxAssumption DEF LoopUnpends, AllAlive, ConnAlive, Alive
<1>3. CASE ~LoopSendFails(c) /\ ~LoopUnpends(c)
      BY <1>3 DEF LoopStep, LoopSends, LoopFailsSub, LoopLosesChannel, LoopMarksFailed,
         LoopSnapshots, LoopNotifies, LoopSignals, LoopReceivesConfirmation, LoopConfirms,
         LoopReceivesMessage, LoopDispatches, LoopHandsOver, LoopStops, LoopDrains,
         LoopClosesLoopDone, LoopExits, LoopRetires, LoopRemovesConn, LoopCleansZombies, Break
<1> QED BY <1>1, <1>2, <1>3

\* A pending entry is always one of the connection's subscriptions.
LEMMA PendingRegisteredStep ==
  ASSUME TypeOK, Placed, AllAlive, NotYet, Homes, PendingRegistered, [Next]_vars
  PROVE  PendingRegistered'
<1> SUFFICES ASSUME NEW c \in Conns, NEW ch \in Channels, pending'[c][ch] # NoSub
             PROVE  pending'[c][ch] \in subscriptions'[c] /\ ChannelOf[pending'[c][ch]] = ch
    BY DEF PendingRegistered
<1>1. ASSUME pending'[c][ch] = pending[c][ch], subscriptions[c] \subseteq subscriptions'[c]
      PROVE  pending'[c][ch] \in subscriptions'[c] /\ ChannelOf[pending'[c][ch]] = ch
      BY <1>1 DEF PendingRegistered
<1>2. ASSUME NEW h \in Handles, CallerStep(h)
      PROVE  pending'[c][ch] \in subscriptions'[c] /\ ChannelOf[pending'[c][ch]] = ch
  <2>1. CASE Register(h)
    <3>1. subscriptions'[c] =
            IF c = CurConn(h) THEN subscriptions[c] \cup {Cur(h)} ELSE subscriptions[c]
          BY <2>1, RegisterEffect
    <3>2. \/ pending'[c][ch] = pending[c][ch]
          \/ pending'[c][ch] = Cur(h) /\ ch = CurChannel(h) /\ c = CurConn(h)
          BY <2>1, RegisterEffect
    <3> QED BY <1>1, <3>1, <3>2 DEF CurChannel
  <2>2. ASSUME NEW d \in Conns, NEW S, RemoveFromMeta(d, S)
        PROVE  pending'[c][ch] \in subscriptions'[c] /\ ChannelOf[pending'[c][ch]] = ch
    <3>1. subscriptions'[c] = IF c = d THEN subscriptions[c] \ S ELSE subscriptions[c]
          BY <2>2 DEF RemoveFromMeta, TypeOK, MetaTypes
    <3>2. pending'[c][ch] = IF c = d /\ pending[c][ch] \in S THEN NoSub ELSE pending[c][ch]
          BY <2>2 DEF RemoveFromMeta, TypeOK, MetaTypes
    <3> QED BY <3>1, <3>2 DEF PendingRegistered
  <2>3. CASE SendCleanup(h)
    <3>1. UNCHANGED subscriptions /\ pending'[c][ch] \in {pending[c][ch], NoSub}
          BY <2>3, CleanupEffect, DropEffect
    <3> QED BY <1>1, <3>1
  <2>4. CASE UNCHANGED <<subscriptions, pending>>
        BY <1>1, <2>4
  <2>5. Unregister(h) => CurConn(h) \in Conns
        BY UnregisterEffect
  <2>6. UnsubClean(h) \/ UnsubRemove(h) => UnsubConn(h) \in Conns
        BY UnsubConnTypes DEF UnsubClean, UnsubRemove
  <2> QED BY <1>2, <2>1, <2>2, <2>3, <2>4, <2>5, <2>6, CallerMeta
<1>3. ASSUME NEW d \in Conns, LoopStep(d) \/ Break(d)
      PROVE  pending'[c][ch] \in subscriptions'[c] /\ ChannelOf[pending'[c][ch]] = ch
  <2>1. UNCHANGED subscriptions
        BY <1>3, LoopOthers
  <2>2. pending'[c][ch] \in {pending[c][ch], NoSub}
    <3>1. UNCHANGED pending \/ \E x \in Channels : DropPending(d, x)
          BY <1>3, LoopPending DEF LoopUnpends
    <3> QED BY <3>1, DropEffect
  <2> QED BY <1>1, <2>1, <2>2
<1>4. CASE UNCHANGED <<subscriptions, pending>>
      BY <1>1, <1>4
<1> QED BY <1>2, <1>3, <1>4, CloseOthers, PublishOthers DEF Next, CallerStep, vars

-----------------------------------------------------------------------------
(* Homes *)

\* A subscription found in a connection's registry, or held by its loop, has it
\* as its connection.
LEMMA HomesStep ==
  ASSUME TypeOK, Placed, AllAlive, NotYet, Homes, PendingRegistered, [Next]_vars
  PROVE  Homes'
<1>0. TypeOK' /\ Placed' /\ AllAlive'
      BY TypeStep, PlacedStep, AliveStep
<1>a. \A s \in Alive : pubsub'[s] = pubsub[s]
      BY HomeStays
<1>b. \A c \in Conns : subscriptions[c] \cup loopTodo[c] \subseteq Alive
      BY DEF AllAlive, ConnAlive
<1>c. \A d \in Conns : connState[d] # "none" => connState'[d] # "none"
      BY BornStays
<1>1. ASSUME NEW c \in Conns, NEW s \in subscriptions'[c] \cup loopTodo'[c] PROVE pubsub'[s] = c
  <2>1. CASE s \in subscriptions[c] \cup loopTodo[c]
        BY <2>1, <1>a, <1>b DEF Homes
  <2>2. ASSUME NEW h \in Handles, CallerStep(h) PROVE pubsub'[s] = c
    <3>1. loopTodo'[c] = loopTodo[c]
          BY <2>2, CallerOthers
    <3>2. ASSUME Register(h), c = CurConn(h), s = Cur(h) PROVE pubsub'[s] = c
      <4>1. UNCHANGED pubsub
            BY <3>2, RegisterEffect
      <4> QED BY <3>2, <4>1 DEF CurConn
    <3> QED BY <1>1, <2>1, <2>2, <3>1, <3>2, CallerRegisters
  <2>3. ASSUME NEW d \in Conns, LoopStep(d) \/ Break(d)
        PROVE  s \in subscriptions[c] \cup loopTodo[c]
    <3>1. subscriptions'[c] = subscriptions[c] /\ (c # d => loopTodo'[c] = loopTodo[c])
          BY <2>3, LoopOthers
    <3>2. c = d => loopTodo'[c] \subseteq loopTodo[c] \cup subscriptions[c]
          BY <2>3, LoopTakes
    <3> QED BY <1>1, <3>1, <3>2
  <2>4. CASE UNCHANGED <<subscriptions, loopTodo>>
        BY <1>1, <2>1, <2>4
  <2> QED BY <2>1, <2>2, <2>3, <2>4, CloseOthers, PublishOthers DEF Next, CallerStep, vars
<1>2. ASSUME NEW c \in Conns, loop'[c] \in {"confirm", "unpend", "handOver", "signal"}
      PROVE  pubsub'[loopSub'[c]] = c
  <2>1. ASSUME loop[c] \in {"confirm", "unpend", "handOver", "signal"}, loopSub'[c] = loopSub[c]
        PROVE  pubsub'[loopSub'[c]] = c
        BY <2>1, <1>a DEF Homes, AllAlive, ConnAlive
  <2>2. ASSUME NEW h \in Handles, CallerStep(h) PROVE pubsub'[loopSub'[c]] = c
    <3>1. UNCHANGED loopSub /\ (loop'[c] = loop[c] \/ loop'[c] = "select")
      <4>1. UNCHANGED loop \/ Create(h)
            BY <2>2 DEF CallerStep, CallStep, Goto, Subscribe, Unsubscribe, Expire, Lookup, List,
               CreateFails, MetadataGone, Track, Register, SendQueues, SendFails, Confirm,
               WaitActive, WaitExpires, CheckPending, CheckState, Activate, SendCleanup, Untrack,
               Unregister, Abort, UnsubCheck, UnsubCount, UnsubUntrack, UnsubPhase1, UnsubQueues,
               UnsubSendFails, UnsubClean, UnsubWait, UnsubRemove
      <4> QED BY <2>2, <4>1, CallerOthers DEF Create, TypeOK, LoopTypes
    <3> QED BY <1>2, <2>1, <3>1
  <2>3. ASSUME NEW d \in Conns, LoopStep(d) \/ Break(d) PROVE pubsub'[loopSub'[c]] = c
    <3>1. CASE c # d
      <4>1. loop'[c] = loop[c] /\ loopSub'[c] = loopSub[c]
            BY <2>3, <3>1, LoopOthers
      <4> QED BY <1>2, <2>1, <4>1
    <3>2. CASE c = d
      <4>1. \/ /\ loop[c] \in {"confirm", "unpend", "handOver", "signal"}
               /\ loopSub'[c] = loopSub[c]
            \/ loopSub'[c] # NoSub /\ \E ch \in Channels : loopSub'[c] = pending[c][ch]
            \/ loopSub'[c] \in loopTodo[c]
            BY <1>2, <2>3, <3>2, LoopTakes
      <4>2. ASSUME loopSub'[c] # NoSub, NEW ch \in Channels, loopSub'[c] = pending[c][ch]
            PROVE  pubsub'[loopSub'[c]] = c
        <5>1. loopSub'[c] \in subscriptions[c]
              BY <4>2 DEF PendingRegistered
        <5> QED BY <1>a, <1>b, <5>1 DEF Homes
      <4>3. CASE loopSub'[c] \in loopTodo[c]
            BY <1>a, <1>b, <4>3 DEF Homes
      <4> QED BY <2>1, <4>1, <4>2, <4>3
    <3> QED BY <3>1, <3>2
  <2>4. CASE UNCHANGED <<loop, loopSub>>
        BY <1>2, <2>1, <2>4
  <2> QED BY <2>2, <2>3, <2>4, CloseOthers, PublishOthers DEF Next, CallerStep, vars
<1>3. ASSUME NEW c \in Conns, c \in inPool' \/ loop'[c] # "off" PROVE connState'[c] # "none"
  <2>1. CASE c \in inPool \/ loop[c] # "off"
        BY <2>1, <1>c DEF Homes
  <2>2. ASSUME NEW h \in Handles, CallerStep(h) PROVE connState'[c] # "none"
    <3>1. UNCHANGED <<inPool, loop>> \/ Create(h)
          BY <2>2 DEF CallerStep, CallStep, Goto, Subscribe, Unsubscribe, Expire, Lookup, List,
             CreateFails, MetadataGone, Track, Register, SendQueues, SendFails, Confirm,
             WaitActive, WaitExpires, CheckPending, CheckState, Activate, SendCleanup, Untrack,
             Unregister, Abort, UnsubCheck, UnsubCount, UnsubUntrack, UnsubPhase1, UnsubQueues,
             UnsubSendFails, UnsubClean, UnsubWait, UnsubRemove
    <3>2. CASE Create(h)
          BY <1>3, <2>1, <3>2 DEF Create, TypeOK, LoopTypes, MetaTypes
    <3> QED BY <1>3, <2>1, <3>1, <3>2
  <2>3. ASSUME NEW d \in Conns, LoopStep(d) \/ Break(d) PROVE connState'[c] # "none"
    <3>1. /\ inPool' \subseteq inPool /\ (c # d => loop'[c] = loop[c])
          /\ loop[d] # "off" \/ Break(d)
          BY <2>3, LoopOthers
    <3>2. Break(d) => UNCHANGED loop
          BY DEF Break
    <3> QED BY <1>3, <2>1, <3>1, <3>2
  <2>4. CASE inPool' \subseteq inPool /\ UNCHANGED loop
        BY <1>3, <2>1, <2>4
  <2> QED BY <2>2, <2>3, <2>4, CloseOthers, PublishOthers DEF Next, CallerStep, vars
<1>4. ASSUME NEW h \in Handles, pc'[h] \in {"list", "track"}
      PROVE  connState'[CurConn(h)'] # "none"
  <2>1. CASE pc[h] \in {"list", "track"} /\ UNCHANGED <<idx, pubsub>>
    <3>1. CurConn(h)' = CurConn(h) /\ CurConn(h) \in Conns
          BY <2>1 DEF CurConn, Cur, Placed, PlacedAt
    <3> QED BY <1>c, <2>1, <3>1 DEF Homes
  <2>2. CASE Lookup(h) \/ Create(h)
    <3>1. Cur(h) \in Subs /\ UNCHANGED idx
          BY <2>2, CurTypes DEF Lookup, Create
    <3>2. CASE Lookup(h)
      <4>1. PICK c \in LeastLoaded : pubsub' = [pubsub EXCEPT ![Cur(h)] = c]
            BY <1>4, <3>2 DEF Lookup, Go, TypeOK, CallTypes
      <4>2. c \in inPool /\ c \in Conns
            BY DEF LeastLoaded, TypeOK, MuxTypes
      <4>3. CurConn(h)' = c
            BY <3>1, <4>1 DEF CurConn, Cur, TypeOK, SubTypes
      <4> QED BY <1>c, <4>2, <4>3 DEF Homes
    <3>3. CASE Create(h)
      <4>1. PICK c \in Conns : /\ pubsub' = [pubsub EXCEPT ![Cur(h)] = c]
                               /\ connState' = [connState EXCEPT ![c] = "active"]
            BY <3>3 DEF Create
      <4>2. CurConn(h)' = c
            BY <3>1, <4>1 DEF CurConn, Cur, TypeOK, SubTypes
      <4> QED BY <4>1, <4>2 DEF TypeOK, MetaTypes
    <3> QED BY <2>2, <3>2, <3>3
  <2>3. ASSUME CallerStep(h), ~Lookup(h), ~Create(h)
        PROVE  pc[h] \in {"list", "track"} /\ UNCHANGED <<idx, pubsub>>
    <3> USE DEF Go, Goto
    <3>0. CallTypes
          BY DEF TypeOK
    <3>1. CASE Subscribe(h) \/ Unsubscribe(h) \/ Expire(h) \/ List(h) \/ CreateFails(h)
                 \/ MetadataGone(h) \/ Track(h) \/ Register(h)
          BY <1>4, <3>0, <3>1 DEF CallTypes, Subscribe, Unsubscribe, Expire, List, CreateFails,
             MetadataGone, Track, Register, RegisterDecision
    <3>2. CASE SendQueues(h) \/ SendFails(h) \/ Confirm(h) \/ WaitActive(h) \/ WaitExpires(h)
                 \/ CheckPending(h) \/ CheckState(h) \/ Activate(h) \/ SendCleanup(h) \/ Untrack(h)
                 \/ Unregister(h) \/ Abort(h)
          BY <1>4, <3>0, <3>2 DEF CallTypes, SendQueues, SendFails, Confirm, WaitActive,
             WaitExpires, CheckPending, CheckState, Activate, SendCleanup, Untrack, Unregister,
             Abort, Advance
    <3>3. CASE UnsubCheck(h) \/ UnsubCount(h) \/ UnsubUntrack(h) \/ UnsubPhase1(h)
                 \/ UnsubQueues(h) \/ UnsubSendFails(h) \/ UnsubClean(h) \/ UnsubWait(h)
                 \/ UnsubRemove(h)
          BY <1>4, <3>0, <3>3 DEF CallTypes, UnsubCheck, UnsubCount, UnsubUntrack, UnsubPhase1,
             UnsubQueues, UnsubSendFails, UnsubClean, UnsubWait, UnsubRemove, Ended
    <3> QED BY <2>3, <3>1, <3>2, <3>3 DEF CallerStep, CallStep
  <2>4. ASSUME NEW g \in Handles, g # h, CallerStep(g) PROVE connState'[CurConn(h)'] # "none"
    <3>1. pc[h] \in {"list", "track"} /\ Cur(h)' = Cur(h)
          BY <1>4, <2>4, CallerOthers DEF Cur
    <3>2. pubsub'[Cur(h)] = pubsub[Cur(h)]
      <4>1. UNCHANGED pubsub \/ ((Lookup(g) \/ Create(g)) /\ \E c : pubsub' = [pubsub EXCEPT ![Cur(g)] = c])
            BY <2>4 DEF CallerStep, CallStep, Goto, Subscribe, Unsubscribe, Expire, Lookup,
               Create, List, CreateFails, MetadataGone, Track, Register, SendQueues, SendFails,
               Confirm, WaitActive, WaitExpires, CheckPending, CheckState, Activate, SetState,
               SendCleanup, Untrack, Unregister, Abort, UnsubCheck, UnsubCount, UnsubUntrack,
               UnsubPhase1, SetClosed, UnsubQueues, UnsubSendFails, UnsubClean, UnsubWait,
               UnsubRemove
      <4>2. ASSUME Lookup(g) \/ Create(g) PROVE Cur(g) # Cur(h)
        <5>1. idx[g] \in 1..Len(SubsOf[g]) /\ idx[h] \in 1..Len(SubsOf[h])
              BY <3>1, <4>2 DEF Lookup, Create, TypeOK, CallTypes, Placed, PlacedAt
        <5> QED BY <2>4, <5>1, PlacesDistinct DEF Cur
      <4> QED BY <3>1, <4>1, <4>2, CurTypes DEF TypeOK, SubTypes
    <3>3. CurConn(h)' = CurConn(h) /\ CurConn(h) \in Conns
          BY <3>1, <3>2 DEF CurConn, Placed, PlacedAt
    <3> QED BY <1>c, <3>1, <3>3 DEF Homes
  <2>5. CASE \A g \in Handles : ~CallerStep(g)
        BY <1>4, <2>1, <2>5, OthersMove
  <2> QED BY <2>1, <2>2, <2>3, <2>4, <2>5
<1>5. ASSUME NEW s \in Alive' PROVE pubsub'[s] \in Conns /\ connState'[pubsub'[s]] # "none"
  <2>1. CASE s \in Alive
        BY <1>a, <1>c, <2>1 DEF Homes
  <2>2. ASSUME NEW h \in Handles, Track(h), s = Cur(h)
        PROVE  pubsub'[s] \in Conns /\ connState'[pubsub'[s]] # "none"
    <3>1. pc[h] = "track" /\ UNCHANGED pubsub
          BY <2>2 DEF Track
    <3>2. CurConn(h) \in Conns /\ connState[CurConn(h)] # "none"
          BY <3>1 DEF Placed, PlacedAt, Homes
    <3> QED BY <1>c, <2>2, <3>1, <3>2 DEF CurConn
  <2> QED BY <2>1, <2>2, WhoIsCreated
<1> QED BY <1>1, <1>2, <1>3, <1>4, <1>5 DEF Homes

-----------------------------------------------------------------------------
(* The order of messages *)

\* An inbox loses a prefix or a suffix, or gains a confirmation or a newer message.
LEMMA InboxMoves ==
  ASSUME TypeOK, NEW c \in Conns, InboxInOrder(c), loopMsg'[c] \in Nat, published' \in Nat,
         inbox'[c] \in Seq(Incoming), published <= published', loopMsg'[c] <= published',
         \A i \in 1..Len(inbox'[c]) : inbox'[c][i].kind = "message" =>
           /\ loopMsg'[c] < inbox'[c][i].id /\ inbox'[c][i].id <= published'
           /\ \A j \in 1..Len(inbox'[c]) :
                inbox'[c][j].kind = "message" /\ i < j => inbox'[c][i].id < inbox'[c][j].id
  PROVE  InboxInOrder(c)'
<1>1. DOMAIN inbox'[c] = 1..Len(inbox'[c])
      OBVIOUS
<1> QED BY <1>1 DEF InboxInOrder

\* InboxInOrder with the bounds spelled out.
LEMMA InboxFacts ==
  ASSUME TypeOK, NEW c \in Conns, InboxInOrder(c)
  PROVE  /\ inbox[c] \in Seq(Incoming) /\ loopMsg[c] \in Nat /\ published \in Nat
         /\ loopMsg[c] <= published
         /\ \A i \in 1..Len(inbox[c]) :
              /\ inbox[c][i].id \in Nat
              /\ inbox[c][i].kind = "message" =>
                   /\ loopMsg[c] < inbox[c][i].id /\ inbox[c][i].id <= published
                   /\ \A j \in 1..Len(inbox[c]) :
                        inbox[c][j].kind = "message" /\ i < j => inbox[c][i].id < inbox[c][j].id
<1>1. inbox[c] \in Seq(Incoming) /\ loopMsg[c] \in Nat /\ published \in Nat
      BY SubMuxAssumption DEF TypeOK, LoopTypes, ServerTypes
<1>2. DOMAIN inbox[c] = 1..Len(inbox[c]) /\ \A i \in 1..Len(inbox[c]) : inbox[c][i] \in Incoming
      BY <1>1
<1>3. \A i \in 1..Len(inbox[c]) : inbox[c][i].id \in Nat
      BY <1>2 DEF Incoming
<1> QED BY <1>1, <1>2, <1>3 DEF InboxInOrder

\* What the loop of a connection, or its loss, does to the inbox.
LEMMA LoopInbox ==
  ASSUME TypeOK, NEW c \in Conns, LoopStep(c) \/ Break(c), ~LoopReceivesMessage(c)
  PROVE  /\ UNCHANGED <<loopMsg, published>>
         /\ \/ inbox'[c] = inbox[c]
            \/ inbox[c] # <<>> /\ inbox'[c] = Tail(inbox[c])
            \/ \E n \in 0..Len(inbox[c]) : inbox'[c] = SubSeq(inbox[c], 1, n)
            \/ \E ch \in Channels :
                 inbox'[c] = Append(inbox[c], [kind |-> "confirm", channel |-> ch, id |-> 0])
<1>0. inbox \in [Conns -> Seq(Incoming)]
      BY DEF TypeOK, ServerTypes
<1>1. CASE LoopSends(c)
  <2>1. Head(cmdCh[c]) \in Commands
        BY <1>1 DEF LoopSends, TypeOK, MetaTypes
  <2>2. ChannelOf[Head(cmdCh[c]).sub] \in Channels
        BY <2>1, SubMuxAssumption DEF Commands
  <2> QED BY <1>0, <1>1, <2>2 DEF LoopSends
<1>2. CASE LoopReceivesConfirmation(c) \/ Break(c)
      BY <1>0, <1>2 DEF LoopReceivesConfirmation, Break
<1>3. CASE ~(LoopSends(c) \/ LoopReceivesConfirmation(c) \/ Break(c))
      BY <1>3 DEF LoopStep, LoopSendFails, LoopFailsSub, LoopLosesChannel, LoopMarksFailed,
         LoopSnapshots, LoopNotifies, LoopSignals, LoopConfirms, LoopUnpends, LoopDispatches,
         LoopHandsOver, LoopStops, LoopDrains, LoopClosesLoopDone, LoopExits, LoopRetires,
         LoopRemovesConn, LoopCleansZombies
<1> QED BY <1>1, <1>2, <1>3

\* Receiving, confirming and breaking keep the inbox in order.
LEMMA LoopKeepsInbox ==
  ASSUME TypeOK, TypeOK', NEW c \in Conns, InboxInOrder(c), LoopStep(c) \/ Break(c)
  PROVE  InboxInOrder(c)'
<1> DEFINE q == inbox[c]
           r == inbox'[c]
<1>0. /\ q \in Seq(Incoming) /\ r \in Seq(Incoming) /\ loopMsg'[c] \in Nat /\ published' \in Nat
      /\ loopMsg[c] \in Nat /\ published \in Nat
      BY SubMuxAssumption DEF TypeOK, ServerTypes, LoopTypes
<1>a. /\ loopMsg[c] <= published
      /\ \A i \in 1..Len(q) :
           /\ q[i].id \in Nat
           /\ q[i].kind = "message" =>
                /\ loopMsg[c] < q[i].id /\ q[i].id <= published
                /\ \A j \in 1..Len(q) : q[j].kind = "message" /\ i < j => q[i].id < q[j].id
      BY InboxFacts
<1>b. SUFFICES /\ published <= published' /\ loopMsg'[c] <= published'
               /\ \A i \in 1..Len(r) : r[i].kind = "message" =>
                    /\ loopMsg'[c] < r[i].id /\ r[i].id <= published'
                    /\ \A j \in 1..Len(r) : r[j].kind = "message" /\ i < j => r[i].id < r[j].id
      BY <1>0, InboxMoves
<1>1. CASE LoopReceivesMessage(c)
  <2>1. /\ q # <<>> /\ Head(q).kind = "message" /\ r = Tail(q) /\ loopMsg'[c] = Head(q).id
        /\ published' = published
        BY <1>1 DEF LoopReceivesMessage, TypeOK, ServerTypes, LoopTypes
  <2> HIDE DEF q, r
  <2>2. Head(q) = q[1] /\ 1 \in 1..Len(q) /\ Len(r) = Len(q) - 1
        BY <1>0, <2>1
  <2>3. \A i \in 1..Len(r) : i + 1 \in 1..Len(q) /\ r[i] = q[i + 1] /\ 1 < i + 1
        BY <1>0, <2>1, <2>2
  <2> QED BY <1>0, <1>a, <2>1, <2>2, <2>3
<1>2. CASE ~LoopReceivesMessage(c)
  <2>1. loopMsg'[c] = loopMsg[c] /\ published' = published
        BY <1>2, LoopInbox
  <2>2. \/ r = q
        \/ q # <<>> /\ r = Tail(q)
        \/ \E n \in 0..Len(q) : r = SubSeq(q, 1, n)
        \/ \E ch \in Channels : r = Append(q, [kind |-> "confirm", channel |-> ch, id |-> 0])
        BY <1>2, LoopInbox
  <2> HIDE DEF q, r
  <2>3. CASE r = q
        BY <1>0, <1>a, <2>1, <2>3
  <2>4. CASE q # <<>> /\ r = Tail(q)
    <3>1. \A i \in 1..Len(r) : i + 1 \in 1..Len(q) /\ r[i] = q[i + 1]
          BY <1>0, <2>4
    <3>2. ASSUME NEW i \in 1..Len(r), r[i].kind = "message"
          PROVE  /\ loopMsg'[c] < r[i].id /\ r[i].id <= published'
                 /\ \A j \in 1..Len(r) : r[j].kind = "message" /\ i < j => r[i].id < r[j].id
      <4>1. loopMsg'[c] < r[i].id /\ r[i].id <= published'
            BY <1>a, <2>1, <3>1, <3>2
      <4>2. ASSUME NEW j \in 1..Len(r), r[j].kind = "message", i < j PROVE r[i].id < r[j].id
        <5>1. i + 1 < j + 1 /\ i + 1 \in 1..Len(q) /\ j + 1 \in 1..Len(q)
              BY <3>1, <4>2
        <5> QED BY <1>a, <3>1, <3>2, <4>2, <5>1
      <4> QED BY <4>1, <4>2
    <3> QED BY <1>0, <1>a, <2>1, <3>2
  <2>5. ASSUME NEW n \in 0..Len(q), r = SubSeq(q, 1, n)
        PROVE  \A i \in 1..Len(r) : i \in 1..Len(q) /\ r[i] = q[i]
        BY <1>0, <2>5
  <2>6. CASE \E n \in 0..Len(q) : r = SubSeq(q, 1, n)
        BY <1>0, <1>a, <2>1, <2>5, <2>6
  <2>7. ASSUME NEW ch \in Channels, r = Append(q, [kind |-> "confirm", channel |-> ch, id |-> 0])
        PROVE  \A i \in 1..Len(r) : r[i].kind = "message" => i \in 1..Len(q) /\ r[i] = q[i]
    <3>1. \A i \in 1..Len(r) : (i \in 1..Len(q) /\ r[i] = q[i]) \/ i = Len(q) + 1
          BY <1>0, <2>7
    <3>2. r[Len(q) + 1] = [kind |-> "confirm", channel |-> ch, id |-> 0]
          BY <1>0, <2>7
    <3> QED BY <3>1, <3>2
  <2>8. CASE \E ch \in Channels : r = Append(q, [kind |-> "confirm", channel |-> ch, id |-> 0])
        BY <1>0, <1>a, <2>1, <2>7, <2>8
  <2> QED BY <2>2, <2>3, <2>4, <2>6, <2>8
<1> QED BY <1>1, <1>2

\* A publication is newer than whatever is on the way.
LEMMA PublishKeepsInbox ==
  ASSUME TypeOK, TypeOK', NEW c \in Conns, InboxInOrder(c), NEW type \in Types, NEW ch \in Channels,
         Publish(type, ch)
  PROVE  InboxInOrder(c)'
<1> DEFINE q == inbox[c]
           r == inbox'[c]
           m == [kind |-> "message", channel |-> ch, id |-> published + 1]
<1>0. /\ q \in Seq(Incoming) /\ r \in Seq(Incoming) /\ loopMsg'[c] \in Nat /\ published' \in Nat
      /\ loopMsg[c] \in Nat /\ published \in Nat
      BY SubMuxAssumption DEF TypeOK, ServerTypes, LoopTypes
<1>a. /\ loopMsg[c] <= published
      /\ \A i \in 1..Len(q) :
           /\ q[i].id \in Nat
           /\ q[i].kind = "message" =>
                /\ loopMsg[c] < q[i].id /\ q[i].id <= published
                /\ \A j \in 1..Len(q) : q[j].kind = "message" /\ i < j => q[i].id < q[j].id
      BY InboxFacts
<1>b. SUFFICES /\ published <= published' /\ loopMsg'[c] <= published'
               /\ \A i \in 1..Len(r) : r[i].kind = "message" =>
                    /\ loopMsg'[c] < r[i].id /\ r[i].id <= published'
                    /\ \A j \in 1..Len(r) : r[j].kind = "message" /\ i < j => r[i].id < r[j].id
      BY <1>0, InboxMoves
<1>1. published' = published + 1 /\ loopMsg'[c] = loopMsg[c] /\ (r = q \/ r = Append(q, m))
      BY DEF Publish
<1>2. m.id = published + 1
      OBVIOUS
<1> HIDE DEF q, r, m
<1>3. CASE r = q
      BY <1>0, <1>a, <1>1, <1>3
<1>4. CASE r = Append(q, m)
  <2>1. \A i \in 1..Len(r) : (i \in 1..Len(q) /\ r[i] = q[i]) \/ (i = Len(q) + 1 /\ r[i] = m)
        BY <1>0, <1>4
  <2>2. Len(q) \in Nat /\ Len(r) = Len(q) + 1
        BY <1>0, <1>4
  <2>3. ASSUME NEW i \in 1..Len(r), r[i].kind = "message"
        PROVE  /\ loopMsg'[c] < r[i].id /\ r[i].id <= published'
               /\ \A j \in 1..Len(r) : r[j].kind = "message" /\ i < j => r[i].id < r[j].id
    <3>1. CASE i = Len(q) + 1 /\ r[i] = m
          BY <1>0, <1>a, <1>1, <1>2, <2>2, <3>1
    <3>2. CASE i \in 1..Len(q) /\ r[i] = q[i]
      <4>1. q[i].id \in Nat /\ loopMsg[c] < q[i].id /\ q[i].id <= published
            BY <1>a, <2>3, <3>2
      <4>2. ASSUME NEW j \in 1..Len(r), r[j].kind = "message", i < j PROVE r[i].id < r[j].id
        <5>1. CASE j = Len(q) + 1 /\ r[j] = m
              BY <1>0, <1>2, <3>2, <4>1, <5>1
        <5>2. CASE j \in 1..Len(q) /\ r[j] = q[j]
              BY <1>a, <2>3, <3>2, <4>2, <5>2
        <5> QED BY <2>1, <5>1, <5>2
      <4> QED BY <1>0, <1>1, <3>2, <4>1, <4>2
    <3> QED BY <2>1, <3>1, <3>2
  <2> QED BY <1>0, <1>a, <1>1, <2>3
<1> QED BY <1>1, <1>3, <1>4

\* What a loop does to the messages handed over.
LEMMA LoopDelivers ==
  ASSUME TypeOK, NEW c \in Conns, LoopStep(c) \/ Break(c)
  PROVE  \/ LoopReceivesMessage(c)
         \/ LoopHandsOver(c)
         \/ LoopSignals(c)
         \/ /\ UNCHANGED <<loopMsg, delivered>>
            /\ loop[c] \in Ending => loop'[c] \in Ending
            /\ loop'[c] = "dispatch" => loop[c] = "dispatch" /\ loopTodo'[c] \subseteq loopTodo[c]
            /\ loop'[c] = "notify" =>
                 \/ loop[c] = "snapshot"
                 \/ loop[c] = "notify" /\ loopTodo'[c] \subseteq loopTodo[c]
            /\ loop'[c] \in {"handOver", "signal"} =>
                 /\ \/ loop'[c] = loop[c] /\ loopSub'[c] = loopSub[c] /\ loopTodo'[c] = loopTodo[c]
                    \/ /\ loop[c] = IF loop'[c] = "handOver" THEN "dispatch" ELSE "notify"
                       /\ loopSub'[c] \in loopTodo[c]
                       /\ loopTodo'[c] = loopTodo[c] \ {loopSub'[c]}
<1> USE DEF LoopTo, Ending
<1>0. LoopTypes
      BY DEF TypeOK
<1>1. CASE LoopSends(c) \/ LoopSendFails(c) \/ LoopFailsSub(c) \/ LoopLosesChannel(c)
             \/ LoopMarksFailed(c) \/ LoopSnapshots(c) \/ LoopReceivesConfirmation(c)
             \/ LoopConfirms(c) \/ LoopUnpends(c) \/ LoopStops(c) \/ Break(c)
      BY <1>0, <1>1 DEF LoopTypes, LoopSends, LoopSendFails, LoopFailsSub, LoopLosesChannel,
         LoopMarksFailed, LoopSnapshots, LoopReceivesConfirmation, LoopConfirms, LoopUnpends,
         LoopStops, Break
<1>2. CASE LoopNotifies(c)
      BY <1>0, <1>2 DEF LoopTypes, LoopNotifies
<1>3. CASE LoopDispatches(c)
      BY <1>0, <1>3 DEF LoopTypes, LoopDispatches
<1>4. CASE LoopDrains(c) \/ LoopClosesLoopDone(c) \/ LoopExits(c) \/ LoopRetires(c)
             \/ LoopRemovesConn(c) \/ LoopCleansZombies(c)
      BY <1>0, <1>4 DEF LoopTypes, LoopDrains, LoopClosesLoopDone, LoopExits, LoopRetires,
         LoopRemovesConn, LoopCleansZombies
<1> QED BY <1>1, <1>2, <1>3, <1>4 DEF LoopStep

\* What the loop takes in hand leaves its snapshot.
LEMMA LoopTakesOnce ==
  ASSUME TypeOK, NEW c \in Conns, TakenOnce(c), LoopStep(c) \/ Break(c)
  PROVE  TakenOnce(c)'
<1>1. CASE LoopReceivesMessage(c) \/ LoopHandsOver(c) \/ LoopSignals(c)
      BY <1>1 DEF TakenOnce, LoopReceivesMessage, LoopHandsOver, LoopSignals, LoopTo, TypeOK,
         LoopTypes
<1>2. CASE loop'[c] \in {"handOver", "signal"} =>
             \/ loop'[c] = loop[c] /\ loopSub'[c] = loopSub[c] /\ loopTodo'[c] = loopTodo[c]
             \/ loopTodo'[c] = loopTodo[c] \ {loopSub'[c]}
      BY <1>2 DEF TakenOnce
<1> QED BY <1>1, <1>2, LoopDelivers

\* What HandedOver depends on.
LEMMA HandedOverFrame ==
  ASSUME NEW s \in Subs, HandedOver(s), delivered'[s] = delivered[s], pubsub'[s] = pubsub[s],
         loopMsg'[pubsub[s]] = loopMsg[pubsub[s]],
         SignalOwed(s)' => SignalOwed(s), MessageOwed(s)' => MessageOwed(s)
  PROVE  HandedOver(s)'
BY DEF HandedOver, Rising

\* A newer number at the end keeps a sequence rising.
LEMMA RisingAppend ==
  ASSUME NEW q \in Seq(Nat), NEW m \in Nat, Rising(q), \A i \in DOMAIN q : q[i] < m
  PROVE  Rising(Append(q, m)) /\ \A i \in DOMAIN Append(q, m) : Append(q, m)[i] <= m
<1> DEFINE r == Append(q, m)
<1>1. DOMAIN q = 1..Len(q) /\ Len(q) \in Nat /\ \A i \in 1..Len(q) : q[i] \in Nat
      OBVIOUS
<1>2. /\ DOMAIN r = 1..(Len(q) + 1)
      /\ \A i \in DOMAIN r : (i \in 1..Len(q) /\ r[i] = q[i]) \/ (i = Len(q) + 1 /\ r[i] = m)
      OBVIOUS
<1> HIDE DEF r
<1>3. (\A i \in DOMAIN r : r[i] <= m) /\ (\A i, j \in DOMAIN r : i < j => r[i] < r[j])
      BY <1>1, <1>2 DEF Rising
<1> QED BY <1>3 DEF Rising, r

\* The loop hands over what it received last, once to each of the snapshot, and
\* the signal after everything else.
LEMMA LoopKeepsHandedOver ==
  ASSUME TypeOK, AllAlive, Homes, NEW c \in Conns, InboxInOrder(c), TakenOnce(c),
         LoopStep(c) \/ Break(c), NEW s \in Alive, HandedOver(s)
  PROVE  HandedOver(s)'
<1>0. /\ s \in Subs /\ delivered[s] \in Seq(Nat) /\ pubsub[s] \in Conns /\ loopMsg[c] \in Nat
      /\ UNCHANGED pubsub /\ delivered \in [Subs -> Seq(Nat)]
      BY LoopOthers DEF Alive, TypeOK, LoopTypes, Homes
<1>1. DOMAIN delivered[s] = 1..Len(delivered[s]) /\ \A i \in 1..Len(delivered[s]) : delivered[s][i] \in Nat
      BY <1>0
<1>2. CASE pubsub[s] # c
  <2>1. /\ loopMsg'[pubsub[s]] = loopMsg[pubsub[s]] /\ loop'[pubsub[s]] = loop[pubsub[s]]
        /\ loopTodo'[pubsub[s]] = loopTodo[pubsub[s]] /\ loopSub'[pubsub[s]] = loopSub[pubsub[s]]
        BY <1>0, <1>2, LoopOthers
  <2>2. delivered'[s] = delivered[s]
    <3>1. LoopHandsOver(c) \/ LoopSignals(c) => loopSub[c] # s
          BY <1>2 DEF LoopHandsOver, LoopSignals, Homes
    <3>2. LoopReceivesMessage(c) => UNCHANGED delivered
          BY DEF LoopReceivesMessage
    <3> QED BY <1>0, <3>1, <3>2, LoopDelivers DEF LoopHandsOver, LoopSignals
  <2> QED BY <1>0, <2>1, <2>2, HandedOverFrame DEF SignalOwed, MessageOwed, Owed
<1>3. ASSUME pubsub[s] = c, LoopReceivesMessage(c) PROVE HandedOver(s)'
  <2>1. /\ UNCHANGED delivered /\ inbox[c] # <<>> /\ Head(inbox[c]).kind = "message"
        /\ loopMsg'[c] = Head(inbox[c]).id /\ loop[c] = "select"
        BY <1>3 DEF LoopReceivesMessage, TypeOK, LoopTypes
  <2>2. inbox[c] \in Seq(Incoming)
        BY DEF TypeOK, ServerTypes
  <2>3. 1 \in 1..Len(inbox[c]) /\ Head(inbox[c]) = inbox[c][1]
        BY <2>1, <2>2
  <2>4. loopMsg[c] < loopMsg'[c] /\ loopMsg'[c] \in Nat
        BY <2>1, <2>3, InboxFacts
  <2>5. \A i \in 1..Len(delivered[s]) : delivered[s][i] <= loopMsg[c]
        BY <1>1, <1>3, <2>1 DEF HandedOver, SignalOwed, Ending
  <2>6. \A i \in 1..Len(delivered[s]) : delivered[s][i] < loopMsg'[c]
        BY <1>0, <1>1, <2>4, <2>5
  <2> QED BY <1>0, <1>1, <1>3, <2>1, <2>4, <2>6 DEF HandedOver, Rising
<1>4. ASSUME pubsub[s] = c, LoopHandsOver(c) PROVE HandedOver(s)'
  <2>1. /\ loop[c] = "handOver" /\ loop'[c] = "dispatch" /\ UNCHANGED <<loopMsg, loopSub, loopTodo>>
        /\ delivered' = [delivered EXCEPT ![loopSub[c]] = Append(@, loopMsg[c])]
        BY <1>4 DEF LoopHandsOver, LoopTo, TypeOK, LoopTypes
  <2>2. CASE s # loopSub[c]
        BY <1>0, <1>4, <2>1, <2>2, HandedOverFrame DEF SignalOwed, MessageOwed, Owed, Ending
  <2>3. CASE s = loopSub[c]
    <3>1. MessageOwed(s) /\ ~MessageOwed(s)'
          BY <1>0, <1>4, <2>1, <2>3 DEF MessageOwed, Owed, TakenOnce
    <3>2. Rising(delivered[s]) /\ \A i \in DOMAIN delivered[s] : delivered[s][i] < loopMsg[c]
          BY <1>4, <3>1 DEF HandedOver
    <3>3. delivered'[s] = Append(delivered[s], loopMsg[c])
          BY <1>0, <2>1, <2>3
    <3>4. Rising(delivered'[s]) /\ \A i \in DOMAIN delivered'[s] : delivered'[s][i] <= loopMsg[c]
          BY <1>0, <3>2, <3>3, RisingAppend
    <3> QED BY <1>0, <1>4, <2>1, <3>1, <3>4 DEF HandedOver, Rising
  <2> QED BY <2>2, <2>3
<1>5. ASSUME pubsub[s] = c, LoopSignals(c) PROVE HandedOver(s)'
  <2>1. /\ loop[c] = "signal" /\ loop'[c] = "notify" /\ UNCHANGED <<loopMsg, loopSub, loopTodo>>
        /\ delivered' = [delivered EXCEPT ![loopSub[c]] = Append(@, Signal)]
        BY <1>5 DEF LoopSignals, LoopTo, TypeOK, LoopTypes
  <2>2. CASE s # loopSub[c]
        BY <1>0, <1>5, <2>1, <2>2, HandedOverFrame DEF SignalOwed, MessageOwed, Owed, Ending
  <2>3. CASE s = loopSub[c]
    <3>1. SignalOwed(s) /\ ~SignalOwed(s)' /\ ~MessageOwed(s)'
          BY <1>0, <1>5, <2>1, <2>3 DEF SignalOwed, MessageOwed, Owed, Ending, TakenOnce
    <3>2. Rising(delivered[s]) /\ \A i \in DOMAIN delivered[s] : delivered[s][i] <= loopMsg[c]
          BY <1>5, <3>1 DEF HandedOver
    <3>3. Signal \in Nat /\ loopMsg[c] < Signal
          BY <1>0, SubMuxAssumption DEF Signal, InboxInOrder, TypeOK, ServerTypes
    <3>4. \A i \in DOMAIN delivered[s] : delivered[s][i] < Signal
          BY <1>0, <1>1, <3>2, <3>3
    <3>5. delivered'[s] = Append(delivered[s], Signal)
          BY <1>0, <2>1, <2>3
    <3>6. Rising(delivered'[s])
          BY <1>0, <3>2, <3>3, <3>4, <3>5, RisingAppend
    <3> QED BY <3>1, <3>6 DEF HandedOver, Rising
  <2> QED BY <2>2, <2>3
<1>6. ASSUME pubsub[s] = c, ~LoopReceivesMessage(c), ~LoopHandsOver(c), ~LoopSignals(c)
      PROVE  HandedOver(s)'
  <2>1. /\ UNCHANGED <<loopMsg, delivered>>
        /\ loop[c] \in Ending => loop'[c] \in Ending
        /\ loop'[c] = "dispatch" => loop[c] = "dispatch" /\ loopTodo'[c] \subseteq loopTodo[c]
        /\ loop'[c] = "notify" =>
             \/ loop[c] = "snapshot"
             \/ loop[c] = "notify" /\ loopTodo'[c] \subseteq loopTodo[c]
        /\ loop'[c] \in {"handOver", "signal"} =>
             /\ \/ loop'[c] = loop[c] /\ loopSub'[c] = loopSub[c] /\ loopTodo'[c] = loopTodo[c]
                \/ /\ loop[c] = IF loop'[c] = "handOver" THEN "dispatch" ELSE "notify"
                   /\ loopSub'[c] \in loopTodo[c]
                   /\ loopTodo'[c] = loopTodo[c] \ {loopSub'[c]}
        BY <1>6, LoopDelivers
  <2>2. MessageOwed(s)' => MessageOwed(s)
        BY <1>0, <1>6, <2>1 DEF MessageOwed, Owed
  <2>3. SignalOwed(s)' => SignalOwed(s)
        BY <1>0, <1>6, <2>1 DEF SignalOwed, Owed, Ending
  <2> QED BY <1>0, <1>6, <2>1, <2>2, <2>3, HandedOverFrame
<1> QED BY <1>2, <1>3, <1>4, <1>5, <1>6

\* Every step keeps the order of messages.
LEMMA InOrderStep ==
  ASSUME TypeOK, Placed, AllAlive, NotYet, Homes, InOrder, [Next]_vars, NotYet'
  PROVE  InOrder'
<1>0. TypeOK'
      BY TypeStep
<1>a. ASSUME NEW h \in Handles, CallerStep(h)
      PROVE  UNCHANGED loop \/ \E d \in Conns : connState[d] = "none" /\ loop' = [loop EXCEPT ![d] = "select"]
  <2>1. UNCHANGED loop \/ Create(h)
        BY <1>a DEF CallerStep, CallStep, Goto, Subscribe, Unsubscribe, Expire, Lookup, List,
           CreateFails, MetadataGone, Track, Register, SendQueues, SendFails, Confirm, WaitActive,
           WaitExpires, CheckPending, CheckState, Activate, SendCleanup, Untrack, Unregister,
           Abort, UnsubCheck, UnsubCount, UnsubUntrack, UnsubPhase1, UnsubQueues, UnsubSendFails,
           UnsubClean, UnsubWait, UnsubRemove
  <2> QED BY <2>1 DEF Create
<1>b. ASSUME NEW c \in Conns PROVE TakenOnce(c)'
  <2>0. TakenOnce(c)
        BY DEF InOrder
  <2>1. ASSUME NEW d \in Conns, LoopStep(d) \/ Break(d) PROVE TakenOnce(c)'
    <3>1. CASE c = d
          BY <2>0, <2>1, <3>1, LoopTakesOnce
    <3>2. CASE c # d
      <4>1. loop'[c] = loop[c] /\ loopSub'[c] = loopSub[c] /\ loopTodo'[c] = loopTodo[c]
            BY <2>1, <3>2, LoopOthers
      <4> QED BY <2>0, <4>1 DEF TakenOnce
    <3> QED BY <3>1, <3>2
  <2>2. ASSUME NEW h \in Handles, CallerStep(h) PROVE TakenOnce(c)'
    <3>1. UNCHANGED <<loopSub, loopTodo>>
          BY <2>2, CallerOthers
    <3> QED BY <1>a, <2>0, <2>2, <3>1 DEF TakenOnce, TypeOK, LoopTypes
  <2>3. CASE UNCHANGED <<loop, loopSub, loopTodo>>
        BY <2>0, <2>3 DEF TakenOnce
  <2> QED BY <2>1, <2>2, <2>3, CloseOthers, PublishOthers DEF Next, CallerStep, vars
<1>1. ASSUME NEW c \in Conns PROVE InboxInOrder(c)'
  <2>0. InboxInOrder(c)
        BY DEF InOrder
  <2>1. CASE UNCHANGED <<loopMsg, inbox, published>>
        BY <2>0, <2>1 DEF InboxInOrder
  <2>2. ASSUME NEW d \in Conns, LoopStep(d) \/ Break(d) PROVE InboxInOrder(c)'
    <3>1. CASE c = d
          BY <1>0, <2>0, <2>2, <3>1, LoopKeepsInbox
    <3>2. CASE c # d
      <4>1. inbox'[c] = inbox[c] /\ loopMsg'[c] = loopMsg[c]
            BY <2>2, <3>2, LoopOthers
      <4>2. UNCHANGED published
            BY <2>2, LoopInbox DEF LoopReceivesMessage
      <4> QED BY <2>0, <4>1, <4>2 DEF InboxInOrder
    <3> QED BY <3>1, <3>2
  <2>3. ASSUME NEW type \in Types, NEW ch \in Channels, Publish(type, ch) PROVE InboxInOrder(c)'
        BY <1>0, <2>0, <2>3, PublishKeepsInbox
  <2> QED BY <2>1, <2>2, <2>3, CallerOthers, CloseOthers DEF Next, CallerStep, vars
<1>2. ASSUME NEW s \in Alive' PROVE HandedOver(s)'
  <2>1. CASE s \in Alive
    <3>0. s \in Subs /\ HandedOver(s) /\ pubsub[s] \in Conns
          BY <2>1 DEF InOrder, Alive, Homes
    <3>1. ASSUME NEW c \in Conns, LoopStep(c) \/ Break(c) PROVE HandedOver(s)'
      <4>1. InboxInOrder(c) /\ TakenOnce(c)
            BY DEF InOrder
      <4> QED BY <2>1, <3>0, <3>1, <4>1, LoopKeepsHandedOver
    <3>2. ASSUME NEW h \in Handles, CallerStep(h) PROVE HandedOver(s)'
      <4>1. UNCHANGED <<loopMsg, loopSub, loopTodo, delivered>>
            BY <3>2, CallerOthers
      <4>2. loop'[pubsub[s]] = loop[pubsub[s]]
        <5>1. connState[pubsub[s]] # "none"
              BY <2>1 DEF Homes
        <5> QED BY <1>a, <3>0, <3>2, <5>1 DEF TypeOK, LoopTypes
      <4>3. pubsub'[s] = pubsub[s]
            BY <2>1, HomeStays
      <4> QED BY <3>0, <4>1, <4>2, <4>3, HandedOverFrame DEF SignalOwed, MessageOwed, Owed
    <3>3. CASE UNCHANGED <<delivered, pubsub, loopMsg, loop, loopSub, loopTodo>>
          BY <3>0, <3>3, HandedOverFrame DEF SignalOwed, MessageOwed, Owed
    <3> QED BY <3>1, <3>2, <3>3, CloseOthers, PublishOthers DEF Next, CallerStep, vars
  <2>2. CASE s \notin Alive
    <3>1. PICK h \in Handles : Track(h)
          BY <2>2, WhoIsCreated
    <3>2. delivered'[s] = delivered[s] /\ s \in Subs
          BY <1>2, <3>1 DEF Track, Alive
    <3>3. delivered'[s] = <<>>
          BY <2>2, <3>2 DEF NotYet
    <3>4. DOMAIN delivered'[s] = {}
          BY <3>3
    <3> QED BY <3>4 DEF HandedOver, Rising
  <2> QED BY <2>1, <2>2
<1> QED BY <1>b, <1>1, <1>2 DEF InOrder

-----------------------------------------------------------------------------
(* Who stands behind a pending entry *)

\* closed is never reset.
LEMMA CloseFlagStep == ASSUME CloseFlag, [Next]_vars PROVE CloseFlag'
<1>1. ASSUME NEW h \in Handles, CallerStep(h) PROVE UNCHANGED <<closed, closePc>>
      BY <1>1 DEF CallerStep, CallStep, Goto, Subscribe, Unsubscribe, Expire, Lookup, Create,
         List, CreateFails, MetadataGone, Track, Register, SendQueues, SendFails, Confirm,
         WaitActive, WaitExpires, CheckPending, CheckState, Activate, SendCleanup, Untrack,
         Unregister, Abort, UnsubCheck, UnsubCount, UnsubUntrack, UnsubPhase1, UnsubQueues,
         UnsubSendFails, UnsubClean, UnsubWait, UnsubRemove
<1>2. ASSUME NEW c \in Conns, LoopStep(c) \/ Break(c) PROVE UNCHANGED <<closed, closePc>>
      BY <1>2 DEF LoopStep, LoopSends, LoopSendFails, LoopFailsSub, LoopLosesChannel,
         LoopMarksFailed, LoopSnapshots, LoopNotifies, LoopSignals, LoopReceivesConfirmation,
         LoopConfirms, LoopUnpends, LoopReceivesMessage, LoopDispatches, LoopHandsOver, LoopStops,
         LoopDrains, LoopClosesLoopDone, LoopExits, LoopRetires, LoopRemovesConn,
         LoopCleansZombies, Break
<1>3. CASE CloseBegins \/ CloseStep
      BY <1>3 DEF CloseFlag, CloseBegins, CloseStep, CloseMarks, CloseTakesPool, CloseConnection,
         CloseJoins, CloseClears
<1>4. CASE UNCHANGED <<closed, closePc>>
      BY <1>4 DEF CloseFlag
<1> QED BY <1>1, <1>2, <1>3, <1>4, PublishOthers DEF Next, CallerStep, vars

\* Until Close begins, only callers, loops and Redis act.
LEMMA OpenSteps ==
  ASSUME CloseFlag, [Next]_vars, ~closed'
  PROVE  /\ ~closed
         /\ \/ \E h \in Handles : CallerStep(h)
            \/ \E c \in Conns : LoopStep(c) \/ Break(c)
            \/ \E type \in Types, ch \in Channels : Publish(type, ch)
            \/ UNCHANGED vars
<1>1. ~closed
  <2>1. ASSUME NEW h \in Handles, CallerStep(h) PROVE UNCHANGED closed
        BY <2>1 DEF CallerStep, CallStep, Goto, Subscribe, Unsubscribe, Expire, Lookup, Create,
           List, CreateFails, MetadataGone, Track, Register, SendQueues, SendFails, Confirm,
           WaitActive, WaitExpires, CheckPending, CheckState, Activate, SendCleanup, Untrack,
           Unregister, Abort, UnsubCheck, UnsubCount, UnsubUntrack, UnsubPhase1, UnsubQueues,
           UnsubSendFails, UnsubClean, UnsubWait, UnsubRemove
  <2>2. ASSUME NEW c \in Conns, LoopStep(c) \/ Break(c) PROVE UNCHANGED closed
        BY <2>2 DEF LoopStep, LoopSends, LoopSendFails, LoopFailsSub, LoopLosesChannel,
           LoopMarksFailed, LoopSnapshots, LoopNotifies, LoopSignals, LoopReceivesConfirmation,
           LoopConfirms, LoopUnpends, LoopReceivesMessage, LoopDispatches, LoopHandsOver,
           LoopStops, LoopDrains, LoopClosesLoopDone, LoopExits, LoopRetires, LoopRemovesConn,
           LoopCleansZombies, Break
  <2>3. CASE CloseBegins \/ CloseStep
        BY <2>3 DEF CloseBegins, CloseStep, CloseMarks, CloseTakesPool, CloseConnection,
           CloseJoins, CloseClears
  <2> QED BY <2>1, <2>2, <2>3, PublishOthers DEF Next, CallerStep, vars
<1>2. ~CloseBegins /\ ~CloseStep
      BY <1>1 DEF CloseFlag, CloseBegins, CloseStep, CloseMarks, CloseTakesPool, CloseConnection,
         CloseJoins, CloseClears
<1> QED BY <1>1, <1>2 DEF Next, CallerStep

\* A step of a caller leaves every loop that exists where it is.
LEMMA CallerLoops ==
  ASSUME TypeOK, Homes, NEW h \in Handles, CallerStep(h), NEW c \in Conns
  PROVE  /\ loopSub'[c] = loopSub[c]
         /\ loop'[c] = loop[c] \/ (loop[c] = "off" /\ loop'[c] = "select")
<1>1. UNCHANGED loop \/ Create(h)
      BY DEF CallerStep, CallStep, Goto, Subscribe, Unsubscribe, Expire, Lookup, List,
         CreateFails, MetadataGone, Track, Register, SendQueues, SendFails, Confirm, WaitActive,
         WaitExpires, CheckPending, CheckState, Activate, SendCleanup, Untrack, Unregister, Abort,
         UnsubCheck, UnsubCount, UnsubUntrack, UnsubPhase1, UnsubQueues, UnsubSendFails,
         UnsubClean, UnsubWait, UnsubRemove
<1> QED BY <1>1, CallerOthers DEF Create, TypeOK, LoopTypes, Homes

\* A loop that is about to clear a pending entry does that next.
LEMMA UnpendStays ==
  ASSUME TypeOK, Homes, [Next]_vars, NEW c \in Conns, loop[c] = "unpend", ~LoopUnpends(c)
  PROVE  loop'[c] = "unpend" /\ loopSub'[c] = loopSub[c]
<1>1. ASSUME NEW h \in Handles, CallerStep(h)
      PROVE  loop'[c] = "unpend" /\ loopSub'[c] = loopSub[c]
      BY <1>1, CallerLoops
<1>2. ASSUME NEW d \in Conns, LoopStep(d) \/ Break(d)
      PROVE  loop'[c] = "unpend" /\ loopSub'[c] = loopSub[c]
  <2>1. CASE c # d
        BY <1>2, <2>1, LoopOthers
  <2>2. CASE c = d
    <3>1. Break(c)
          BY <1>2, <2>2 DEF LoopStep, LoopSends, LoopSendFails, LoopFailsSub, LoopLosesChannel,
             LoopMarksFailed, LoopSnapshots, LoopNotifies, LoopSignals, LoopReceivesConfirmation,
             LoopConfirms, LoopReceivesMessage, LoopDispatches, LoopHandsOver, LoopStops,
             LoopDrains, LoopClosesLoopDone, LoopExits, LoopRetires, LoopRemovesConn,
             LoopCleansZombies
    <3> QED BY <3>1 DEF Break
  <2> QED BY <2>1, <2>2
<1>3. CASE UNCHANGED <<loop, loopSub>>
      BY <1>3
<1> QED BY <1>1, <1>2, <1>3, CloseOthers, PublishOthers DEF Next, CallerStep, vars

\* A pending entry is made by the caller that registers first.
LEMMA PendingFrom ==
  ASSUME TypeOK, Placed, AllAlive, Homes, [Next]_vars, NEW c \in Conns, NEW ch \in Channels,
         pending'[c][ch] # NoSub
  PROVE  \/ pending'[c][ch] = pending[c][ch]
         \/ \E h \in Handles : /\ Register(h) /\ pc'[h] = "send" /\ UNCHANGED <<idx, pubsub>>
                               /\ pending'[c][ch] = Cur(h) /\ c = CurConn(h) /\ ch = CurChannel(h)
<1>1. ASSUME NEW h \in Handles, CallerStep(h)
      PROVE  \/ pending'[c][ch] = pending[c][ch]
             \/ /\ Register(h) /\ pc'[h] = "send" /\ UNCHANGED <<idx, pubsub>>
                /\ pending'[c][ch] = Cur(h) /\ c = CurConn(h) /\ ch = CurChannel(h)
  <2>1. CASE Register(h)
        BY <2>1, RegisterEffect
  <2>2. ASSUME NEW d \in Conns, NEW S, RemoveFromMeta(d, S) PROVE pending'[c][ch] = pending[c][ch]
        BY <2>2 DEF RemoveFromMeta, TypeOK, MetaTypes
  <2>3. CASE SendCleanup(h)
        BY <2>3, CleanupEffect, DropEffect
  <2>4. Unregister(h) => CurConn(h) \in Conns
        BY UnregisterEffect
  <2>5. UnsubClean(h) \/ UnsubRemove(h) => UnsubConn(h) \in Conns
        BY UnsubConnTypes DEF UnsubClean, UnsubRemove
  <2> QED BY <1>1, <2>1, <2>2, <2>3, <2>4, <2>5, CallerMeta
<1>2. ASSUME NEW d \in Conns, LoopStep(d) \/ Break(d) PROVE pending'[c][ch] = pending[c][ch]
  <2>1. UNCHANGED pending \/ \E x \in Channels : DropPending(d, x)
        BY <1>2, LoopPending DEF LoopUnpends
  <2> QED BY <2>1, DropEffect
<1>3. CASE UNCHANGED pending
      BY <1>3
<1> QED BY <1>1, <1>2, <1>3, CloseOthers, PublishOthers DEF Next, CallerStep, vars

\* A caller that comes to register, or waits there.
LEMMA RegisterReached ==
  ASSUME TypeOK, NEW h \in Handles, CallerStep(h), pc'[h] = "register"
  PROVE  Track(h) \/ (Expire(h) /\ pc[h] = "register")
<1> USE DEF Go, Goto
<1>0. CallTypes
      BY DEF TypeOK
<1>1. CASE Subscribe(h) \/ Unsubscribe(h) \/ Expire(h) \/ Lookup(h) \/ Create(h) \/ List(h)
             \/ CreateFails(h)
             \/ MetadataGone(h) \/ Track(h) \/ Register(h)
      BY <1>0, <1>1 DEF CallTypes, Subscribe, Unsubscribe, Expire, Lookup, Create, List,
         CreateFails, MetadataGone, Track, Register, RegisterDecision
<1>2. CASE SendQueues(h) \/ SendFails(h) \/ Confirm(h) \/ WaitActive(h) \/ WaitExpires(h)
             \/ CheckPending(h) \/ CheckState(h) \/ Activate(h) \/ SendCleanup(h) \/ Untrack(h)
             \/ Unregister(h) \/ Abort(h)
      BY <1>0, <1>2 DEF CallTypes, SendQueues, SendFails, Confirm, WaitActive, WaitExpires,
         CheckPending, CheckState, Activate, SendCleanup, Untrack, Unregister, Abort, Advance
<1>3. CASE UnsubCheck(h) \/ UnsubCount(h) \/ UnsubUntrack(h) \/ UnsubPhase1(h) \/ UnsubQueues(h)
             \/ UnsubSendFails(h) \/ UnsubClean(h) \/ UnsubWait(h) \/ UnsubRemove(h)
      BY <1>0, <1>3 DEF CallTypes, UnsubCheck, UnsubCount, UnsubUntrack, UnsubPhase1, UnsubQueues,
         UnsubSendFails, UnsubClean, UnsubWait, UnsubRemove, Ended
<1> QED BY <1>1, <1>2, <1>3 DEF CallerStep, CallStep

\* A subscription is registered by its own caller only.
LEMMA UnregisteredStep ==
  ASSUME TypeOK, Placed, AllAlive, NotYet, Homes, PendingRegistered, [Next]_vars,
         NEW h \in Handles, Unregistered(h)
  PROVE  Unregistered(h)'
<1> SUFFICES ASSUME pc'[h] = "register", NEW c \in Conns
             PROVE  /\ Cur(h)' \notin subscriptions'[c]
                    /\ loop'[c] = "confirm" => loopSub'[c] # Cur(h)'
    BY DEF Unregistered
<1>1. CASE Track(h)
  <2>1. /\ UNCHANGED <<idx, subscriptions, loop, loopSub>> /\ pc[h] = "track"
        BY <1>1 DEF Track
  <2>2. Cur(h) \notin Alive
    <3>1. idx[h] \in 1..Len(SubsOf[h])
          BY <2>1 DEF TypeOK, CallTypes, Placed, PlacedAt
    <3> QED BY <2>1, <3>1 DEF NotYet, Early, Cur
  <2>3. Cur(h)' = Cur(h)
        BY <2>1 DEF Cur
  <2> QED BY <2>1, <2>2, <2>3 DEF AllAlive, ConnAlive
<1>2. CASE ~Track(h)
  <2>1. pc[h] = "register" /\ idx'[h] = idx[h]
    <3>1. CASE CallerStep(h)
          BY <1>2, <3>1, RegisterReached DEF Expire
    <3>2. CASE ~CallerStep(h)
          BY <3>2, CallerOthers, OthersMove
    <3> QED BY <3>1, <3>2
  <2>2. Cur(h)' = Cur(h) /\ Cur(h) \notin subscriptions[c] /\ (loop[c] = "confirm" => loopSub[c] # Cur(h))
        BY <2>1 DEF Cur, Unregistered
  <2>3. ASSUME NEW g \in Handles, CallerStep(g)
        PROVE  Cur(h) \notin subscriptions'[c] /\ (loop'[c] = "confirm" => loopSub'[c] # Cur(h))
    <3>1. loop'[c] = "confirm" => loopSub'[c] # Cur(h)
          BY <2>2, <2>3, CallerLoops
    <3>2. Register(g) => Cur(g) # Cur(h)
      <4>1. ASSUME Register(g) PROVE g # h /\ pc[g] = "register"
        <5>1. pc[g] = "register" /\ pc'[g] \in {"waitActive", "send", "activate"}
              BY <4>1, RegisterEffect DEF RegisterDecision
        <5> QED BY <5>1
      <4> QED BY <2>1, <4>1, CurDistinct DEF CreatedPcs
    <3> QED BY <2>2, <2>3, <3>1, <3>2, CallerRegisters
  <2>4. ASSUME NEW d \in Conns, LoopStep(d) \/ Break(d)
        PROVE  Cur(h) \notin subscriptions'[c] /\ (loop'[c] = "confirm" => loopSub'[c] # Cur(h))
    <3>1. UNCHANGED subscriptions /\ (c # d => loop'[c] = loop[c] /\ loopSub'[c] = loopSub[c])
          BY <2>4, LoopOthers
    <3>2. CASE c = d /\ loop'[c] = "confirm"
      <4>1. \/ loop[c] = "confirm" /\ loopSub'[c] = loopSub[c]
            \/ loopSub'[c] # NoSub /\ \E ch \in Channels : loopSub'[c] = pending[c][ch]
            BY <2>4, <3>2, LoopTakes
      <4> QED BY <2>2, <3>1, <4>1 DEF PendingRegistered
    <3> QED BY <2>2, <3>1, <3>2
  <2>5. CASE UNCHANGED <<subscriptions, loop, loopSub>>
        BY <2>2, <2>5
  <2> QED BY <2>2, <2>3, <2>4, <2>5, CloseOthers, PublishOthers DEF Next, CallerStep, vars
<1> QED BY <1>1, <1>2

\* Until Close begins, the confirmation of a subscription whose caller is inside
\* subscribeToChannel becomes "nil" by the loop that confirms it, or by the
\* caller's own setState.
LEMMA NilFrom ==
  ASSUME TypeOK, Placed, AllAlive, Homes, CloseFlag, [Next]_vars, ~closed',
         NEW h \in Handles, pc[h] \in CreatedPcs, pc[h] # "activate",
         confirmCh'[Cur(h)] = "nil", confirmCh[Cur(h)] # "nil"
  PROVE  \E c \in Conns : LoopConfirms(c) /\ loopSub[c] = Cur(h)
<1> DEFINE s == Cur(h)
<1>0. s \in Subs /\ confirmCh \in [Subs -> {"empty", "nil", "err"}] /\ idx[h] <= Len(SubsOf[h])
      BY CurTypes DEF TypeOK, SubTypes, Placed, PlacedAt, CreatedPcs
<1>1. ASSUME NEW g \in Handles, CallerStep(g) PROVE FALSE
  <2>1. CASE Activate(g)
    <3>1. pc[g] = "activate" /\ confirmCh' = Confirmed(Cur(g), "nil")
          BY <2>1 DEF Activate, SetState
    <3>2. Cur(g) # s
      <4>1. g # h /\ pc[g] \in CreatedPcs
            BY <3>1 DEF CreatedPcs
      <4> QED BY <4>1, CurDistinct
    <3> QED BY <1>0, <3>1, <3>2 DEF Confirmed
  <2>2. CASE UnsubPhase1(g)
    <3>1. s \notin Appended(g)
          BY <1>0, CurNotAppended
    <3>2. UNCHANGED confirmCh \/ \E ch : SetClosed(OnChannel(Appended(g), ch))
          BY <2>2 DEF UnsubPhase1
    <3> QED BY <1>0, <3>1, <3>2 DEF SetClosed, OnChannel
  <2>3. CASE Confirm(g)
        BY <1>0, <2>3 DEF Confirm
  <2>4. CASE ~(Activate(g) \/ UnsubPhase1(g) \/ Confirm(g))
    <3>1. UNCHANGED confirmCh
          BY <1>1, <2>4 DEF CallerStep, CallStep, Goto, Subscribe, Unsubscribe, Expire, Lookup,
             Create, List, CreateFails, MetadataGone, Track, Register, SendQueues, SendFails,
             WaitActive, WaitExpires, CheckPending, CheckState, SendCleanup, Untrack, Unregister,
             Abort, UnsubCheck, UnsubCount, UnsubUntrack, UnsubQueues, UnsubSendFails, UnsubClean,
             UnsubWait, UnsubRemove
    <3> QED BY <3>1
  <2> QED BY <2>1, <2>2, <2>3, <2>4
<1>2. ASSUME NEW c \in Conns, LoopStep(c) \/ Break(c) PROVE LoopConfirms(c) /\ loopSub[c] = s
  <2>1. CASE LoopConfirms(c)
    <3>1. confirmCh' = Confirmed(loopSub[c], "nil")
          BY <2>1 DEF LoopConfirms, SetState
    <3>2. loopSub[c] = s
          BY <1>0, <3>1 DEF Confirmed
    <3> QED BY <2>1, <3>2
  <2>2. CASE LoopFailsSub(c) \/ LoopNotifies(c)
    <3>1. UNCHANGED confirmCh \/ \E t : confirmCh' = Confirmed(t, "err")
          BY <2>2 DEF LoopFailsSub, LoopNotifies, SetState
    <3> QED BY <1>0, <3>1 DEF Confirmed
  <2>3. CASE ~(LoopConfirms(c) \/ LoopFailsSub(c) \/ LoopNotifies(c))
    <3>1. UNCHANGED confirmCh
          BY <1>2, <2>3 DEF LoopStep, LoopSends, LoopSendFails, LoopLosesChannel, LoopMarksFailed,
             LoopSnapshots, LoopSignals, LoopReceivesConfirmation, LoopUnpends,
             LoopReceivesMessage, LoopDispatches, LoopHandsOver, LoopStops, LoopDrains,
             LoopClosesLoopDone, LoopExits, LoopRetires, LoopRemovesConn, LoopCleansZombies, Break
    <3> QED BY <3>1
  <2> QED BY <2>1, <2>2, <2>3
<1>3. CASE UNCHANGED confirmCh
      BY <1>3
<1> QED BY <1>1, <1>2, <1>3, OpenSteps, PublishOthers DEF vars

\* The caller whose SUBSCRIBE was confirmed, up to CheckState.
Acknowledged(h) ==
  (pc[h] \in {"send", "confirm"} /\ confirmCh[Cur(h)] = "nil") \/ pc[h] = "checkState"

\* A caller comes to these places from register, or from one of them.
LEMMA AcknowledgedFrom ==
  ASSUME TypeOK, NEW h \in Handles, CallerStep(h), pc'[h] \in {"send", "confirm", "checkState"}
  PROVE  \/ Register(h)
         \/ Confirm(h) /\ pc[h] = "confirm" /\ confirmCh[Cur(h)] = "nil" /\ idx'[h] = idx[h]
              /\ pc'[h] = "checkState"
         \/ /\ pc[h] \in {"send", "confirm"} /\ pc'[h] \in {"send", "confirm"} /\ idx'[h] = idx[h]
            /\ UNCHANGED confirmCh
<1> USE DEF Go, Goto
<1>0. CallTypes
      BY DEF TypeOK
<1>1. CASE Subscribe(h) \/ Unsubscribe(h) \/ Expire(h) \/ Lookup(h) \/ Create(h) \/ List(h)
             \/ CreateFails(h)
             \/ MetadataGone(h) \/ Track(h)
      BY <1>0, <1>1 DEF CallTypes, Subscribe, Unsubscribe, Expire, Lookup, Create, List,
         CreateFails, MetadataGone, Track
<1>2. CASE SendQueues(h) \/ SendFails(h) \/ Confirm(h) \/ WaitActive(h) \/ WaitExpires(h)
             \/ CheckPending(h) \/ CheckState(h) \/ Activate(h) \/ SendCleanup(h) \/ Untrack(h)
             \/ Unregister(h) \/ Abort(h)
      BY <1>0, <1>2 DEF CallTypes, SendQueues, SendFails, Confirm, WaitActive, WaitExpires,
         CheckPending, CheckState, Activate, SendCleanup, Untrack, Unregister, Abort, Advance
<1>3. CASE UnsubCheck(h) \/ UnsubCount(h) \/ UnsubUntrack(h) \/ UnsubPhase1(h) \/ UnsubQueues(h)
             \/ UnsubSendFails(h) \/ UnsubClean(h) \/ UnsubWait(h) \/ UnsubRemove(h)
      BY <1>0, <1>3 DEF CallTypes, UnsubCheck, UnsubCount, UnsubUntrack, UnsubPhase1, UnsubQueues,
         UnsubSendFails, UnsubClean, UnsubWait, UnsubRemove, Ended
<1> QED BY <1>1, <1>2, <1>3 DEF CallerStep, CallStep

\* A caller that was told nil finds its pending entry gone, or going.
LEMMA ConfirmingStep ==
  ASSUME TypeOK, Placed, AllAlive, NotYet, Homes, PendingRegistered, CloseFlag, [Next]_vars, ~closed',
         NEW h \in Handles, Unregistered(h), Confirming(h)
  PROVE  Confirming(h)'
<1>0. TypeOK' /\ Placed' /\ AllAlive'
      BY TypeStep, PlacedStep, AliveStep
<1>1. ASSUME pc'[h] = "register" PROVE confirmCh'[Cur(h)'] # "nil"
  <2>1. CASE Track(h)
    <3>1. UNCHANGED <<idx, confirmCh>> /\ pc[h] = "track"
          BY <2>1 DEF Track
    <3>2. idx[h] \in 1..Len(SubsOf[h]) /\ Cur(h) \in Subs
          BY <3>1, CurTypes DEF TypeOK, CallTypes, Placed, PlacedAt
    <3>3. confirmCh[Cur(h)] = "empty"
          BY <3>1, <3>2 DEF NotYet, Early, Cur
    <3> QED BY <3>1, <3>3 DEF Cur
  <2>2. CASE ~Track(h)
    <3>1. pc[h] = "register" /\ idx'[h] = idx[h]
      <4>1. CASE CallerStep(h)
            BY <1>1, <2>2, <4>1, RegisterReached DEF Expire
      <4>2. CASE ~CallerStep(h)
            BY <1>1, <4>2, CallerOthers, OthersMove
      <4> QED BY <4>1, <4>2
    <3>2. Cur(h)' = Cur(h) /\ confirmCh[Cur(h)] # "nil" /\ pc[h] \in CreatedPcs
          BY <3>1 DEF Cur, Confirming, CreatedPcs
    <3>3. ~ \E c \in Conns : LoopConfirms(c) /\ loopSub[c] = Cur(h)
          BY <3>1 DEF Unregistered, LoopConfirms
    <3> QED BY <3>1, <3>2, <3>3, NilFrom
  <2> QED BY <2>1, <2>2
<1>2. ASSUME Acknowledged(h)', pending'[CurConn(h)'][CurChannel(h)'] = Cur(h)'
      PROVE  loop'[CurConn(h)'] = "unpend" /\ loopSub'[CurConn(h)'] = Cur(h)'
  <2>0. pc'[h] \in {"send", "confirm", "checkState"}
        BY <1>2 DEF Acknowledged
  <2>1. CASE Register(h)
    <3>1. pc[h] = "register" /\ pc'[h] = "send" /\ UNCHANGED <<idx, confirmCh>>
      <4>1. pc'[h] \in {"waitActive", "send", "activate"}
            BY <2>1, RegisterEffect DEF RegisterDecision
      <4> QED BY <2>0, <2>1, <4>1 DEF Register
    <3>2. confirmCh'[Cur(h)'] # "nil"
          BY <3>1 DEF Confirming, Cur
    <3> QED BY <1>2, <3>1, <3>2 DEF Acknowledged
  <2>2. CASE ~Register(h)
    <3>1. /\ pc[h] \in {"send", "confirm", "checkState"} /\ idx'[h] = idx[h]
          /\ pc'[h] = "checkState" => Acknowledged(h)
          /\ pc'[h] # "checkState" => pc[h] \in {"send", "confirm"}
      <4>1. CASE CallerStep(h)
            BY <2>0, <2>2, <4>1, AcknowledgedFrom DEF Acknowledged
      <4>2. CASE ~CallerStep(h)
        <5>1. pc'[h] = pc[h] /\ idx'[h] = idx[h]
              BY <4>2, CallerOthers, OthersMove
        <5> QED BY <2>0, <5>1 DEF Acknowledged
      <4> QED BY <4>1, <4>2
    <3>2. Cur(h)' = Cur(h) /\ CurChannel(h)' = CurChannel(h) /\ pc[h] \in CreatedPcs
          BY <3>1 DEF Cur, CurChannel, CreatedPcs
    <3>3. Cur(h) \in Alive /\ CurConn(h) \in Conns /\ CurChannel(h) \in Channels /\ Cur(h) \in Subs
          BY <3>2, CurTypes DEF AllAlive, CallAlive, Placed, PlacedAt
    <3>4. CurConn(h)' = CurConn(h)
          BY <3>2, <3>3, HomeStays DEF CurConn
    <3>5. pending[CurConn(h)][CurChannel(h)] = Cur(h)
      <4>1. ASSUME NEW g \in Handles, Register(g), Cur(g) = Cur(h) PROVE FALSE
        <5>1. pc[g] = "register" /\ g # h
              BY <2>2, <4>1 DEF Register
        <5> QED BY <3>2, <4>1, <5>1, CurDistinct DEF CreatedPcs
      <4>2. pending'[CurConn(h)][CurChannel(h)] = Cur(h) /\ Cur(h) # NoSub
            BY <1>2, <3>2, <3>3, <3>4, SubMuxAssumption
      <4> QED BY <3>3, <4>1, <4>2, PendingFrom
    <3>6. CASE Acknowledged(h)
      <4>1. loop[CurConn(h)] = "unpend" /\ loopSub[CurConn(h)] = Cur(h)
            BY <3>5, <3>6 DEF Confirming, Acknowledged, BeingUnpended
      <4>2. ~LoopUnpends(CurConn(h))
        <5>1. ASSUME LoopUnpends(CurConn(h)) PROVE FALSE
          <6>1. DropPending(CurConn(h), CurChannel(h))
                BY <4>1, <5>1 DEF LoopUnpends, CurChannel
          <6>2. pending'[CurConn(h)][CurChannel(h)] = NoSub
                BY <3>3, <6>1, DropEffect
          <6> QED BY <1>2, <3>2, <3>3, <3>4, <6>2, SubMuxAssumption
        <5> QED BY <5>1
      <4>3. loop'[CurConn(h)] = "unpend" /\ loopSub'[CurConn(h)] = Cur(h)
            BY <3>3, <4>1, <4>2, UnpendStays
      <4> QED BY <3>2, <3>4, <4>3
    <3>7. CASE ~Acknowledged(h)
      <4>1. confirmCh[Cur(h)] # "nil" /\ confirmCh'[Cur(h)] = "nil" /\ pc[h] \in {"send", "confirm"}
            BY <1>2, <3>1, <3>2, <3>7 DEF Acknowledged
      <4>2. PICK c \in Conns : LoopConfirms(c) /\ loopSub[c] = Cur(h)
            BY <3>2, <4>1, NilFrom
      <4>3. c = CurConn(h)
            BY <4>2 DEF LoopConfirms, Homes, CurConn
      <4>4. loop'[c] = "unpend" /\ loopSub'[c] = Cur(h)
            BY <4>2 DEF LoopConfirms, LoopTo, TypeOK, LoopTypes
      <4> QED BY <3>2, <3>4, <4>3, <4>4
    <3> QED BY <3>6, <3>7
  <2> QED BY <2>1, <2>2
<1>3. Acknowledged(h)' => BeingUnpended(h)'
      BY <1>2 DEF BeingUnpended
<1> QED BY <1>1, <1>3 DEF Confirming, Acknowledged

\* The places of a caller that owns a pending entry.
OwnerPcs == {"send", "confirm", "checkState", "dropPending", "untrack", "unregister"}

\* The owner of a pending entry keeps it until it gives up or returns.
LEMMA OwnerMoves ==
  ASSUME TypeOK, NEW h \in Handles, CallerStep(h), pc[h] \in OwnerPcs
  PROVE  (pc'[h] \in OwnerPcs /\ idx'[h] = idx[h]) \/ Unregister(h) \/ CheckState(h)
<1> USE DEF Go, Goto, OwnerPcs
<1>0. CallTypes
      BY DEF TypeOK
<1>1. CASE Subscribe(h) \/ Unsubscribe(h) \/ Expire(h) \/ Lookup(h) \/ Create(h) \/ List(h)
             \/ CreateFails(h)
             \/ MetadataGone(h) \/ Track(h) \/ Register(h)
      BY <1>0, <1>1 DEF CallTypes, Subscribe, Unsubscribe, Expire, Lookup, Create, List,
         CreateFails, MetadataGone, Track, Register
<1>2. CASE SendQueues(h) \/ SendFails(h) \/ Confirm(h) \/ WaitActive(h) \/ WaitExpires(h)
             \/ CheckPending(h) \/ CheckState(h) \/ Activate(h) \/ SendCleanup(h) \/ Untrack(h)
             \/ Unregister(h) \/ Abort(h)
      BY <1>0, <1>2 DEF CallTypes, SendQueues, SendFails, Confirm, WaitActive, WaitExpires,
         CheckPending, Activate, SendCleanup, Untrack, Abort
<1>3. CASE UnsubCheck(h) \/ UnsubCount(h) \/ UnsubUntrack(h) \/ UnsubPhase1(h) \/ UnsubQueues(h)
             \/ UnsubSendFails(h) \/ UnsubClean(h) \/ UnsubWait(h) \/ UnsubRemove(h)
      BY <1>0, <1>3 DEF UnsubCheck, UnsubCount, UnsubUntrack, UnsubPhase1, UnsubQueues,
         UnsubSendFails, UnsubClean, UnsubWait, UnsubRemove
<1> QED BY <1>1, <1>2, <1>3 DEF CallerStep, CallStep

\* Every step leaves each pending entry with an owner.
LEMMA OwnerStep ==
  ASSUME TypeOK, Placed, AllAlive, NotYet, Homes, PendingRegistered, CloseFlag, [Next]_vars, ~closed',
         \A h \in Handles : Confirming(h), PendingHasOwner, PendingRegistered',
         NEW c \in Conns, NEW ch \in Channels, pending'[c][ch] # NoSub
  PROVE  \/ loop'[c] = "unpend" /\ loopSub'[c] = pending'[c][ch]
         \/ \E h \in Handles : pc'[h] \in OwnerPcs /\ Cur(h)' = pending'[c][ch]
<1> DEFINE s == pending'[c][ch]
<1>1. ASSUME NEW h \in Handles, Register(h), s = Cur(h), pc'[h] = "send", UNCHANGED <<idx, pubsub>>
      PROVE  pc'[h] \in OwnerPcs /\ Cur(h)' = s
      BY <1>1 DEF OwnerPcs, Cur
<1>2. CASE pending[c][ch] = s
  <2>0. s \in subscriptions[c] /\ ChannelOf[s] = ch /\ pubsub[s] = c /\ s \in Subs
        BY <1>2 DEF PendingRegistered, Homes, TypeOK, MetaTypes
  <2>1. CASE loop[c] = "unpend" /\ loopSub[c] = s
    <3>1. ~LoopUnpends(c)
      <4>1. ASSUME LoopUnpends(c) PROVE FALSE
        <5>1. DropPending(c, ch)
              BY <2>0, <2>1, <4>1 DEF LoopUnpends
        <5> QED BY <5>1, DropEffect
      <4> QED BY <4>1
    <3> QED BY <2>1, <3>1, UnpendStays
  <2>2. ASSUME NEW h \in Handles, pc[h] \in OwnerPcs, Cur(h) = s
        PROVE  \/ loop'[c] = "unpend" /\ loopSub'[c] = s
               \/ pc'[h] \in OwnerPcs /\ Cur(h)' = s
    <3>1. CASE ~CallerStep(h)
      <4>1. pc'[h] = pc[h] /\ idx'[h] = idx[h]
            BY <3>1, CallerOthers, OthersMove
      <4> QED BY <2>2, <4>1 DEF Cur
    <3>2. CASE CallerStep(h) /\ pc'[h] \in OwnerPcs /\ idx'[h] = idx[h]
          BY <2>2, <3>2 DEF Cur
    <3>3. CASE Unregister(h)
      <4>1. RemoveFromMeta(c, {s})
            BY <2>0, <2>2, <3>3 DEF Unregister, CurConn
      <4>2. pending'[c][ch] = NoSub
            BY <1>2, <4>1 DEF RemoveFromMeta, TypeOK, MetaTypes
      <4> QED BY <4>2
    <3>4. CASE CheckState(h)
      <4>1. pc[h] = "checkState" /\ UNCHANGED <<loop, loopSub>>
            BY <3>4 DEF CheckState
      <4>2. CurConn(h) = c /\ CurChannel(h) = ch
            BY <2>0, <2>2 DEF CurConn, CurChannel
      <4> QED BY <1>2, <2>2, <4>1, <4>2 DEF Confirming, BeingUnpended
    <3> QED BY <2>2, <3>1, <3>2, <3>3, <3>4, OwnerMoves
  <2>3. \/ loop[c] = "unpend" /\ loopSub[c] = s
        \/ \E h \in Handles : pc[h] \in OwnerPcs /\ Cur(h) = s
    <3>1. ~closed
          BY OpenSteps
    <3> QED BY <1>2, <3>1 DEF PendingHasOwner, OwnerPcs
  <2> QED BY <2>1, <2>2, <2>3
<1> QED BY <1>1, <1>2, PendingFrom

\* PendingHasOwner is preserved.
LEMMA PendingHasOwnerStep ==
  ASSUME TypeOK, Placed, AllAlive, NotYet, Homes, Registry, CloseFlag, PendingHasOwner, [Next]_vars
  PROVE  PendingHasOwner'
<1> SUFFICES ASSUME ~closed', NEW c \in Conns, NEW ch \in Channels, pending'[c][ch] # NoSub
             PROVE  /\ pending'[c][ch] \in subscriptions'[c] /\ ChannelOf[pending'[c][ch]] = ch
                    /\ \/ loop'[c] = "unpend" /\ loopSub'[c] = pending'[c][ch]
                       \/ \E h \in Handles : pc'[h] \in OwnerPcs /\ Cur(h)' = pending'[c][ch]
    BY DEF PendingHasOwner, OwnerPcs
<1>1. PendingRegistered' /\ PendingRegistered
      BY PendingRegisteredStep DEF Registry
<1>2. \A h \in Handles : Confirming(h)
      BY OpenSteps DEF Registry
<1> QED BY <1>1, <1>2, OwnerStep DEF PendingRegistered

\* The registry part of the invariant is preserved.
LEMMA RegistryStep ==
  ASSUME TypeOK, Placed, AllAlive, NotYet, Homes, Registry, CloseFlag, [Next]_vars
  PROVE  Registry'
<1>1. PendingRegistered'
      BY PendingRegisteredStep DEF Registry
<1>2. \A h \in Handles : Unregistered(h)'
      BY UnregisteredStep DEF Registry
<1>3. ASSUME ~closed' PROVE \A h \in Handles : Confirming(h)'
  <2>1. ~closed
        BY <1>3, OpenSteps
  <2> QED BY <1>3, <2>1, ConfirmingStep DEF Registry
<1> QED BY <1>1, <1>2, <1>3 DEF Registry

-----------------------------------------------------------------------------
(* Giving up and unsubscribing *)

\* A caller is done with a subscription once it has taken it off the registry;
\* one it never created is on none.
LEMMA GivenUpFrom ==
  ASSUME TypeOK, NEW h \in Handles, CallerStep(h), Phases(h), idx'[h] <= Len(SubsOf[h]),
         pc'[h] \in {"unregister", "abort", "failed"} \cup UnsubPcs
  PROVE  /\ idx'[h] = idx[h]
         /\ \/ Untrack(h)
            \/ Unregister(h)
            \/ pc[h] \in Early /\ UNCHANGED <<global, subscriptions>>
            \/ /\ pc[h] \in {"abort", "failed"} \cup UnsubPcs
               /\ pc'[h] \in {"abort", "failed"} \cup UnsubPcs
               /\ ~Register(h) /\ ~Track(h)
<1> USE DEF Go, Goto, UnsubPcs, Early
<1>0. CallTypes
      BY DEF TypeOK
<1>1. CASE Subscribe(h) \/ Unsubscribe(h) \/ Expire(h) \/ Lookup(h) \/ Create(h) \/ List(h)
             \/ CreateFails(h)
             \/ MetadataGone(h) \/ Track(h) \/ Register(h)
  <2>1. Len(SubsOf[h]) \in Nat /\ idx[h] \in Nat
        BY SubMuxAssumption DEF TypeOK, CallTypes
  <2> QED BY <1>0, <1>1, <2>1
             DEF CallTypes, Phases, Subscribe, Unsubscribe, Expire, Lookup, Create, List,
         CreateFails, MetadataGone, Track, Register, RegisterDecision
<1>2. CASE SendQueues(h) \/ SendFails(h) \/ Confirm(h) \/ WaitActive(h) \/ WaitExpires(h)
             \/ CheckPending(h) \/ CheckState(h) \/ Activate(h) \/ SendCleanup(h) \/ Untrack(h)
             \/ Unregister(h) \/ Abort(h)
      BY <1>0, <1>2 DEF CallTypes, SendQueues, SendFails, Confirm, WaitActive, WaitExpires,
         CheckPending, CheckState, Activate, SendCleanup, Untrack, Unregister, Abort, Advance,
         Register, Track
<1>3. CASE UnsubCheck(h) \/ UnsubCount(h) \/ UnsubUntrack(h) \/ UnsubPhase1(h) \/ UnsubQueues(h)
             \/ UnsubSendFails(h) \/ UnsubClean(h) \/ UnsubWait(h) \/ UnsubRemove(h)
      BY <1>0, <1>3 DEF CallTypes, UnsubCheck, UnsubCount, UnsubUntrack, UnsubPhase1, UnsubQueues,
         UnsubSendFails, UnsubClean, UnsubWait, UnsubRemove, Ended, Register, Track
<1> QED BY <1>1, <1>2, <1>3 DEF CallerStep, CallStep

\* The local lists of unsubscribe are empty outside its phases.
LEMMA PhasesStep ==
  ASSUME TypeOK, Placed, AllAlive, [Next]_vars, NEW h \in Handles, Phases(h)
  PROVE  Phases(h)'
<1> USE DEF Go, Goto, Phases
<1>0. /\ CallTypes /\ Len(SubsOf[h]) \in Nat /\ idx[h] \in Nat /\ PlacedAt(h)
      BY SubMuxAssumption DEF TypeOK, CallTypes, Placed
<1>1. CASE Subscribe(h) \/ Unsubscribe(h) \/ Expire(h) \/ Lookup(h) \/ Create(h) \/ List(h)
             \/ CreateFails(h)
             \/ MetadataGone(h) \/ Track(h)
      BY <1>0, <1>1 DEF CallTypes, PlacedAt, Subscribe, Unsubscribe, Expire, Lookup, Create, List,
         CreateFails, MetadataGone, Track
<1>2. CASE Register(h)
  <2>1. pc'[h] \in {"waitActive", "send", "activate"}
        BY <1>2, RegisterEffect DEF RegisterDecision
  <2>2. pc[h] = "register" /\ UNCHANGED <<chTodo, awaiting>>
        BY <1>2 DEF Register
  <2> QED BY <1>0, <2>1, <2>2
<1>3. CASE SendQueues(h) \/ SendFails(h) \/ Confirm(h) \/ WaitActive(h) \/ WaitExpires(h)
             \/ CheckPending(h) \/ SendCleanup(h) \/ Untrack(h) \/ Unregister(h) \/ Abort(h)
      BY <1>0, <1>3 DEF CallTypes, PlacedAt, CreatedPcs, SendQueues, SendFails, Confirm,
         WaitActive, WaitExpires, CheckPending, SendCleanup, Untrack, Unregister, Abort
<1>4. CASE CheckState(h) \/ Activate(h)
      BY <1>0, <1>4 DEF CallTypes, CheckState, Activate, Advance
<1>5. CASE UnsubCheck(h) \/ UnsubCount(h) \/ UnsubUntrack(h) \/ UnsubPhase1(h) \/ UnsubQueues(h)
             \/ UnsubSendFails(h) \/ UnsubClean(h) \/ UnsubWait(h) \/ UnsubRemove(h)
      BY <1>0, <1>5 DEF CallTypes, UnsubCheck, UnsubCount, UnsubUntrack, UnsubPhase1, UnsubQueues,
         UnsubSendFails, UnsubClean, UnsubWait, UnsubRemove, Ended
<1>6. CASE ~CallerStep(h)
  <2>1. /\ pc'[h] = pc[h] /\ idx'[h] = idx[h] /\ chTodo'[h] = chTodo[h] /\ awaiting'[h] = awaiting[h]
        BY <1>6, CallerOthers, OthersMove
  <2> QED BY <2>1
<1> QED BY <1>1, <1>2, <1>3, <1>4, <1>5, <1>6 DEF CallerStep, CallStep

\* A step adds to the global map at most the subscription it creates.
LEMMA GlobalFrom ==
  ASSUME TypeOK, [Next]_vars, NEW s \in global'
  PROVE  s \in global \/ \E g \in Handles : Track(g) /\ s = Cur(g)
<1>1. ASSUME NEW g \in Handles, CallerStep(g) PROVE s \in global \/ (Track(g) /\ s = Cur(g))
  <2>1. global' \subseteq global \/ Track(g)
        BY <1>1 DEF CallerStep, CallStep, Goto, Subscribe, Unsubscribe, Expire, Lookup, Create,
           List, CreateFails, MetadataGone, Register, SendQueues, SendFails, Confirm, WaitActive,
           WaitExpires, CheckPending, CheckState, Activate, SendCleanup, Untrack, Unregister,
           Abort, UnsubCheck, UnsubCount, UnsubUntrack, UnsubPhase1, UnsubQueues, UnsubSendFails,
           UnsubClean, UnsubWait, UnsubRemove
  <2> QED BY <2>1 DEF Track
<1>2. CASE global' \subseteq global
      BY <1>2
<1> QED BY <1>1, <1>2, LoopOthers, CloseOthers, PublishOthers DEF Next, CallerStep, vars

\* A subscription that is not at hand at register is registered by no step.
LEMMA RegisteredFrom ==
  ASSUME TypeOK, Placed, AllAlive, Homes, [Next]_vars, NEW c \in Conns, NEW s \in subscriptions'[c]
  PROVE  s \in subscriptions[c] \/ \E g \in Handles : Register(g) /\ s = Cur(g)
<1>1. CASE UNCHANGED subscriptions
      BY <1>1
<1> QED BY <1>1, CallerRegisters, LoopOthers, CloseOthers, PublishOthers
           DEF Next, CallerStep, vars

\* What a failed subscribeToChannel removed stays removed.
LEMMA GivenUpStep ==
  ASSUME TypeOK, Placed, AllAlive, NotYet, Homes, [Next]_vars, NEW h \in Handles, Phases(h), GivenUp(h)
  PROVE  GivenUp(h)'
<1> DEFINE P == {"abort", "failed"} \cup UnsubPcs
<1>0. UnsubPcs = {"uCheck", "uCount", "uUntrack", "uPhase1", "uSend", "uClean", "uWait", "uRemove"}
      BY DEF UnsubPcs
<1> SUFFICES ASSUME idx'[h] <= Len(SubsOf[h]), pc'[h] \in {"unregister"} \cup P
             PROVE  /\ Cur(h)' \notin global'
                    /\ pc'[h] \in P => \A c \in Conns : Cur(h)' \notin subscriptions'[c]
    BY <1>0 DEF GivenUp
<1>1. ASSUME idx'[h] = idx[h], \A g \in Handles : Track(g) => g # h
      PROVE  /\ Cur(h) \notin global => Cur(h)' \notin global'
  <2>1. Cur(h)' = Cur(h) /\ idx[h] \in 1..Len(SubsOf[h])
        BY <1>1 DEF Cur, TypeOK, CallTypes
  <2>2. ASSUME NEW g \in Handles, Track(g) PROVE Cur(g) # Cur(h)
    <3>1. pc[g] = "track"
          BY <2>2 DEF Track
    <3>2. idx[g] \in 1..Len(SubsOf[g])
          BY <3>1 DEF TypeOK, CallTypes, Placed, PlacedAt
    <3> QED BY <1>1, <2>1, <2>2, <3>2, PlacesDistinct DEF Cur
  <2> QED BY <2>1, <2>2, GlobalFrom
<1>2. ASSUME idx'[h] = idx[h], \A g \in Handles : Register(g) => g # h, NEW c \in Conns,
             Cur(h) \notin subscriptions[c]
      PROVE  Cur(h)' \notin subscriptions'[c]
  <2>1. Cur(h)' = Cur(h) /\ idx[h] \in 1..Len(SubsOf[h])
        BY <1>2 DEF Cur, TypeOK, CallTypes
  <2>2. ASSUME NEW g \in Handles, Register(g) PROVE Cur(g) # Cur(h)
    <3>1. pc[g] = "register"
          BY <2>2 DEF Register
    <3>2. idx[g] \in 1..Len(SubsOf[g])
          BY <3>1 DEF TypeOK, CallTypes, Placed, PlacedAt, CreatedPcs
    <3> QED BY <1>2, <2>1, <2>2, <3>2, PlacesDistinct DEF Cur
  <2> QED BY <1>2, <2>1, <2>2, RegisteredFrom
<1>3. CASE ~CallerStep(h)
  <2>1. pc'[h] = pc[h] /\ idx'[h] = idx[h]
        BY <1>3, CallerOthers, OthersMove
  <2>2. \A g \in Handles : (Track(g) => g # h) /\ (Register(g) => g # h)
        BY <1>3 DEF CallerStep, CallStep
  <2>3. Cur(h) \notin global /\ (pc[h] \in P => \A c \in Conns : Cur(h) \notin subscriptions[c])
        BY <1>0, <2>1 DEF GivenUp
  <2> QED BY <1>1, <1>2, <2>1, <2>2, <2>3
<1>4. CASE CallerStep(h)
  <2>0. idx'[h] = idx[h] /\ Cur(h)' = Cur(h) /\ idx[h] \in 1..Len(SubsOf[h]) /\ Cur(h) \in Subs
    <3>1. idx'[h] = idx[h]
          BY <1>0, <1>4, GivenUpFrom
    <3> QED BY <3>1, SubMuxAssumption DEF Cur, TypeOK, CallTypes
  <2>1. CASE Untrack(h)
        BY <1>0, <2>0, <2>1 DEF Untrack, Go, TypeOK, CallTypes
  <2>2. CASE Unregister(h)
    <3>1. pc[h] = "unregister" /\ UNCHANGED global /\ CurConn(h) \in Conns
          BY <2>2, UnregisterEffect
    <3>2. Cur(h) \notin global
          BY <2>0, <3>1 DEF GivenUp
    <3>3. ASSUME NEW c \in Conns PROVE Cur(h) \notin subscriptions'[c]
      <4>1. RemoveFromMeta(CurConn(h), {Cur(h)})
            BY <2>2 DEF Unregister
      <4>2. subscriptions'[c] = IF c = CurConn(h) THEN subscriptions[c] \ {Cur(h)} ELSE subscriptions[c]
            BY <4>1 DEF RemoveFromMeta, TypeOK, MetaTypes
      <4> QED BY <4>2 DEF Homes, CurConn
    <3> QED BY <2>0, <3>1, <3>2, <3>3
  <2>3. CASE pc[h] \in Early /\ UNCHANGED <<global, subscriptions>>
    <3>1. Cur(h) \notin Alive
          BY <2>0, <2>3 DEF NotYet, Cur
    <3> QED BY <2>0, <2>3, <3>1 DEF AllAlive, ConnAlive
  <2>4. CASE pc[h] \in P /\ pc'[h] \in P /\ ~Register(h) /\ ~Track(h)
    <3>1. Cur(h) \notin global /\ \A c \in Conns : Cur(h) \notin subscriptions[c]
          BY <1>0, <2>0, <2>4 DEF GivenUp
    <3> QED BY <1>1, <1>2, <2>0, <2>4, <3>1
  <2> QED BY <1>0, <1>4, <2>1, <2>2, <2>3, <2>4, GivenUpFrom
<1> QED BY <1>3, <1>4

\* A connection leaves the pool only at the end of its event loop.
LEMMA LeftPoolStep ==
  ASSUME TypeOK, Homes, CloseFlag, LeftPool, [Next]_vars, ~closed'
  PROVE  LeftPool'
<1> SUFFICES ASSUME NEW c \in Conns, connState'[c] # "none", c \notin inPool'
             PROVE  loop'[c] \in {"zombies", "ended"}
    BY DEF LeftPool
<1>1. ASSUME NEW h \in Handles, CallerStep(h) PROVE loop'[c] \in {"zombies", "ended"}
  <2>1. CASE Create(h)
        BY <2>1 DEF Create, LeftPool, TypeOK, LoopTypes, MetaTypes
  <2>2. CASE ~Create(h)
    <3>1. UNCHANGED <<connState, inPool, loop>>
          BY <1>1, <2>2 DEF CallerStep, CallStep, Goto, Subscribe, Unsubscribe, Expire, Lookup,
             List, CreateFails, MetadataGone, Track, Register, SendQueues, SendFails, Confirm,
             WaitActive, WaitExpires, CheckPending, CheckState, Activate, SendCleanup, Untrack,
             Unregister, Abort, UnsubCheck, UnsubCount, UnsubUntrack, UnsubPhase1, UnsubQueues,
             UnsubSendFails, UnsubClean, UnsubWait, UnsubRemove
    <3> QED BY <3>1 DEF LeftPool
  <2> QED BY <2>1, <2>2
<1>2. ASSUME NEW d \in Conns, LoopStep(d) \/ Break(d) PROVE loop'[c] \in {"zombies", "ended"}
  <2>0. d # c => connState'[c] = connState[c] /\ loop'[c] = loop[c]
        BY <1>2, LoopOthers
  <2>1. CASE LoopRemovesConn(d)
    <3>1. /\ inPool' = inPool \ {d}
          /\ loop' = [loop EXCEPT ![d] = IF AutoResubscribe THEN "ended" ELSE "zombies"]
          BY <2>1 DEF LoopRemovesConn, LoopTo
    <3>2. CASE c = d
          BY <3>1, <3>2 DEF TypeOK, LoopTypes
    <3> QED BY <2>0, <3>1, <3>2 DEF LeftPool
  <2>2. CASE ~LoopRemovesConn(d)
    <3>1. UNCHANGED inPool
          BY <1>2, <2>2 DEF LoopStep, LoopSends, LoopSendFails, LoopFailsSub, LoopLosesChannel,
             LoopMarksFailed, LoopSnapshots, LoopNotifies, LoopSignals, LoopReceivesConfirmation,
             LoopConfirms, LoopUnpends, LoopReceivesMessage, LoopDispatches, LoopHandsOver,
             LoopStops, LoopDrains, LoopClosesLoopDone, LoopExits, LoopRetires, LoopCleansZombies,
             Break
    <3>2. CASE c # d
          BY <2>0, <3>1, <3>2 DEF LeftPool
    <3>3. CASE c = d
      <4>1. connState[c] # "none"
        <5>1. connState[c] = connState'[c] \/ loop[c] # "off"
              BY <1>2, <3>3, LoopOthers DEF Break
        <5> QED BY <5>1 DEF Homes
      <4>2. loop[c] \in {"zombies", "ended"}
            BY <3>1, <4>1 DEF LeftPool
      <4>3. LoopCleansZombies(c) \/ Break(c)
            BY <1>2, <3>3, <4>2 DEF LoopStep, LoopSends, LoopSendFails, LoopFailsSub,
               LoopLosesChannel, LoopMarksFailed, LoopSnapshots, LoopNotifies, LoopSignals,
               LoopReceivesConfirmation, LoopConfirms, LoopUnpends, LoopReceivesMessage,
               LoopDispatches, LoopHandsOver, LoopStops, LoopDrains, LoopClosesLoopDone,
               LoopExits, LoopRetires, LoopRemovesConn
      <4> QED BY <4>2, <4>3 DEF LoopCleansZombies, Break, LoopTo, TypeOK, LoopTypes
    <3> QED BY <3>2, <3>3
  <2> QED BY <2>1, <2>2
<1>3. CASE UNCHANGED <<connState, inPool, loop>>
      BY <1>3 DEF LeftPool
<1> QED BY <1>1, <1>2, <1>3, OpenSteps, PublishOthers DEF vars

\* What a caller at these places may do next.
LEMMA CreatedMoves ==
  ASSUME TypeOK, NEW h \in Handles, CallerStep(h), pc'[h] \in CreatedPcs
  PROVE  /\ idx'[h] = idx[h]
         /\ \/ Track(h)
            \/ /\ pc[h] \in CreatedPcs
               /\ pc[h] \in {"send", "confirm", "dropPending", "untrack", "unregister"} =>
                    \/ pc'[h] \in {"send", "confirm"} /\ pc[h] \in {"send", "confirm"}
                    \/ pc'[h] \in {"dropPending", "untrack", "unregister"}
                    \/ pc'[h] = "checkState" /\ pc[h] = "confirm" /\ confirmCh[Cur(h)] = "nil"
<1> USE DEF Go, Goto, CreatedPcs
<1>0. CallTypes
      BY DEF TypeOK
<1>1. CASE Subscribe(h) \/ Unsubscribe(h) \/ Expire(h) \/ Lookup(h) \/ Create(h) \/ List(h)
             \/ CreateFails(h)
             \/ MetadataGone(h) \/ Track(h) \/ Register(h)
      BY <1>0, <1>1 DEF CallTypes, Subscribe, Unsubscribe, Expire, Lookup, Create, List,
         CreateFails, MetadataGone, Track, Register, RegisterDecision
<1>2. CASE SendQueues(h) \/ SendFails(h) \/ Confirm(h) \/ WaitActive(h) \/ WaitExpires(h)
             \/ CheckPending(h) \/ CheckState(h) \/ Activate(h) \/ SendCleanup(h) \/ Untrack(h)
             \/ Unregister(h) \/ Abort(h)
      BY <1>0, <1>2 DEF CallTypes, SendQueues, SendFails, Confirm, WaitActive, WaitExpires,
         CheckPending, CheckState, Activate, SendCleanup, Untrack, Unregister, Abort, Advance
<1>3. CASE UnsubCheck(h) \/ UnsubCount(h) \/ UnsubUntrack(h) \/ UnsubPhase1(h) \/ UnsubQueues(h)
             \/ UnsubSendFails(h) \/ UnsubClean(h) \/ UnsubWait(h) \/ UnsubRemove(h)
      BY <1>0, <1>3 DEF CallTypes, UnsubCheck, UnsubCount, UnsubUntrack, UnsubPhase1, UnsubQueues,
         UnsubSendFails, UnsubClean, UnsubWait, UnsubRemove, Ended
<1> QED BY <1>1, <1>2, <1>3 DEF CallerStep, CallStep

\* sub.subs grows by the subscription at hand.
LEMMA AppendedFrom ==
  ASSUME TypeOK, Placed, AllAlive, [Next]_vars, NEW h \in Handles, NEW s \in Appended(h)'
  PROVE  s \in Appended(h) \/ (pc[h] \in {"checkState", "activate"} /\ s = Cur(h))
<1>0. idx[h] \in Nat \ {0}
      BY DEF TypeOK, CallTypes
<1>1. CASE CallerStep(h)
  <2>1. idx'[h] = idx[h] \/ (idx'[h] = idx[h] + 1 /\ pc[h] \in {"checkState", "activate"})
        BY <1>1, CallerEarly
  <2>2. PICK i \in 1..(idx'[h] - 1) : s = SubsOf[h][i]
        BY DEF Appended
  <2>3. i \in 1..(idx[h] - 1) \/ (pc[h] \in {"checkState", "activate"} /\ i = idx[h])
        BY <1>0, <2>1
  <2> QED BY <2>2, <2>3 DEF Appended, Cur
<1>2. CASE ~CallerStep(h)
  <2>1. idx'[h] = idx[h]
        BY <1>2, CallerOthers, OthersMove
  <2> QED BY <2>1 DEF Appended
<1> QED BY <1>1, <1>2

\* No loop confirms a subscription whose caller is past the wait.
LEMMA NotReturnedStep ==
  ASSUME TypeOK, Placed, AllAlive, NotYet, Homes, PendingRegistered, CloseFlag, PendingHasOwner,
         [Next]_vars, ~closed', \A g \in Handles : Confirming(g), NEW c \in Conns, NotReturned(c)
  PROVE  NotReturned(c)'
<1> SUFFICES ASSUME loop'[c] = "confirm", NEW h \in Handles
             PROVE  /\ loopSub'[c] \notin Appended(h)'
                    /\ pc'[h] \in CreatedPcs /\ Cur(h)' = loopSub'[c] =>
                         /\ pc'[h] \notin {"register", "waitActive", "checkPending", "activate",
                                           "checkState"}
                         /\ pc'[h] \in {"send", "confirm"} => confirmCh'[Cur(h)'] # "nil"
    BY DEF NotReturned
<1>0. ~closed
      BY OpenSteps
\* No step turns the caller's confirmation into nil and leaves the loop here.
<1>a. ASSUME pc[h] \in {"send", "confirm"}, Cur(h) = loopSub'[c], loopSub'[c] \in Alive,
             pubsub[loopSub'[c]] = c, confirmCh[Cur(h)] # "nil"
      PROVE  confirmCh'[Cur(h)] # "nil"
  <2>1. ASSUME NEW d \in Conns, LoopConfirms(d), loopSub[d] = Cur(h) PROVE FALSE
    <3>1. d = c
          BY <1>a, <2>1 DEF LoopConfirms, Homes
    <3> QED BY <2>1, <3>1 DEF LoopConfirms, LoopTo, TypeOK, LoopTypes
  <2> QED BY <1>a, <2>1, NilFrom DEF CreatedPcs
<1>1. CASE loop[c] = "confirm" /\ loopSub'[c] = loopSub[c]
  <2>0. loopSub[c] \in Alive /\ pubsub[loopSub[c]] = c
        BY <1>1 DEF AllAlive, ConnAlive, Homes
  <2>1. loopSub[c] \notin Appended(h)'
    <3>1. loopSub[c] \notin Appended(h)
          BY <1>1 DEF NotReturned
    <3>2. pc[h] \in {"checkState", "activate"} => Cur(h) # loopSub[c]
          BY <1>1 DEF NotReturned, CreatedPcs
    <3> QED BY <3>1, <3>2, AppendedFrom
  <2>2. ASSUME pc'[h] \in CreatedPcs, Cur(h)' = loopSub[c]
        PROVE  /\ pc'[h] \notin {"register", "waitActive", "checkPending", "activate", "checkState"}
               /\ pc'[h] \in {"send", "confirm"} => confirmCh'[Cur(h)'] # "nil"
    <3>1. CASE Track(h)
      <4>1. pc[h] = "track" /\ UNCHANGED idx
            BY <3>1 DEF Track
      <4>2. idx[h] \in 1..Len(SubsOf[h])
            BY <4>1 DEF TypeOK, CallTypes, Placed, PlacedAt
      <4>3. Cur(h) \notin Alive
            BY <4>1, <4>2 DEF NotYet, Early, Cur
      <4> QED BY <2>0, <2>2, <4>1, <4>3 DEF Cur
    <3>2. CASE ~Track(h)
      <4>1. /\ idx'[h] = idx[h] /\ pc[h] \in CreatedPcs
            /\ \/ pc'[h] = pc[h]
               \/ pc[h] \in {"send", "confirm", "dropPending", "untrack", "unregister"} =>
                    \/ pc'[h] \in {"send", "confirm"} /\ pc[h] \in {"send", "confirm"}
                    \/ pc'[h] \in {"dropPending", "untrack", "unregister"}
                    \/ pc'[h] = "checkState" /\ pc[h] = "confirm" /\ confirmCh[Cur(h)] = "nil"
        <5>1. CASE CallerStep(h)
              BY <2>2, <3>2, <5>1, CreatedMoves
        <5>2. CASE ~CallerStep(h)
              BY <2>2, <5>2, CallerOthers, OthersMove
        <5> QED BY <5>1, <5>2
      <4>2. Cur(h)' = Cur(h) /\ Cur(h) = loopSub[c]
            BY <2>2, <4>1 DEF Cur
      <4>3. /\ pc[h] \in {"send", "confirm", "dropPending", "untrack", "unregister"}
            /\ pc[h] \in {"send", "confirm"} => confirmCh[Cur(h)] # "nil"
            BY <1>1, <4>1, <4>2 DEF NotReturned, CreatedPcs
      <4>4. pc[h] \in {"send", "confirm"} => confirmCh'[Cur(h)] # "nil"
            BY <1>1, <1>a, <2>0, <4>2, <4>3
      <4> QED BY <4>1, <4>2, <4>3, <4>4
    <3> QED BY <3>1, <3>2
  <2> QED BY <1>1, <2>1, <2>2
<1>2. ASSUME NEW d \in Conns, LoopStep(d) \/ Break(d), c = d, loop[c] = "select", loopSub'[c] # NoSub,
             NEW ch \in Channels, loopSub'[c] = pending[c][ch]
      PROVE  /\ loopSub'[c] \notin Appended(h)'
             /\ pc'[h] \in CreatedPcs /\ Cur(h)' = loopSub'[c] =>
                  /\ pc'[h] \notin {"register", "waitActive", "checkPending", "activate", "checkState"}
                  /\ pc'[h] \in {"send", "confirm"} => confirmCh'[Cur(h)'] # "nil"
  <2>0. /\ UNCHANGED <<pc, idx>> /\ Appended(h)' = Appended(h) /\ Cur(h)' = Cur(h)
        BY <1>2, LoopOthers DEF Appended, Cur
  <2>1. /\ loopSub'[c] \in subscriptions[c] /\ ChannelOf[loopSub'[c]] = ch
        /\ loopSub'[c] \in Alive /\ pubsub[loopSub'[c]] = c
        BY <1>2 DEF PendingRegistered, AllAlive, ConnAlive, Homes
  <2>2. PICK g \in Handles : pc[g] \in OwnerPcs /\ Cur(g) = loopSub'[c]
        BY <1>0, <1>2 DEF PendingHasOwner, OwnerPcs
  <2>3. pc[g] \in CreatedPcs /\ idx[g] <= Len(SubsOf[g])
        BY <2>2 DEF OwnerPcs, CreatedPcs, Placed, PlacedAt
  <2>4. loopSub'[c] \notin Appended(h)
        BY <2>2, <2>3, CurNotAppended
  <2>5. ASSUME pc[h] \in CreatedPcs, Cur(h) = loopSub'[c]
        PROVE  /\ pc[h] \notin {"register", "waitActive", "checkPending", "activate", "checkState"}
               /\ pc[h] \in {"send", "confirm"} => confirmCh'[Cur(h)] # "nil"
    <3>1. h = g
          BY <2>2, <2>3, <2>5, CurDistinct
    <3>2. CurConn(h) = c /\ CurChannel(h) = ch /\ ~BeingUnpended(h)
          BY <1>2, <2>1, <2>5 DEF CurConn, CurChannel, BeingUnpended
    <3>3. pc[h] # "checkState" /\ (pc[h] \in {"send", "confirm"} => confirmCh[Cur(h)] # "nil")
          BY <3>2 DEF Confirming
    <3>4. pc[h] \in {"send", "confirm"} => confirmCh'[Cur(h)] # "nil"
          BY <1>a, <2>1, <2>5, <3>3
    <3> QED BY <2>2, <3>1, <3>3, <3>4 DEF OwnerPcs
  <2> QED BY <2>0, <2>4, <2>5
<1>3. ASSUME NEW g \in Handles, CallerStep(g)
      PROVE  loop[c] = "confirm" /\ loopSub'[c] = loopSub[c]
      BY <1>3, CallerLoops
<1>4. ASSUME NEW d \in Conns, LoopStep(d) \/ Break(d)
      PROVE  \/ loop[c] = "confirm" /\ loopSub'[c] = loopSub[c]
             \/ /\ c = d /\ loop[c] = "select" /\ loopSub'[c] # NoSub
                /\ \E ch \in Channels : loopSub'[c] = pending[c][ch]
      BY <1>4, LoopOthers, LoopTakes
<1>5. UNCHANGED vars \/ (\E type \in Types, ch \in Channels : Publish(type, ch)) =>
        loop[c] = "confirm" /\ loopSub'[c] = loopSub[c]
      BY PublishOthers DEF vars
<1> QED BY <1>1, <1>2, <1>3, <1>4, <1>5, OpenSteps

-----------------------------------------------------------------------------
(* Unsubscribe, and the rollback of Subscribe *)

\* The steps that lead to, and through, the phases of unsubscribe.
LEMMA LateSteps ==
  ASSUME TypeOK, NEW h \in Handles, CallerStep(h), ~closed, pc'[h] \in {"uUntrack"} \cup AfterUntrack
  PROVE  /\ idx'[h] = idx[h]
         /\ \/ Abort(h) /\ idx[h] = 1
            \/ UnsubCount(h)
            \/ UnsubUntrack(h)
            \/ UnsubPhase1(h)
            \/ UnsubQueues(h)
            \/ UnsubSendFails(h)
            \/ UnsubClean(h)
            \/ UnsubWait(h)
            \/ UnsubRemove(h)
<1> USE DEF Go, Goto, AfterUntrack
<1>0. CallTypes
      BY DEF TypeOK
<1>1. CASE Subscribe(h) \/ Unsubscribe(h) \/ Expire(h) \/ Lookup(h) \/ Create(h) \/ List(h)
             \/ CreateFails(h)
             \/ MetadataGone(h) \/ Track(h) \/ Register(h)
      BY <1>0, <1>1 DEF CallTypes, Subscribe, Unsubscribe, Expire, Lookup, Create, List,
         CreateFails, MetadataGone, Track, Register, RegisterDecision
<1>2. CASE SendQueues(h) \/ SendFails(h) \/ Confirm(h) \/ WaitActive(h) \/ WaitExpires(h)
             \/ CheckPending(h) \/ CheckState(h) \/ Activate(h) \/ SendCleanup(h) \/ Untrack(h)
             \/ Unregister(h) \/ Abort(h)
      BY <1>0, <1>2 DEF CallTypes, SendQueues, SendFails, Confirm, WaitActive, WaitExpires,
         CheckPending, CheckState, Activate, SendCleanup, Untrack, Unregister, Abort, Advance
<1>3. CASE UnsubCheck(h)
      BY <1>0, <1>3 DEF CallTypes, UnsubCheck
<1>4. CASE UnsubCount(h) \/ UnsubUntrack(h) \/ UnsubPhase1(h) \/ UnsubQueues(h)
             \/ UnsubSendFails(h) \/ UnsubClean(h) \/ UnsubWait(h) \/ UnsubRemove(h)
      BY <1>0, <1>4 DEF CallTypes, UnsubCount, UnsubUntrack, UnsubPhase1, UnsubQueues,
         UnsubSendFails, UnsubClean, UnsubWait, UnsubRemove
<1> QED BY <1>1, <1>2, <1>3, <1>4 DEF CallerStep, CallStep

\* Nobody creates, registers or activates again what a handle already holds.
LEMMA AppendedIsPast ==
  ASSUME TypeOK, Placed, NEW h \in Handles, NEW s \in Appended(h), NEW g \in Handles
  PROVE  (Track(g) \/ Register(g) \/ Activate(g)) => s # Cur(g)
<1> SUFFICES ASSUME Track(g) \/ Register(g) \/ Activate(g) PROVE s # Cur(g)
    OBVIOUS
<1>1. pc[g] \in {"track", "register", "activate"}
      BY DEF Track, Register, Activate
<1>2. idx[g] <= Len(SubsOf[g])
      BY <1>1 DEF Placed, PlacedAt, CreatedPcs
<1> QED BY <1>2, CurNotAppended

\* The global map has nothing of a handle that is past it.
LEMMA UntrackedStep ==
  ASSUME TypeOK, Placed, AllAlive, CloseFlag, [Next]_vars, ~closed', NEW h \in Handles,
         pc[h] \in AfterUntrack => Appended(h) \cap global = {}
  PROVE  pc'[h] \in AfterUntrack => Appended(h)' \cap global' = {}
<1> SUFFICES ASSUME pc'[h] \in AfterUntrack PROVE Appended(h)' \cap global' = {}
    OBVIOUS
<1>0. ~closed /\ idx[h] \in Nat
      BY OpenSteps DEF TypeOK, CallTypes
<1>1. idx'[h] = idx[h] /\ Appended(h)' = Appended(h)
  <2>1. idx'[h] = idx[h]
        BY <1>0, LateSteps, CallerOthers, OthersMove
  <2> QED BY <2>1 DEF Appended
<1>2. ASSUME Appended(h) \cap global = {} PROVE Appended(h) \cap global' = {}
      BY <1>2, GlobalFrom, AppendedIsPast
<1>3. CASE pc[h] \in AfterUntrack
      BY <1>1, <1>2, <1>3
<1>4. CASE pc[h] \notin AfterUntrack
  <2>1. CallerStep(h)
        BY <1>4, CallerOthers, OthersMove
  <2>2. CASE UnsubUntrack(h)
        BY <1>1, <2>2 DEF UnsubUntrack
  <2>3. CASE Abort(h) /\ idx[h] = 1
        BY <1>1, <2>3 DEF Appended
  <2>4. CASE UnsubCount(h)
        BY <2>4 DEF UnsubCount, AfterUntrack, Go, TypeOK, CallTypes
  <2> QED BY <1>0, <1>4, <2>1, <2>2, <2>3, <2>4, LateSteps
             DEF AfterUntrack, UnsubPhase1, UnsubQueues, UnsubSendFails, UnsubClean, UnsubWait,
          UnsubRemove
<1> QED BY <1>3, <1>4

\* With distinct channels, the first subscription of a channel is the only one.
LEMMA FirstDistinct ==
  ASSUME TypeOK, Placed, NEW h \in Handles, DistinctChannels(h), NEW s \in Appended(h)
  PROVE  /\ FirstSub(h, ChannelOf[s]) = s
         /\ \A t \in Appended(h) : ChannelOf[t] = ChannelOf[s] => t = s
<1>1. Appended(h) \subseteq Own(h)
  <2>1. \A i \in 1..(idx[h] - 1) : i \in 1..Len(SubsOf[h])
        BY SubMuxAssumption DEF TypeOK, CallTypes, Placed, PlacedAt
  <2> QED BY <2>1 DEF Appended, Own
<1>2. ChannelOf[s] \in AppendedChannels(h)
      BY DEF AppendedChannels
<1>3. FirstSub(h, ChannelOf[s]) \in Appended(h) /\ ChannelOf[FirstSub(h, ChannelOf[s])] = ChannelOf[s]
      BY <1>2, FirstSubExists
<1> QED BY <1>1, <1>3 DEF DistinctChannels

\* A subscription that is closed or failed leaves that state only when its
\* caller or its event loop activates it.
LEMMA SilentMoves ==
  ASSUME TypeOK, Placed, AllAlive, CloseFlag, [Next]_vars, ~closed', NEW s \in Subs,
         state[s] \in {"closed", "failed"}
  PROVE  \/ state'[s] \in {"closed", "failed"}
         \/ \E g \in Handles : (Track(g) \/ Activate(g)) /\ s = Cur(g)
         \/ \E c \in Conns : LoopConfirms(c) /\ s = loopSub[c]
<1>0. SubTypes
      BY DEF TypeOK
<1>1. ASSUME NEW g \in Handles, CallerStep(g)
      PROVE  state'[s] \in {"closed", "failed"} \/ ((Track(g) \/ Activate(g)) /\ s = Cur(g))
  <2>1. CASE Track(g)
        BY <1>0, <2>1 DEF Track, SubTypes
  <2>2. CASE Activate(g)
        BY <1>0, <2>2 DEF Activate, SetState, SubTypes
  <2>3. CASE UnsubPhase1(g)
        BY <1>0, <2>3 DEF UnsubPhase1, SetClosed, SubTypes
  <2>4. CASE ~Track(g) /\ ~Activate(g) /\ ~UnsubPhase1(g)
    <3>1. UNCHANGED state
          BY <1>1, <2>4 DEF CallerStep, CallStep, Goto, Subscribe, Unsubscribe, Expire, Lookup,
             Create, List, CreateFails, MetadataGone, Register, SendQueues, SendFails, Confirm,
             WaitActive, WaitExpires, CheckPending, CheckState, SendCleanup, Untrack, Unregister,
             Abort, UnsubCheck, UnsubCount, UnsubUntrack, UnsubQueues, UnsubSendFails, UnsubClean,
             UnsubWait, UnsubRemove
    <3> QED BY <3>1
  <2> QED BY <2>1, <2>2, <2>3, <2>4
<1>2. ASSUME NEW c \in Conns, LoopStep(c) \/ Break(c)
      PROVE  state'[s] \in {"closed", "failed"} \/ (LoopConfirms(c) /\ s = loopSub[c])
  <2>1. CASE LoopFailsSub(c) \/ LoopNotifies(c) \/ LoopConfirms(c)
        BY <1>0, <2>1 DEF LoopFailsSub, LoopNotifies, LoopConfirms, SetState, SubTypes
  <2>2. CASE ~LoopFailsSub(c) /\ ~LoopNotifies(c) /\ ~LoopConfirms(c)
    <3>1. UNCHANGED state
          BY <1>2, <2>2 DEF LoopStep, LoopSends, LoopSendFails, LoopLosesChannel, LoopMarksFailed,
             LoopSnapshots, LoopSignals, LoopReceivesConfirmation, LoopUnpends,
             LoopReceivesMessage, LoopDispatches, LoopHandsOver, LoopStops, LoopDrains,
             LoopClosesLoopDone, LoopExits, LoopRetires, LoopRemovesConn, LoopCleansZombies, Break
    <3> QED BY <3>1
  <2> QED BY <2>1, <2>2
<1>3. CASE UNCHANGED state
      BY <1>3
<1> QED BY <1>1, <1>2, <1>3, OpenSteps, PublishOthers DEF vars

\* An event loop that is past its last message stays there.
LEMMA SilentLoopStays ==
  ASSUME TypeOK, Homes, [Next]_vars, NEW c \in Conns, loop[c] \in {"zombies", "ended"}
  PROVE  loop'[c] \in {"zombies", "ended"}
<1>1. ASSUME NEW d \in Conns, LoopStep(d) \/ Break(d) PROVE loop'[c] \in {"zombies", "ended"}
  <2>1. CASE d # c
        BY <1>1, <2>1, LoopOthers
  <2>2. CASE d = c
    <3>1. LoopCleansZombies(c) \/ Break(c)
          BY <1>1, <2>2 DEF LoopStep, LoopSends, LoopSendFails, LoopFailsSub, LoopLosesChannel,
             LoopMarksFailed, LoopSnapshots, LoopNotifies, LoopSignals, LoopReceivesConfirmation,
             LoopConfirms, LoopUnpends, LoopReceivesMessage, LoopDispatches, LoopHandsOver,
             LoopStops, LoopDrains, LoopClosesLoopDone, LoopExits, LoopRetires, LoopRemovesConn
    <3> QED BY <3>1 DEF LoopCleansZombies, Break, LoopTo, TypeOK, LoopTypes
  <2> QED BY <2>1, <2>2
<1>2. CASE UNCHANGED loop
      BY <1>2
<1> QED BY <1>1, <1>2, CallerLoops, CloseOthers, PublishOthers DEF Next, CallerStep, vars

\* A silenced subscription of a handle is never heard of again.
LEMMA SilencedStays ==
  ASSUME TypeOK, Placed, AllAlive, NotYet, Homes, CloseFlag, [Next]_vars, ~closed',
         \A c \in Conns : NotReturned(c), NEW h \in Handles, NEW s \in Appended(h), Silenced(s)
  PROVE  Silenced(s)'
<1>0. s \in Alive /\ s \in Subs /\ pubsub[s] \in Conns /\ pubsub'[s] = pubsub[s]
  <2>1. s \in Alive
        BY DEF AllAlive, CallAlive
  <2> QED BY <2>1, HomeStays DEF Alive, Homes
<1>1. CASE loop[pubsub[s]] \in {"zombies", "ended"}
      BY <1>0, <1>1, SilentLoopStays DEF Silenced
<1>2. CASE state[s] \in {"closed", "failed"}
  <2>1. ASSUME NEW c \in Conns, LoopConfirms(c) PROVE s # loopSub[c]
    <3>1. loop[c] = "confirm"
          BY <2>1 DEF LoopConfirms
    <3> QED BY <3>1 DEF NotReturned
  <2> QED BY <1>0, <1>2, <2>1, SilentMoves, AppendedIsPast DEF Silenced
<1> QED BY <1>1, <1>2 DEF Silenced

\* Phase 1 takes one channel: it is skipped with its connection, or its
\* subscriptions are closed and it is at hand.
LEMMA PhaseOne ==
  ASSUME TypeOK, Placed, NEW h \in Handles, UnsubPhase1(h)
  PROVE  /\ pc[h] = "uPhase1" /\ UNCHANGED <<idx, pubsub, inPool, subscriptions, awaiting>>
         /\ \/ chTodo'[h] = chTodo[h] /\ pc'[h] = "uWait"
            \/ \E ch \in chTodo[h] :
                 /\ chTodo'[h] = chTodo[h] \ {ch}
                 /\ \/ pubsub[FirstSub(h, ch)] \notin inPool /\ pc'[h] = "uPhase1"
                    \/ /\ curCh'[h] = ch /\ pc'[h] \in {"uSend", "uClean"}
                       /\ \A s \in Appended(h) : ChannelOf[s] = ch => state'[s] = "closed"
<1>1. CallTypes /\ Appended(h) \subseteq Subs
      BY AppendedTypes DEF TypeOK
<1>2. pc[h] = "uPhase1" /\ UNCHANGED <<idx, pubsub, inPool, subscriptions, awaiting>>
      BY DEF UnsubPhase1, SetClosed
<1>3. CASE chTodo[h] = {}
      BY <1>1, <1>2, <1>3 DEF UnsubPhase1, Go, CallTypes
<1>4. CASE chTodo[h] # {}
  <2>1. PICK ch \in chTodo[h] :
          /\ chTodo' = [chTodo EXCEPT ![h] = @ \ {ch}]
          /\ IF pubsub[FirstSub(h, ch)] \notin inPool
               THEN UNCHANGED <<pc, subVars, curCh>>
               ELSE /\ curCh' = [curCh EXCEPT ![h] = ch]
                    /\ SetClosed(OnChannel(Appended(h), ch))
                    /\ Go(h, IF ch \in toUnsub[h] THEN "uSend" ELSE "uClean")
        BY <1>4 DEF UnsubPhase1
  <2>2. chTodo'[h] = chTodo[h] \ {ch}
        BY <1>1, <2>1 DEF CallTypes
  <2>3. CASE pubsub[FirstSub(h, ch)] \notin inPool
        BY <1>2, <2>1, <2>2, <2>3
  <2>4. CASE pubsub[FirstSub(h, ch)] \in inPool
    <3>1. curCh'[h] = ch /\ pc'[h] \in {"uSend", "uClean"}
          BY <1>1, <2>1, <2>4 DEF Go, CallTypes
    <3>2. \A s \in Appended(h) : ChannelOf[s] = ch => state'[s] = "closed"
          BY <1>1, <2>1, <2>4 DEF SetClosed, OnChannel
    <3> QED BY <1>2, <2>2, <3>1, <3>2
  <2> QED BY <2>3, <2>4
<1> QED BY <1>3, <1>4

\* Every other step of unsubscribe leaves the channels to do alone.
LEMMA LateTodo ==
  ASSUME TypeOK, NEW h \in Handles, CallerStep(h), ~closed, pc'[h] \in {"uUntrack"} \cup AfterUntrack
  PROVE  \/ Abort(h) /\ idx[h] = 1 /\ pc'[h] = "failed"
         \/ UnsubCount(h) /\ chTodo'[h] = AppendedChannels(h)
         \/ UnsubPhase1(h)
         \/ /\ chTodo'[h] = chTodo[h]
            /\ pc[h] \in {"uUntrack"} \cup (AfterUntrack \ {"failed"})
<1> USE DEF Go, Goto, AfterUntrack
<1>0. CallTypes
      BY DEF TypeOK
<1>1. CASE Abort(h) /\ idx[h] = 1
      BY <1>0, <1>1 DEF Abort, CallTypes
<1>2. CASE UnsubCount(h)
      BY <1>0, <1>2 DEF UnsubCount, CallTypes, AppendedChannels
<1> QED BY <1>0, <1>1, <1>2, LateSteps DEF UnsubUntrack, UnsubQueues, UnsubSendFails, UnsubClean,
           UnsubWait, UnsubRemove, CallTypes

\* Unsubscribe reaches each of its subscriptions: it closes it, or the event
\* loop of its connection is over.
LEMMA QuietedStep ==
  ASSUME TypeOK, Placed, AllAlive, NotYet, Homes, CloseFlag, LeftPool, [Next]_vars, ~closed',
         \A c \in Conns : NotReturned(c), NEW h \in Handles, DistinctChannels(h), Quieted(h)
  PROVE  Quieted(h)'
<1> DEFINE P == {"uUntrack"} \cup (AfterUntrack \ {"failed"})
<1> SUFFICES ASSUME pc'[h] \in P, NEW s \in Appended(h)'
             PROVE  ChannelOf[s] \in chTodo'[h] \/ Silenced(s)'
    BY DEF Quieted
<1>0. ~closed /\ idx[h] \in Nat
      BY OpenSteps DEF TypeOK, CallTypes
<1>1. s \in Appended(h)
  <2>1. idx'[h] = idx[h]
        BY <1>0, LateSteps, CallerOthers, OthersMove
  <2> QED BY <2>1 DEF Appended
<1>2. ASSUME Silenced(s) PROVE Silenced(s)'
      BY <1>1, <1>2, SilencedStays
<1>3. ASSUME pc[h] \in P, chTodo'[h] = chTodo[h] PROVE ChannelOf[s] \in chTodo'[h] \/ Silenced(s)'
      BY <1>1, <1>2, <1>3 DEF Quieted
<1>4. CASE ~CallerStep(h)
  <2>1. pc'[h] = pc[h] /\ chTodo'[h] = chTodo[h]
        BY <1>4, CallerOthers, OthersMove
  <2> QED BY <1>3, <2>1
<1>5. CASE Abort(h) /\ idx[h] = 1
      BY <1>1, <1>5 DEF Appended
<1>6. CASE UnsubCount(h) /\ chTodo'[h] = AppendedChannels(h)
      BY <1>1, <1>6 DEF AppendedChannels
<1>7. CASE UnsubPhase1(h)
  <2>1. pc[h] = "uPhase1"
        BY <1>7, PhaseOne
  <2>2. CASE chTodo'[h] = chTodo[h]
        BY <1>3, <2>1, <2>2 DEF AfterUntrack
  <2>3. ASSUME NEW ch \in chTodo[h], chTodo'[h] = chTodo[h] \ {ch},
               \/ pubsub[FirstSub(h, ch)] \notin inPool
               \/ \A t \in Appended(h) : ChannelOf[t] = ch => state'[t] = "closed"
        PROVE  ChannelOf[s] \in chTodo'[h] \/ Silenced(s)'
    <3>1. CASE ChannelOf[s] # ch
          BY <1>1, <1>2, <2>1, <2>3, <3>1 DEF Quieted, AfterUntrack
    <3>2. CASE ChannelOf[s] = ch /\ pubsub[FirstSub(h, ch)] \notin inPool
      <4>1. pubsub[s] \notin inPool
            BY <1>1, <3>2, FirstDistinct
      <4>2. s \in Alive
            BY <1>1 DEF AllAlive, CallAlive
      <4>3. Silenced(s)
            BY <4>1, <4>2 DEF Homes, LeftPool, Silenced
      <4> QED BY <1>2, <4>3
    <3>3. CASE ChannelOf[s] = ch /\ \A t \in Appended(h) : ChannelOf[t] = ch => state'[t] = "closed"
          BY <1>1, <3>3 DEF Silenced
    <3> QED BY <2>3, <3>1, <3>2, <3>3
  <2> QED BY <1>7, <2>2, <2>3, PhaseOne
<1> QED BY <1>0, <1>3, <1>4, <1>5, <1>6, <1>7, LateTodo

\* A connection that left the pool never comes back.
LEMMA OutStays ==
  ASSUME TypeOK, [Next]_vars, NEW c \in Conns, connState[c] # "none", c \notin inPool
  PROVE  c \notin inPool'
<1>1. ASSUME NEW h \in Handles, CallerStep(h) PROVE c \notin inPool'
  <2>1. CASE Create(h)
        BY <2>1 DEF Create
  <2>2. CASE ~Create(h)
    <3>1. UNCHANGED inPool
          BY <1>1, <2>2 DEF CallerStep, CallStep, Goto, Subscribe, Unsubscribe, Expire, Lookup,
             List, CreateFails, MetadataGone, Track, Register, SendQueues, SendFails, Confirm,
             WaitActive, WaitExpires, CheckPending, CheckState, Activate, SendCleanup, Untrack,
             Unregister, Abort, UnsubCheck, UnsubCount, UnsubUntrack, UnsubPhase1, UnsubQueues,
             UnsubSendFails, UnsubClean, UnsubWait, UnsubRemove
    <3> QED BY <3>1
  <2> QED BY <2>1, <2>2
<1>2. CASE inPool' \subseteq inPool
      BY <1>2
<1> QED BY <1>1, <1>2, LoopOthers, CloseOthers, PublishOthers DEF Next, CallerStep, vars

\* Nothing of a handle stays on a connection of the pool once unsubscribe is
\* done with its channel.
LEMMA RemovedStep ==
  ASSUME TypeOK, Placed, AllAlive, NotYet, Homes, CloseFlag, [Next]_vars, ~closed',
         NEW h \in Handles, DistinctChannels(h), Removed(h)
  PROVE  Removed(h)'
<1> DEFINE P == {"uUntrack"} \cup AfterUntrack
           AtHand(s) == pc[h] \in {"uSend", "uClean", "uRemove"} /\ curCh[h] = ChannelOf[s]
           Left(s) == pubsub[s] \notin inPool \/ s \notin subscriptions[pubsub[s]]
<1> SUFFICES ASSUME pc'[h] \in P, NEW s \in Appended(h)'
             PROVE  ChannelOf[s] \in chTodo'[h] \cup awaiting'[h] \/ AtHand(s)' \/ Left(s)'
    BY DEF Removed
<1>0. ~closed /\ idx[h] \in Nat /\ CallTypes
      BY OpenSteps DEF TypeOK, CallTypes
<1>1. s \in Appended(h)
  <2>1. idx'[h] = idx[h]
        BY <1>0, LateSteps, CallerOthers, OthersMove
  <2> QED BY <2>1 DEF Appended
<1>a. s \in Alive /\ pubsub[s] \in Conns /\ connState[pubsub[s]] # "none" /\ pubsub'[s] = pubsub[s]
  <2>1. s \in Alive
        BY <1>1 DEF AllAlive, CallAlive
  <2> QED BY <2>1, HomeStays DEF Homes
<1>2. ASSUME Left(s) PROVE Left(s)'
  <2>1. CASE pubsub[s] \notin inPool
        BY <1>a, <2>1, OutStays
  <2>2. CASE s \notin subscriptions[pubsub[s]]
        BY <1>1, <1>a, <2>2, RegisteredFrom, AppendedIsPast
  <2> QED BY <1>2, <2>1, <2>2
<1>3. pc[h] \in P => ChannelOf[s] \in chTodo[h] \cup awaiting[h] \/ AtHand(s) \/ Left(s)
      BY <1>1 DEF Removed
<1>4. CASE ~CallerStep(h)
  <2>1. /\ pc'[h] = pc[h] /\ chTodo'[h] = chTodo[h] /\ awaiting'[h] = awaiting[h]
        /\ curCh'[h] = curCh[h]
        BY <1>4, CallerOthers, OthersMove
  <2> QED BY <1>2, <1>3, <2>1
<1>5. CASE Abort(h) /\ idx[h] = 1
      BY <1>1, <1>5 DEF Appended
<1>6. CASE UnsubCount(h)
  <2>1. chTodo'[h] = AppendedChannels(h)
        BY <1>0, <1>6 DEF UnsubCount, AfterUntrack, CallTypes, AppendedChannels
  <2> QED BY <1>1, <2>1 DEF AppendedChannels
<1>7. CASE UnsubUntrack(h)
  <2>1. pc[h] = "uUntrack" /\ UNCHANGED <<chTodo, awaiting>>
        BY <1>7 DEF UnsubUntrack
  <2> QED BY <1>2, <1>3, <2>1
<1>8. CASE UnsubPhase1(h)
  <2>1. pc[h] = "uPhase1" /\ UNCHANGED awaiting
        BY <1>8, PhaseOne
  <2>2. ChannelOf[s] \in chTodo[h] \cup awaiting[h] \/ Left(s)
        BY <1>3, <2>1 DEF AfterUntrack
  <2>3. CASE chTodo'[h] = chTodo[h]
        BY <1>2, <2>1, <2>2, <2>3
  <2>4. ASSUME NEW ch \in chTodo[h], chTodo'[h] = chTodo[h] \ {ch},
               \/ pubsub[FirstSub(h, ch)] \notin inPool
               \/ curCh'[h] = ch /\ pc'[h] \in {"uSend", "uClean"}
        PROVE  ChannelOf[s] \in chTodo'[h] \cup awaiting'[h] \/ AtHand(s)' \/ Left(s)'
    <3>1. CASE ChannelOf[s] # ch
          BY <1>2, <2>1, <2>2, <2>4, <3>1
    <3>2. CASE ChannelOf[s] = ch /\ pubsub[FirstSub(h, ch)] \notin inPool
      <4>1. Left(s)
            BY <1>1, <3>2, FirstDistinct
      <4> QED BY <1>2, <4>1
    <3>3. CASE ChannelOf[s] = ch /\ curCh'[h] = ch /\ pc'[h] \in {"uSend", "uClean"}
          BY <3>3
    <3> QED BY <2>4, <3>1, <3>2, <3>3
  <2> QED BY <1>8, <2>3, <2>4, PhaseOne
<1>9. CASE UnsubQueues(h)
  <2>1. pc[h] = "uSend" /\ UNCHANGED chTodo /\ awaiting'[h] = awaiting[h] \cup {curCh[h]}
        BY <1>0, <1>9 DEF UnsubQueues, CallTypes
  <2> QED BY <1>2, <1>3, <2>1 DEF AfterUntrack
<1>10. CASE UnsubSendFails(h)
  <2>1. pc[h] = "uSend" /\ pc'[h] = "uClean" /\ UNCHANGED <<chTodo, awaiting, curCh>>
        BY <1>0, <1>10 DEF UnsubSendFails, Goto, Go, CallTypes
  <2> QED BY <1>2, <1>3, <2>1 DEF AfterUntrack
<1>11. CASE UnsubClean(h) \/ UnsubRemove(h)
  <2>1. /\ pc[h] \in {"uClean", "uRemove"} /\ UNCHANGED <<chTodo, awaiting>>
        /\ RemoveFromMeta(UnsubConn(h), UnsubSubs(h))
        BY <1>11 DEF UnsubClean, UnsubRemove
  <2>2. CASE curCh[h] = ChannelOf[s]
    <3>1. UnsubConn(h) = pubsub[s] /\ s \in UnsubSubs(h)
          BY <1>1, <2>2, FirstDistinct DEF UnsubConn, UnsubSubs, OnChannel
    <3>2. s \notin subscriptions'[pubsub[s]]
          BY <1>a, <2>1, <3>1 DEF RemoveFromMeta, TypeOK, MetaTypes
    <3> QED BY <1>a, <3>2
  <2>3. CASE curCh[h] # ChannelOf[s]
        BY <1>2, <1>3, <2>1, <2>3 DEF AfterUntrack
  <2> QED BY <2>2, <2>3
<1>12. CASE UnsubWait(h)
  <2>1. pc[h] = "uWait" /\ UNCHANGED chTodo
        BY <1>12 DEF UnsubWait
  <2>2. ChannelOf[s] \in chTodo[h] \cup awaiting[h] \/ Left(s)
        BY <1>3, <2>1 DEF AfterUntrack
  <2>3. CASE UNCHANGED awaiting
        BY <1>2, <2>1, <2>2, <2>3
  <2>4. ASSUME NEW ch \in awaiting[h], awaiting'[h] = awaiting[h] \ {ch}, curCh'[h] = ch,
               pc'[h] = "uRemove"
        PROVE  ChannelOf[s] \in chTodo'[h] \cup awaiting'[h] \/ AtHand(s)' \/ Left(s)'
        BY <1>2, <2>1, <2>2, <2>4
  <2>5. \/ UNCHANGED awaiting
        \/ \E ch \in awaiting[h] : /\ awaiting'[h] = awaiting[h] \ {ch} /\ curCh'[h] = ch
                                   /\ pc'[h] = "uRemove"
        BY <1>0, <1>12 DEF UnsubWait, Go, CallTypes
  <2> QED BY <2>3, <2>4, <2>5
<1> QED BY <1>0, <1>4, <1>5, <1>6, <1>7, <1>8, <1>9, <1>10, <1>11, <1>12, LateSteps

\* The last part of the invariant is preserved.
LEMMA LeavingStep ==
  ASSUME TypeOK, Placed, AllAlive, NotYet, Homes, Registry, PendingHasOwner, CloseFlag, Leaving,
         [Next]_vars
  PROVE  Leaving'
<1>1. \A h \in Handles : Phases(h)' /\ GivenUp(h)'
      BY PhasesStep, GivenUpStep DEF Leaving
<1>2. ASSUME ~closed'
      PROVE  /\ LeftPool'
             /\ \A c \in Conns : NotReturned(c)'
             /\ \A h \in Handles :
                  /\ pc'[h] \in AfterUntrack => Appended(h)' \cap global' = {}
                  /\ DistinctChannels(h) => Quieted(h)' /\ Removed(h)'
  <2>0. ~closed
        BY <1>2, OpenSteps
  <2>1. /\ LeftPool /\ \A c \in Conns : NotReturned(c)
        /\ \A h \in Handles : /\ pc[h] \in AfterUntrack => Appended(h) \cap global = {}
                              /\ DistinctChannels(h) => Quieted(h) /\ Removed(h)
        /\ PendingRegistered /\ \A h \in Handles : Confirming(h)
        BY <2>0 DEF Leaving, Registry
  <2>2. LeftPool'
        BY <1>2, <2>1, LeftPoolStep
  <2>3. \A c \in Conns : NotReturned(c)'
        BY <1>2, <2>1, NotReturnedStep
  <2>4. \A h \in Handles : pc'[h] \in AfterUntrack => Appended(h)' \cap global' = {}
        BY <1>2, <2>1, UntrackedStep
  <2>5. \A h \in Handles : DistinctChannels(h) => Quieted(h)' /\ Removed(h)'
        BY <1>2, <2>1, QuietedStep, RemovedStep
  <2> QED BY <2>2, <2>3, <2>4, <2>5
<1>3. \A h \in Handles : DistinctChannels(h)' = DistinctChannels(h)
      BY DEF DistinctChannels, Own
<1> QED BY <1>1, <1>2, <1>3 DEF Leaving

-----------------------------------------------------------------------------
(* The invariant and what follows from it *)

\* The invariant holds at the start.
LEMMA SafeInit == Init => SafeInv
<1> SUFFICES ASSUME Init PROVE SafeInv
    OBVIOUS
<1>1. Alive = {}
      BY DEF Init, Alive
<1>2. CloseFlag /\ NotYet
      BY <1>1 DEF Init, CloseFlag, NotYet
<1>3. Homes
      BY <1>1 DEF Init, Homes
<1>4. InOrder
  <2>1. \A c \in Conns : InboxInOrder(c) /\ TakenOnce(c)
        BY SubMuxAssumption DEF Init, InboxInOrder, TakenOnce
  <2> QED BY <1>1, <2>1 DEF InOrder
<1>5. Registry /\ PendingHasOwner
      BY DEF Init, Registry, PendingRegistered, Unregistered, Confirming, PendingHasOwner
<1>6. Leaving
  <2>1. LeftPool /\ \A c \in Conns : NotReturned(c)
        BY DEF Init, LeftPool, NotReturned
  <2>2. \A h \in Handles : pc[h] = "new" /\ chTodo[h] = {} /\ awaiting[h] = {}
        BY DEF Init
  <2>3. \A h \in Handles : Phases(h) /\ GivenUp(h)
        BY <2>2 DEF Phases, GivenUp, UnsubPcs
  <2>4. \A h \in Handles : pc[h] \notin AfterUntrack /\ Quieted(h) /\ Removed(h)
        BY <2>2 DEF Quieted, Removed, AfterUntrack
  <2> QED BY <2>1, <2>3, <2>4 DEF Leaving
<1> QED BY <1>2, <1>3, <1>4, <1>5, <1>6 DEF SafeInv

\* The inductive invariant: when subscriptions are created and where they live,
\* the order of messages on the way, who owns the pending entries, and how far
\* each caller that gives up or unsubscribes has come.
THEOREM SafeInvariance == Spec => [](IInv /\ SafeInv)
<1>1. IInv /\ SafeInv /\ [Next]_vars => IInv' /\ SafeInv'
  <2> SUFFICES ASSUME IInv, SafeInv, [Next]_vars PROVE IInv' /\ SafeInv'
      OBVIOUS
  <2>1. IInv'
        BY TypeStep, PlacedStep, AliveStep, SignalStep DEF IInv
  <2>2. /\ TypeOK /\ Placed /\ AllAlive /\ CloseFlag /\ NotYet /\ Homes /\ InOrder /\ Registry
        /\ PendingHasOwner /\ Leaving /\ PendingRegistered
        BY DEF IInv, SafeInv, Registry
  <2>3. CloseFlag' /\ NotYet'
        BY <2>2, CloseFlagStep, NotYetStep
  <2>4. Homes' /\ Registry' /\ PendingHasOwner'
        BY <2>2, HomesStep, RegistryStep, PendingHasOwnerStep
  <2>5. InOrder'
        BY <2>2, <2>3, InOrderStep
  <2>6. Leaving'
        BY <2>2, LeavingStep
  <2> QED BY <2>1, <2>3, <2>4, <2>5, <2>6 DEF SafeInv
<1> QED BY <1>1, InitHolds, SafeInit, PTL DEF Spec

\* Whatever the callers, the other connections and Close do, a subscription is
\* handed each message at most once and in the order of publication, and the signal
\* of a lost connection after all of them: the event loop receives in order,
\* finishes one snapshot before it takes the next message and receives nothing once
\* it signals (eventloop.go:212-227, 285-308).
THEOREM DeliveryTheorem == Spec => []DeliveryInOrder
<1>1. IInv /\ SafeInv => DeliveryInOrder
  <2> SUFFICES ASSUME IInv, SafeInv, NEW s \in Subs PROVE Rising(delivered[s])
      BY DEF DeliveryInOrder, Rising
  <2>1. CASE s \in Alive
        BY <2>1 DEF SafeInv, InOrder, HandedOver
  <2>2. CASE s \notin Alive
        BY <2>2 DEF SafeInv, NotYet, Rising
  <2> QED BY <2>1, <2>2
<1> QED BY <1>1, SafeInvariance, PTL

\* Until Close, no entry of pendingSubscriptions is ever left over: its caller
\* is still inside subscribeToChannel and will remove it or see it confirmed, or
\* the event loop that confirmed it is about to (pool.go:169-226,
\* eventloop.go:176-200).
THEOREM OwnerTheorem == Spec => []PendingHasOwner
<1>1. IInv /\ SafeInv => PendingHasOwner
      BY DEF SafeInv
<1> QED BY <1>1, SafeInvariance, PTL

\* The subscriptions of a call: those appended, the one at hand, those to come.
LEMMA OwnParts ==
  ASSUME TypeOK, Placed, NotYet, NEW h \in Handles, NEW s \in Own(h)
  PROVE  \/ s \in Appended(h)
         \/ idx[h] <= Len(SubsOf[h]) /\ s = Cur(h)
         \/ s \notin Alive
<1>1. PICK i \in 1..Len(SubsOf[h]) : s = SubsOf[h][i]
      BY DEF Own
<1>2. idx[h] \in Nat \ {0} /\ Len(SubsOf[h]) \in Nat
      BY SubMuxAssumption DEF TypeOK, CallTypes
<1>3. CASE i < idx[h]
      BY <1>1, <1>2, <1>3 DEF Appended
<1>4. CASE i = idx[h]
      BY <1>1, <1>2, <1>4 DEF Cur
<1>5. CASE i > idx[h]
      BY <1>1, <1>5 DEF NotYet
<1> QED BY <1>2, <1>3, <1>4, <1>5

\* A Subscribe that fails, at whichever of its channels, for whatever reason and
\* with whatever the other callers and the connections do meanwhile, leaves
\* nothing of it in the global map, on a connection of the pool or among the
\* pending entries (submux.go:334-343, 354-475).
THEOREM RollbackTheorem == Spec => []FailedLeavesNothing
<1>1. IInv /\ SafeInv => FailedLeavesNothing
  <2> SUFFICES ASSUME IInv, SafeInv, ~closed, NEW h \in Handles, pc[h] = "failed"
               PROVE  /\ Own(h) \cap global = {}
                      /\ DistinctChannels(h) => \A c \in inPool :
                           /\ Own(h) \cap subscriptions[c] = {}
                           /\ \A ch \in Channels : pending[c][ch] \notin Own(h)
      BY DEF FailedLeavesNothing
  <2>0. /\ TypeOK /\ Placed /\ AllAlive /\ NotYet /\ Homes /\ PendingRegistered
        /\ Phases(h) /\ GivenUp(h) /\ Appended(h) \cap global = {}
        /\ DistinctChannels(h) => Removed(h)
        BY DEF IInv, SafeInv, Registry, Leaving, AfterUntrack
  <2>1. idx[h] <= Len(SubsOf[h]) =>
          Cur(h) \notin global /\ \A c \in Conns : Cur(h) \notin subscriptions[c]
        BY <2>0 DEF GivenUp
  <2>2. Own(h) \cap global = {}
        BY <2>0, <2>1, OwnParts DEF AllAlive
  <2>3. ASSUME DistinctChannels(h), NEW c \in inPool, NEW s \in Own(h)
        PROVE  s \notin subscriptions[c]
    <3>0. c \in Conns
          BY <2>0 DEF TypeOK, MuxTypes
    <3>1. CASE s \in Appended(h)
      <4>1. chTodo[h] = {} /\ awaiting[h] = {}
            BY <2>0 DEF Phases
      <4>2. pubsub[s] \notin inPool \/ s \notin subscriptions[pubsub[s]]
            BY <2>0, <2>3, <3>1, <4>1 DEF Removed, AfterUntrack
      <4> QED BY <2>0, <3>0, <4>2 DEF Homes
    <3>2. CASE idx[h] <= Len(SubsOf[h]) /\ s = Cur(h)
          BY <2>1, <3>0, <3>2
    <3>3. CASE s \notin Alive
          BY <2>0, <3>0, <3>3 DEF AllAlive, ConnAlive
    <3> QED BY <2>0, <3>1, <3>2, <3>3, OwnParts
  <2>4. ASSUME DistinctChannels(h), NEW c \in inPool, NEW ch \in Channels
        PROVE  pending[c][ch] \notin Own(h)
    <3>1. c \in Conns
          BY <2>0 DEF TypeOK, MuxTypes
    <3>2. pending[c][ch] # NoSub => pending[c][ch] \in subscriptions[c]
          BY <2>0, <3>1 DEF PendingRegistered
    <3>3. NoSub \notin Own(h)
          BY SubMuxAssumption DEF Own
    <3> QED BY <2>3, <2>4, <3>2, <3>3
  <2> QED BY <2>2, <2>3, <2>4
<1> QED BY <1>1, SafeInvariance, PTL

\* Once Unsubscribe has returned, the subscription is put into no snapshot and the
\* event loop decides on no further message for it.  What it still hands over is
\* what it had in hand: a message whose state check came before Unsubscribe closed
\* the subscription, or the signal of a lost connection (eventloop.go:221-224,
\* 291-306, submux.go:585-588).
THEOREM QuietTheorem == Spec => QuietAfterUnsubscribe
<1>1. IInv /\ SafeInv /\ [Next]_vars =>
        [\A h \in Handles : pc[h] = "gone" /\ ~closed /\ DistinctChannels(h) =>
           \A s \in Own(h) :
             LET c == pubsub[s]
             IN  /\ c # NoConn /\ s \in loopTodo'[c] => s \in loopTodo[c]
                 /\ InHand(s)' => InHand(s) \/ (loop[c] = "notify" /\ s \in loopTodo[c])
                 /\ delivered'[s] # delivered[s] => InHand(s)]_vars
  <2> SUFFICES ASSUME IInv, SafeInv, [Next]_vars, NEW h \in Handles, pc[h] = "gone", ~closed,
                      DistinctChannels(h), NEW s \in Own(h)
               PROVE  /\ s \in loopTodo'[pubsub[s]] => s \in loopTodo[pubsub[s]]
                      /\ InHand(s)' => \/ InHand(s)
                                       \/ loop[pubsub[s]] = "notify" /\ s \in loopTodo[pubsub[s]]
                      /\ delivered'[s] # delivered[s] => InHand(s)
      OBVIOUS
  <2>0. /\ TypeOK /\ Placed /\ AllAlive /\ NotYet /\ Homes /\ Phases(h) /\ Quieted(h) /\ Removed(h)
        /\ LeftPool
        BY DEF IInv, SafeInv, Leaving
  <2>1. s \in Appended(h)
    <3>1. PICK i \in 1..Len(SubsOf[h]) : s = SubsOf[h][i]
          BY DEF Own
    <3>2. idx[h] \in Nat /\ idx[h] > Len(SubsOf[h]) /\ Len(SubsOf[h]) \in Nat
          BY <2>0, SubMuxAssumption DEF Phases, TypeOK, CallTypes
    <3>3. i \in 1..(idx[h] - 1)
          BY <3>2
    <3> QED BY <3>1, <3>3 DEF Appended
  <2>2. Silenced(s) /\ (pubsub[s] \notin inPool \/ s \notin subscriptions[pubsub[s]])
    <3>1. chTodo[h] = {} /\ awaiting[h] = {}
          BY <2>0 DEF Phases
    <3> QED BY <2>0, <2>1, <3>1 DEF Quieted, Removed, AfterUntrack
  <2>3. s \in Alive /\ s \in Subs
        BY <2>0, <2>1 DEF AllAlive, CallAlive, Alive
  <2> DEFINE c == pubsub[s]
  <2>4. /\ c \in Conns /\ c # NoConn /\ pubsub'[s] = c
        /\ c \notin inPool => loop[c] \in {"zombies", "ended"}
    <3>1. c \in Conns /\ connState[c] # "none"
          BY <2>0, <2>3 DEF Homes
    <3>2. pubsub'[s] = c
          BY <2>0, <2>3, HomeStays
    <3> QED BY <2>0, <3>1, <3>2, SubMuxAssumption DEF LeftPool
  <2> HIDE DEF c
  <2>5. InHand(s)' <=> loop'[c] \in {"handOver", "signal"} /\ loopSub'[c] = s
        BY <2>4 DEF InHand
  <2>6. InHand(s) <=> loop[c] \in {"handOver", "signal"} /\ loopSub[c] = s
        BY <2>4 DEF InHand, c
  <2>7. ASSUME loopTodo'[c] = loopTodo[c], loopSub'[c] = loopSub[c],
               loop'[c] = loop[c] \/ loop'[c] = "select", delivered'[s] = delivered[s]
        PROVE  /\ s \in loopTodo'[c] => s \in loopTodo[c]
               /\ InHand(s)' => InHand(s)
               /\ delivered'[s] = delivered[s]
        BY <2>5, <2>6, <2>7
  <2>8. ASSUME NEW d \in Conns, LoopStep(d) \/ Break(d)
        PROVE  /\ s \in loopTodo'[c] => s \in loopTodo[c]
               /\ InHand(s)' => InHand(s) \/ (loop[c] = "notify" /\ s \in loopTodo[c])
               /\ delivered'[s] # delivered[s] => InHand(s)
    <3>1. s \in loopTodo'[c] => s \in loopTodo[c]
      <4>1. c # d => loopTodo'[c] = loopTodo[c]
            BY <2>0, <2>4, <2>8, LoopOthers
      <4>2. c = d => \/ loopTodo'[c] \subseteq loopTodo[c]
                     \/ loop[c] \in {"select", "snapshot"} /\ loopTodo'[c] \subseteq subscriptions[c]
            BY <2>0, <2>8, LoopTakes
      <4> QED BY <2>2, <2>4, <4>1, <4>2 DEF c
    <3>2. InHand(s)' => InHand(s) \/ (loop[c] = "notify" /\ s \in loopTodo[c])
      <4>1. c # d => loop'[c] = loop[c] /\ loopSub'[c] = loopSub[c]
            BY <2>0, <2>4, <2>8, LoopOthers
      <4>2. c = d /\ loop'[c] \in {"handOver", "signal"} =>
              \/ loop'[c] = loop[c] /\ loopSub'[c] = loopSub[c]
              \/ loop[c] = "notify" /\ loopSub'[c] \in loopTodo[c]
              \/ loop[c] = "dispatch" /\ state[loopSub'[c]] \notin {"closed", "failed"}
            BY <2>0, <2>8, LoopTakes
      <4>3. loop[c] = "dispatch" => state[s] \in {"closed", "failed"}
            BY <2>2 DEF Silenced, c
      <4> QED BY <2>5, <2>6, <4>1, <4>2, <4>3
    <3>3. delivered'[s] # delivered[s] => InHand(s)
      <4>1. ASSUME delivered'[s] # delivered[s] PROVE LoopHandsOver(d) \/ LoopSignals(d)
            BY <2>0, <2>8, <4>1, LoopDelivers DEF LoopReceivesMessage
      <4>2. ASSUME LoopHandsOver(d) \/ LoopSignals(d), delivered'[s] # delivered[s] PROVE InHand(s)
        <5>1. loop[d] \in {"handOver", "signal"} /\ loopSub[d] = s
              BY <2>0, <2>3, <4>2 DEF LoopHandsOver, LoopSignals, TypeOK
        <5>2. c = d
              BY <2>0, <5>1 DEF Homes, c
        <5> QED BY <2>6, <5>1, <5>2
      <4> QED BY <4>1, <4>2
    <3> QED BY <3>1, <3>2, <3>3
  <2>9. ASSUME NEW g \in Handles, CallerStep(g)
        PROVE  /\ loopTodo'[c] = loopTodo[c] /\ loopSub'[c] = loopSub[c]
               /\ loop'[c] = loop[c] \/ loop'[c] = "select"
               /\ delivered'[s] = delivered[s]
    <3>1. UNCHANGED <<loopSub, loopTodo, delivered>>
          BY <2>0, <2>9, CallerOthers
    <3>2. UNCHANGED loop \/ Create(g)
          BY <2>9 DEF CallerStep, CallStep, Goto, Subscribe, Unsubscribe, Expire, Lookup, List,
             CreateFails, MetadataGone, Track, Register, SendQueues, SendFails, Confirm,
             WaitActive, WaitExpires, CheckPending, CheckState, Activate, SendCleanup, Untrack,
             Unregister, Abort, UnsubCheck, UnsubCount, UnsubUntrack, UnsubPhase1, UnsubQueues,
             UnsubSendFails, UnsubClean, UnsubWait, UnsubRemove
    <3> QED BY <2>0, <2>4, <3>1, <3>2 DEF Create, TypeOK, LoopTypes
  <2>10. CASE UNCHANGED <<loop, loopSub, loopTodo, delivered>>
        BY <2>7, <2>10 DEF c
  <2>11. UNCHANGED <<loop, loopSub, loopTodo, delivered>> \/ (\E g \in Handles : CallerStep(g))
           \/ \E d \in Conns : LoopStep(d) \/ Break(d)
        BY <2>0, CloseOthers, PublishOthers DEF Next, CallerStep, vars
  <2> QED BY <2>7, <2>8, <2>9, <2>10, <2>11 DEF c
<1> QED BY <1>1, SafeInvariance, PTL DEF Spec, QuietAfterUnsubscribe

-----------------------------------------------------------------------------
(* What a caller that was told nil relies on: Redis has its topic *)

\* Redis has the channel, for every kind of subscription to it.
HasTopic(c, ch) == \A s \in Subs : ChannelOf[s] = ch => Topic(s) \in topics[c]

\* Somebody may rely on the channel, unless the connection is lost.
Vouched(c, ch) == wire[c] = "lost" \/ HasTopic(c, ch)

\* Only subscribers of the connection's own are on their way to Redis.
OnlySubscribes(c) ==
  \A i \in 1..Len(cmdCh[c]) : cmdCh[c][i].op = "subscribe" /\ pubsub[cmdCh[c][i].sub] = c

\* The event loop of the connection is ending, or somebody was told so.
Dying(c) ==
  \/ connState[c] \in {"failed", "closed"} \/ done[c] # "open" \/ loopDone[c] = "closed"
  \/ loop[c] \notin {"off", "select", "confirm", "unpend", "dispatch", "handOver"}

\* Only the loss of a connection makes a command fail.
LostOnly(c) ==
  /\ Dying(c) => wire[c] = "lost"
  /\ loop[c] # "expired"
  /\ loop[c] = "rejected" => pubsub[loopSub[c]] = c

\* A confirmation on its way, the one being handled, and an entry without a
\* pending one all vouch for the channel.
ChannelsBacked(c) ==
  /\ \A i \in 1..Len(inbox[c]) : inbox[c][i].kind = "confirm" => Vouched(c, inbox[c][i].channel)
  /\ loop[c] \in {"confirm", "unpend"} => Vouched(c, ChannelOf[loopSub[c]])
  /\ \A s \in subscriptions[c] : pending[c][ChannelOf[s]] # NoSub \/ Vouched(c, ChannelOf[s])

\* Good news of a subscription vouches for its channel, bad news means a loss.
SubBacked(s) ==
  /\ state[s] # "closed"
  /\ state[s] = "active" \/ confirmCh[s] = "nil" \/ doneCh[s] = "nil"
       => Vouched(pubsub[s], ChannelOf[s])
  /\ state[s] = "failed" \/ confirmCh[s] = "err" \/ doneCh[s] = "err"
       => wire[pubsub[s]] = "lost"

\* What a caller has concluded.
CallBacked(h) ==
  /\ pc[h] = "activate" => Vouched(CurConn(h), CurChannel(h))
  /\ pc[h] \in {"waitActive", "checkPending"} =>
       pubsub[waitOn[h]] = CurConn(h) /\ ChannelOf[waitOn[h]] = CurChannel(h)
  /\ pc[h] = "checkPending" => doneCh[waitOn[h]] = "nil"
  /\ pc[h] \in {"dropPending", "untrack", "unregister"} => wire[CurConn(h)] = "lost"

\* Everything anybody was told about a connection, a subscription or a channel.
Backed ==
  /\ \A c \in Conns : OnlySubscribes(c) /\ LostOnly(c) /\ ChannelsBacked(c)
  /\ \A s \in Alive : SubBacked(s)
  /\ \A h \in Handles : CallBacked(h)

\* A handle that unsubscribes has something to unsubscribe from.
HasSome == \A h \in Handles : pc[h] \in UnsubPcs => idx[h] # 1

\* doneCh is open before the subscription exists.
Unannounced == \A s \in Subs : s \notin Alive => doneCh[s] = "open"

\* What is inductive: Backed while nothing disturbs, and what makes
\* disturbances irrevocable.
ConfirmInv == HasSome /\ Unannounced /\ (Undisturbed => Backed)

\* The calls to Subscribe that no deadline cuts.
Arrives(h) ==
  \/ Subscribe(h) \/ Lookup(h) \/ Create(h) \/ List(h) \/ CreateFails(h) \/ MetadataGone(h)
  \/ Track(h)
  \/ Register(h) \/ SendQueues(h) \/ SendFails(h) \/ Confirm(h) \/ WaitActive(h)
  \/ CheckPending(h) \/ CheckState(h) \/ Activate(h) \/ SendCleanup(h) \/ Untrack(h)
  \/ Unregister(h) \/ Abort(h)

\* Only a handle with a channel behind it rolls back or unsubscribes.
LEMMA HasSomeStep == ASSUME TypeOK, Placed, AllAlive, HasSome, Leaving, [Next]_vars PROVE HasSome'
<1> SUFFICES ASSUME NEW h \in Handles, pc'[h] \in UnsubPcs PROVE idx'[h] # 1
    BY DEF HasSome
<1>0. /\ CallTypes /\ Len(SubsOf[h]) \in Nat \ {0} /\ idx[h] \in Nat /\ Phases(h)
      /\ (pc[h] \in UnsubPcs => idx[h] # 1)
      BY SubMuxAssumption DEF TypeOK, CallTypes, Leaving, HasSome
<1> USE DEF Go, Goto, UnsubPcs
<1>1. CASE Subscribe(h) \/ Unsubscribe(h) \/ Expire(h) \/ Lookup(h) \/ Create(h) \/ List(h)
             \/ CreateFails(h)
             \/ MetadataGone(h) \/ Track(h) \/ Register(h)
      BY <1>0, <1>1 DEF CallTypes, Subscribe, Unsubscribe, Expire, Lookup, Create, List,
         CreateFails, MetadataGone, Track, Register, RegisterDecision, Phases
<1>2. CASE SendQueues(h) \/ SendFails(h) \/ Confirm(h) \/ WaitActive(h) \/ WaitExpires(h)
             \/ CheckPending(h) \/ CheckState(h) \/ Activate(h) \/ SendCleanup(h) \/ Untrack(h)
             \/ Unregister(h) \/ Abort(h)
      BY <1>0, <1>2 DEF CallTypes, SendQueues, SendFails, Confirm, WaitActive, WaitExpires,
         CheckPending, CheckState, Activate, SendCleanup, Untrack, Unregister, Abort, Advance
<1>3. CASE UnsubCheck(h) \/ UnsubCount(h) \/ UnsubUntrack(h) \/ UnsubPhase1(h) \/ UnsubQueues(h)
             \/ UnsubSendFails(h) \/ UnsubClean(h) \/ UnsubWait(h) \/ UnsubRemove(h)
      BY <1>0, <1>3 DEF CallTypes, UnsubCheck, UnsubCount, UnsubUntrack, UnsubPhase1, UnsubQueues,
         UnsubSendFails, UnsubClean, UnsubWait, UnsubRemove
<1>4. CASE ~CallerStep(h)
  <2>1. pc'[h] = pc[h] /\ idx'[h] = idx[h]
        BY <1>4, CallerOthers, OthersMove
  <2> QED BY <1>0, <2>1
<1> QED BY <1>1, <1>2, <1>3, <1>4 DEF CallerStep, CallStep

\* doneCh is closed by setState, on a subscription that exists.
LEMMA UnannouncedStep ==
  ASSUME TypeOK, Placed, AllAlive, Unannounced, [Next]_vars PROVE Unannounced'
<1> SUFFICES ASSUME NEW s \in Subs, s \notin Alive' PROVE doneCh'[s] = "open"
    BY DEF Unannounced
<1>0. s \notin Alive /\ doneCh[s] = "open" /\ SubTypes
      BY WhoIsCreated DEF Unannounced, TypeOK
<1>1. CASE StatesMove
      BY <1>0, <1>1 DEF StatesMove, SetState, SetClosed, Announced, SubTypes
<1>2. CASE \E h \in Handles : Track(h) \/ Confirm(h)
      BY <1>0, <1>2 DEF Track, Confirm
<1> QED BY <1>1, <1>2, CallerStates, OthersMove DEF CallerStep

\* What disturbs is never undone, so an undisturbed state comes from one.
LEMMA UndisturbedBefore ==
  ASSUME TypeOK, Placed, AllAlive, CloseFlag, HasSome, [Next]_vars, Undisturbed'
  PROVE  /\ Undisturbed /\ ~closed'
         /\ \/ \E h \in Handles : Arrives(h)
            \/ \E c \in Conns : LoopStep(c) \/ Break(c)
            \/ \E type \in Types, ch \in Channels : Publish(type, ch)
            \/ UNCHANGED vars
<1> USE DEF Go, Goto, UnsubPcs
<1>0. /\ ~closed' /\ ~closed
      /\ \A h \in Handles : /\ ctx'[h] = "live" /\ pc'[h] \notin UnsubPcs \cup {"gone"}
                            /\ pc'[h] = "failed" => idx'[h] = 1
      BY OpenSteps DEF Undisturbed
<1>1. ASSUME NEW h \in Handles, CallerStep(h)
      PROVE  /\ Arrives(h) /\ ctx[h] = "live" /\ pc[h] \notin UnsubPcs \cup {"gone"}
             /\ pc[h] = "failed" => idx[h] = 1
  <2>0. CallTypes /\ (pc[h] \in UnsubPcs => idx[h] # 1) /\ ctx'[h] = "live"
        /\ pc'[h] \notin UnsubPcs \cup {"gone"} /\ (pc'[h] = "failed" => idx'[h] = 1)
        BY <1>0 DEF TypeOK, HasSome
  <2>1. CASE Subscribe(h) \/ Unsubscribe(h) \/ Expire(h) \/ Lookup(h) \/ Create(h)
               \/ List(h) \/ CreateFails(h) \/ MetadataGone(h) \/ Track(h) \/ Register(h)
        BY <2>0, <2>1 DEF Arrives, CallTypes, Subscribe, Unsubscribe, Expire, Lookup, Create,
           List, CreateFails, MetadataGone, Track, Register
  <2>2. CASE SendQueues(h) \/ SendFails(h) \/ Confirm(h) \/ WaitActive(h) \/ WaitExpires(h)
               \/ CheckPending(h) \/ CheckState(h) \/ Activate(h) \/ SendCleanup(h) \/ Untrack(h)
               \/ Unregister(h) \/ Abort(h)
        BY <2>0, <2>2 DEF Arrives, CallTypes, SendQueues, SendFails, Confirm, WaitActive,
           WaitExpires, CheckPending, CheckState, Activate, SendCleanup, Untrack, Unregister,
           Abort
  <2>3. CASE UnsubCheck(h) \/ UnsubCount(h) \/ UnsubUntrack(h) \/ UnsubPhase1(h) \/ UnsubQueues(h)
               \/ UnsubSendFails(h) \/ UnsubClean(h) \/ UnsubWait(h) \/ UnsubRemove(h)
        BY <2>0, <2>3 DEF CallTypes, UnsubCheck, UnsubCount, UnsubUntrack, UnsubPhase1,
           UnsubQueues, UnsubSendFails, UnsubClean, UnsubWait, UnsubRemove, Ended
  <2> QED BY <1>1, <2>1, <2>2, <2>3 DEF CallerStep, CallStep
<1>2. ASSUME NEW g \in Handles
      PROVE  /\ ctx[g] = "live" /\ pc[g] \notin UnsubPcs \cup {"gone"}
             /\ pc[g] = "failed" => idx[g] = 1
  <2>1. CASE CallerStep(g)
        BY <1>1, <2>1
  <2>2. CASE ~CallerStep(g)
    <3>1. ctx'[g] = ctx[g] /\ pc'[g] = pc[g] /\ idx'[g] = idx[g]
          BY <2>2, CallerOthers, OthersMove
    <3> QED BY <1>0, <3>1
  <2> QED BY <2>1, <2>2
<1>3. OneTypePerName
      BY DEF Undisturbed, OneTypePerName
<1> QED BY <1>0, <1>1, <1>2, <1>3, OpenSteps DEF Undisturbed

\* A lost connection stays lost, and Redis forgets a topic of another only for
\* an UNSUBSCRIBE.
LEMMA VouchedStays ==
  ASSUME TypeOK, Placed, AllAlive, CloseFlag, HasSome, Undisturbed', Backed, [Next]_vars,
         NEW c \in Conns
  PROVE  /\ wire[c] = "lost" => wire'[c] = "lost"
         /\ \A ch : Vouched(c, ch) => Vouched(c, ch)'
<1>0. ServerTypes
      BY DEF TypeOK
<1> SUFFICES (wire[c] = "lost" => wire'[c] = "lost") /\ (wire'[c] = "lost" \/ topics[c] \subseteq topics'[c])
    BY DEF Vouched, HasTopic
<1>1. ASSUME NEW h \in Handles, Arrives(h) PROVE UNCHANGED <<topics, wire>>
      BY <1>1, CallerOthers DEF Arrives, CallerStep, CallStep
<1>2. ASSUME NEW type \in Types, NEW ch \in Channels, Publish(type, ch)
      PROVE  UNCHANGED <<topics, wire>>
      BY <1>2, PublishOthers
<1>3. ASSUME NEW d \in Conns, LoopSends(d)
      PROVE  UNCHANGED wire /\ topics[c] \subseteq topics'[c]
  <2>1. cmdCh[d] \in Seq(Commands) /\ cmdCh[d] # <<>> /\ UNCHANGED wire
        BY <1>3 DEF LoopSends, TypeOK, MetaTypes
  <2>2. Head(cmdCh[d]) = cmdCh[d][1] /\ 1 \in 1..Len(cmdCh[d])
        BY <2>1
  <2>3. Head(cmdCh[d]).op = "subscribe"
        BY <2>2 DEF Backed, OnlySubscribes
  <2>4. topics' = [topics EXCEPT ![d] = @ \cup {Topic(Head(cmdCh[d]).sub)}]
        BY <1>3, <2>3 DEF LoopSends
  <2> QED BY <1>0, <2>1, <2>4 DEF ServerTypes
<1>4. ASSUME NEW d \in Conns, Break(d)
      PROVE  /\ wire[c] = "lost" => wire'[c] = "lost"
             /\ wire'[c] = "lost" \/ topics[c] \subseteq topics'[c]
      BY <1>0, <1>4 DEF Break, ServerTypes
<1>5. ASSUME NEW d \in Conns, LoopStep(d), ~LoopSends(d) PROVE UNCHANGED <<topics, wire>>
      BY <1>5 DEF LoopStep, LoopSendFails, LoopFailsSub, LoopLosesChannel, LoopMarksFailed,
         LoopSnapshots, LoopNotifies, LoopSignals, LoopReceivesConfirmation, LoopConfirms,
         LoopUnpends, LoopReceivesMessage, LoopDispatches, LoopHandsOver, LoopStops, LoopDrains,
         LoopClosesLoopDone, LoopExits, LoopRetires, LoopRemovesConn, LoopCleansZombies
<1> QED BY <1>1, <1>2, <1>3, <1>4, <1>5, UndisturbedBefore DEF vars

\* What the event loop of d does to the rest of a connection's data.
LEMMA LoopMeta ==
  ASSUME TypeOK, NEW d \in Conns, LoopStep(d) \/ Break(d)
  PROVE  /\ \A c \in Conns \ {d} : /\ cmdCh'[c] = cmdCh[c] /\ done'[c] = done[c]
                                   /\ loopDone'[c] = loopDone[c]
         /\ cmdCh'[d] = cmdCh[d] \/ cmdCh'[d] = <<>> \/ (cmdCh[d] # <<>> /\ cmdCh'[d] = Tail(cmdCh[d]))
<1>0. MetaTypes
      BY DEF TypeOK
<1>1. CASE LoopSends(d) \/ LoopSendFails(d) \/ LoopDrains(d) \/ LoopClosesLoopDone(d)
             \/ LoopRetires(d)
      BY <1>0, <1>1 DEF MetaTypes, LoopSends, LoopSendFails, LoopDrains, LoopClosesLoopDone,
         LoopRetires, CloseMeta
<1>2. CASE UNCHANGED <<cmdCh, done, loopDone>>
      BY <1>2
<1> QED BY <1>1, <1>2 DEF LoopStep, LoopFailsSub, LoopLosesChannel, LoopMarksFailed,
         LoopSnapshots, LoopNotifies, LoopSignals, LoopReceivesConfirmation, LoopConfirms,
         LoopUnpends, LoopReceivesMessage, LoopDispatches, LoopHandsOver, LoopStops, LoopExits,
         LoopRemovesConn, LoopCleansZombies, Break

\* Callers that only subscribe queue only SUBSCRIBE, to their own connection.
LEMMA ArrivesMeta ==
  ASSUME TypeOK, Placed, NEW h \in Handles, Arrives(h)
  PROVE  /\ UNCHANGED <<done, loopDone>>
         /\ \/ UNCHANGED cmdCh
            \/ /\ UNCHANGED pubsub /\ CurConn(h) \in Conns
               /\ cmdCh' = [cmdCh EXCEPT ![CurConn(h)] = Append(@, Command("subscribe", Cur(h), h))]
<1>1. CASE SendQueues(h)
  <2>1. pc[h] = "send"
        BY <1>1 DEF SendQueues
  <2> QED BY <1>1, <2>1 DEF SendQueues, Queue, Placed, PlacedAt, CreatedPcs
<1>2. CASE ~SendQueues(h)
      BY <1>2 DEF Arrives, Goto, Subscribe, Lookup, Create, List, CreateFails, MetadataGone,
         Track, Register, SendFails, Confirm, WaitActive, CheckPending, CheckState, Activate,
         SendCleanup, Untrack, Unregister, Abort
<1> QED BY <1>1, <1>2

\* Nothing but SUBSCRIBE is queued before somebody leaves.
LEMMA OnlySubscribesStep ==
  ASSUME TypeOK, Placed, AllAlive, NotYet, CloseFlag, HasSome, Undisturbed', Backed, [Next]_vars,
         NEW c \in Conns
  PROVE  OnlySubscribes(c)'
<1>0. /\ cmdCh[c] \in Seq(Commands)
      /\ \A i \in 1..Len(cmdCh[c]) : /\ cmdCh[c][i].op = "subscribe"
                                     /\ pubsub'[cmdCh[c][i].sub] = c
  <2>1. ASSUME NEW i \in 1..Len(cmdCh[c])
        PROVE  cmdCh[c][i].op = "subscribe" /\ pubsub'[cmdCh[c][i].sub] = c
    <3>1. cmdCh[c][i].sub \in Alive
          BY DEF AllAlive, ConnAlive
    <3> QED BY <3>1, HomeStays DEF Backed, OnlySubscribes
  <2> QED BY <2>1 DEF TypeOK, MetaTypes
<1>1. CASE cmdCh'[c] = cmdCh[c] \/ cmdCh'[c] = <<>>
      BY <1>0, <1>1 DEF OnlySubscribes
<1>2. CASE cmdCh[c] # <<>> /\ cmdCh'[c] = Tail(cmdCh[c])
  <2>1. \A i \in 1..Len(cmdCh'[c]) : i + 1 \in 1..Len(cmdCh[c]) /\ cmdCh'[c][i] = cmdCh[c][i + 1]
        BY <1>0, <1>2
  <2> QED BY <1>0, <2>1 DEF OnlySubscribes
<1>3. ASSUME NEW h \in Handles, Arrives(h) PROVE OnlySubscribes(c)'
  <2>1. CASE cmdCh'[c] = cmdCh[c]
        BY <1>1, <2>1
  <2>2. CASE UNCHANGED pubsub /\ CurConn(h) = c /\ cmdCh'[c] = Append(cmdCh[c], Command("subscribe", Cur(h), h))
    <3> DEFINE cmd == Command("subscribe", Cur(h), h)
    <3>1. cmd.op = "subscribe" /\ pubsub'[cmd.sub] = c
          BY <2>2 DEF Command, CurConn
    <3> HIDE DEF cmd
    <3>2. \A i \in 1..Len(cmdCh'[c]) :
            cmdCh'[c][i] = cmd \/ (i \in 1..Len(cmdCh[c]) /\ cmdCh'[c][i] = cmdCh[c][i])
      <4>1. cmdCh'[c] = Append(cmdCh[c], cmd)
            BY <2>2 DEF cmd
      <4> QED BY <1>0, <4>1
    <3> QED BY <1>0, <3>1, <3>2 DEF OnlySubscribes
  <2>3. \/ UNCHANGED cmdCh
        \/ /\ UNCHANGED pubsub /\ CurConn(h) \in Conns
           /\ cmdCh' = [cmdCh EXCEPT ![CurConn(h)] = Append(@, Command("subscribe", Cur(h), h))]
        BY <1>3, ArrivesMeta
  <2> QED BY <2>1, <2>2, <2>3 DEF TypeOK, MetaTypes
<1>4. ASSUME NEW d \in Conns, LoopStep(d) \/ Break(d) PROVE OnlySubscribes(c)'
      BY <1>1, <1>2, <1>4, LoopMeta
<1>5. ASSUME NEW type \in Types, NEW ch \in Channels, Publish(type, ch) PROVE UNCHANGED cmdCh
      BY <1>5, PublishOthers
<1> QED BY <1>1, <1>3, <1>4, <1>5, UndisturbedBefore DEF vars

\* What callers that only subscribe do to the connections and their loops.
LEMMA ArrivesLoops ==
  ASSUME TypeOK, Homes, NEW h \in Handles, Arrives(h), NEW c \in Conns
  PROVE  /\ loopSub'[c] = loopSub[c]
         /\ loop'[c] = loop[c] \/ (loop[c] = "off" /\ loop'[c] = "select")
         /\ connState'[c] = connState[c] \/ connState'[c] = "active"
<1>1. CallerStep(h)
      BY DEF Arrives, CallerStep, CallStep
<1>2. UNCHANGED connState \/ Create(h)
      BY DEF Arrives, Goto, Subscribe, Lookup, List, CreateFails, MetadataGone, Track, Register,
         SendQueues, SendFails, Confirm, WaitActive, CheckPending, CheckState, Activate,
         SendCleanup, Untrack, Unregister, Abort
<1>3. connState'[c] = connState[c] \/ connState'[c] = "active"
      BY <1>2 DEF Create, TypeOK, MetaTypes
<1> QED BY <1>1, <1>3, CallerLoops

\* A command that the loop finds is somebody's SUBSCRIBE whose context is live.
LEMMA HeadOfQueue ==
  ASSUME TypeOK, AllAlive, Undisturbed, Backed, NEW c \in Conns, cmdCh[c] # <<>>
  PROVE  /\ Head(cmdCh[c]).op = "subscribe" /\ Head(cmdCh[c]).sub \in Alive
         /\ pubsub[Head(cmdCh[c]).sub] = c /\ ctx[Head(cmdCh[c]).handle] = "live"
<1>1. cmdCh[c] \in Seq(Commands)
      BY DEF TypeOK, MetaTypes
<1>2. Head(cmdCh[c]) = cmdCh[c][1] /\ 1 \in 1..Len(cmdCh[c]) /\ cmdCh[c][1] \in Commands
      BY <1>1
<1>3. cmdCh[c][1].op = "subscribe" /\ pubsub[cmdCh[c][1].sub] = c
      BY <1>2 DEF Backed, OnlySubscribes
<1>4. cmdCh[c][1].sub \in Alive
      BY <1>2 DEF AllAlive, ConnAlive
<1>5. cmdCh[c][1].handle \in Handles
      BY <1>2 DEF Commands
<1> QED BY <1>2, <1>3, <1>4, <1>5 DEF Undisturbed

\* Only the loss of a connection ends its loop, as long as nobody closes.
LEMMA LostOnlyStep ==
  ASSUME TypeOK, Placed, AllAlive, NotYet, Homes, CloseFlag, HasSome, Undisturbed, Undisturbed',
         Backed, [Next]_vars, NEW c \in Conns
  PROVE  LostOnly(c)'
<1>0. /\ LostOnly(c) /\ (wire[c] = "lost" => wire'[c] = "lost") /\ LoopTypes /\ MetaTypes
      /\ (loop[c] \in {"expired", "rejected"} => loopSub[c] \in Alive)
      BY VouchedStays DEF Backed, TypeOK, AllAlive, ConnAlive
<1>1. ASSUME Dying(c)' => Dying(c), loop'[c] \in {"expired", "rejected"} => loop'[c] = loop[c],
             loopSub'[c] = loopSub[c]
      PROVE  LostOnly(c)'
  <2>1. loop[c] = "rejected" => pubsub'[loopSub[c]] = pubsub[loopSub[c]]
        BY <1>0, HomeStays
  <2> QED BY <1>0, <1>1, <2>1 DEF LostOnly
<1>2. ASSUME NEW h \in Handles, Arrives(h) PROVE LostOnly(c)'
  <2>1. /\ loopSub'[c] = loopSub[c]
        /\ loop'[c] = loop[c] \/ (loop[c] = "off" /\ loop'[c] = "select")
        /\ connState'[c] = connState[c] \/ connState'[c] = "active"
        BY <1>2, ArrivesLoops
  <2>2. UNCHANGED <<done, loopDone>>
        BY <1>2, ArrivesMeta
  <2> QED BY <1>1, <2>1, <2>2 DEF Dying
<1>3. ASSUME NEW d \in Conns, LoopStep(d) \/ Break(d) PROVE LostOnly(c)'
  <2>1. CASE c # d
    <3>1. /\ loop'[c] = loop[c] /\ loopSub'[c] = loopSub[c] /\ connState'[c] = connState[c]
          /\ done'[c] = done[c] /\ loopDone'[c] = loopDone[c]
          BY <1>3, <2>1, LoopOthers, LoopMeta
    <3> QED BY <1>1, <3>1 DEF Dying
  <2>2. CASE c = d /\ LoopSendFails(c)
    <3>1. cmdCh[c] # <<>> /\ UNCHANGED <<wire, pubsub>>
          BY <2>2 DEF LoopSendFails
    <3>2. /\ Head(cmdCh[c]).op = "subscribe" /\ pubsub[Head(cmdCh[c]).sub] = c
          /\ ctx[Head(cmdCh[c]).handle] = "live"
          BY <3>1, HeadOfQueue
    <3>3. wire[c] = "lost" /\ loop'[c] = "rejected" /\ loopSub'[c] = Head(cmdCh[c]).sub
          BY <1>0, <2>2, <3>2 DEF LoopSendFails, LoopTo, LoopTypes
    <3> QED BY <3>1, <3>2, <3>3 DEF LostOnly
  <2>3. CASE c = d /\ (LoopSends(c) \/ LoopReceivesConfirmation(c) \/ LoopConfirms(c)
                         \/ LoopUnpends(c) \/ LoopReceivesMessage(c) \/ LoopDispatches(c)
                         \/ LoopHandsOver(c))
    <3>1. UNCHANGED <<connState, done, loopDone>>
          /\ loop'[c] \in {"select", "confirm", "unpend", "dispatch", "handOver"}
          BY <1>0, <2>3 DEF LoopSends, LoopReceivesConfirmation, LoopConfirms, LoopUnpends,
             LoopReceivesMessage, LoopDispatches, LoopHandsOver, LoopTo, LoopTypes
    <3> QED BY <1>0, <3>1 DEF LostOnly, Dying
  <2>4. CASE c = d /\ Break(c)
        BY <1>1, <2>4 DEF Break, Dying
  <2>5. CASE c = d /\ (LoopFailsSub(c) \/ LoopLosesChannel(c) \/ LoopMarksFailed(c)
                         \/ LoopSnapshots(c) \/ LoopNotifies(c) \/ LoopSignals(c) \/ LoopStops(c)
                         \/ LoopDrains(c)
                         \/ LoopClosesLoopDone(c) \/ LoopExits(c) \/ LoopRetires(c)
                         \/ LoopRemovesConn(c) \/ LoopCleansZombies(c))
    <3>1. wire[c] = "lost"
      <4>1. Dying(c) \/ wire[c] = "lost"
            BY <2>5 DEF Dying, LoopFailsSub, LoopLosesChannel, LoopMarksFailed, LoopSnapshots,
               LoopNotifies, LoopSignals, LoopStops, LoopDrains, LoopClosesLoopDone, LoopExits,
               LoopRetires, LoopRemovesConn, LoopCleansZombies
      <4> QED BY <1>0, <4>1 DEF LostOnly
    <3>2. loop'[c] \notin {"expired", "rejected"}
          BY <1>0, <2>5 DEF LostOnly, LoopFailsSub, LoopLosesChannel, LoopMarksFailed,
             LoopSnapshots, LoopNotifies, LoopSignals, LoopStops, LoopDrains, LoopClosesLoopDone,
             LoopExits, LoopRetires, LoopRemovesConn, LoopCleansZombies, LoopTo, LoopTypes
    <3> QED BY <1>0, <3>1, <3>2 DEF LostOnly
  <2> QED BY <1>3, <2>1, <2>2, <2>3, <2>4, <2>5 DEF LoopStep
<1>4. CASE UNCHANGED <<loop, loopSub, connState, done, loopDone>>
      BY <1>1, <1>4 DEF Dying
<1> QED BY <1>2, <1>3, <1>4, UndisturbedBefore, PublishOthers DEF vars

\* With one type per name, a SUBSCRIBE of the name serves everybody.
LEMMA SentTopic ==
  ASSUME TypeOK, AllAlive, Undisturbed, Backed, NEW c \in Conns, LoopSends(c)
  PROVE  /\ \A s \in Subs : ChannelOf[s] = ChannelOf[Head(cmdCh[c]).sub] => Topic(s) \in topics'[c]
         /\ inbox' = [inbox EXCEPT ![c] = Append(@,
              [kind |-> "confirm", channel |-> ChannelOf[Head(cmdCh[c]).sub], id |-> 0])]
<1>1. cmdCh[c] # <<>>
      BY DEF LoopSends
<1>2. Head(cmdCh[c]).op = "subscribe" /\ Head(cmdCh[c]).sub \in Alive
      BY <1>1, HeadOfQueue
<1>3. topics'[c] = topics[c] \cup {Topic(Head(cmdCh[c]).sub)}
      BY <1>2 DEF LoopSends, TypeOK, ServerTypes
<1>4. \A s \in Subs : ChannelOf[s] = ChannelOf[Head(cmdCh[c]).sub] => Topic(s) = Topic(Head(cmdCh[c]).sub)
      BY <1>2 DEF Undisturbed, OneTypePerName, Topic, Alive
<1> QED BY <1>2, <1>3, <1>4 DEF LoopSends

\* A confirmation on its way was there before, or its SUBSCRIBE is being sent.
LEMMA ConfirmationFrom ==
  ASSUME TypeOK, Placed, AllAlive, CloseFlag, HasSome, Undisturbed, Undisturbed', Backed,
         [Next]_vars, NEW c \in Conns, NEW i \in 1..Len(inbox'[c]), inbox'[c][i].kind = "confirm"
  PROVE  \/ \E j \in 1..Len(inbox[c]) : inbox'[c][i] = inbox[c][j]
         \/ \A s \in Subs : ChannelOf[s] = inbox'[c][i].channel => Topic(s) \in topics'[c]
<1>0. inbox \in [Conns -> Seq(Incoming)] /\ inbox[c] \in Seq(Incoming)
      BY DEF TypeOK, ServerTypes
<1>1. CASE inbox'[c] = inbox[c]
      BY <1>1
<1>2. ASSUME NEW d \in Conns, LoopSends(d)
      PROVE  \/ \E j \in 1..Len(inbox[c]) : inbox'[c][i] = inbox[c][j]
             \/ \A s \in Subs : ChannelOf[s] = inbox'[c][i].channel => Topic(s) \in topics'[c]
  <2> DEFINE m == [kind |-> "confirm", channel |-> ChannelOf[Head(cmdCh[c]).sub], id |-> 0]
  <2>1. CASE c # d
        BY <1>0, <1>1, <1>2, <2>1, LoopOthers DEF LoopStep
  <2>2. CASE c = d
    <3>1. /\ inbox'[c] = Append(inbox[c], m)
          /\ \A s \in Subs : ChannelOf[s] = m.channel => Topic(s) \in topics'[c]
          BY <1>0, <1>2, <2>2, SentTopic
    <3> HIDE DEF m
    <3>2. inbox'[c][i] = m \/ (i \in 1..Len(inbox[c]) /\ inbox'[c][i] = inbox[c][i])
          BY <1>0, <3>1
    <3> QED BY <3>1, <3>2
  <2> QED BY <2>1, <2>2
<1>3. ASSUME NEW d \in Conns, LoopReceivesConfirmation(d) \/ LoopReceivesMessage(d)
      PROVE  \E j \in 1..Len(inbox[c]) : inbox'[c][i] = inbox[c][j]
  <2>1. CASE c # d
        BY <1>0, <1>1, <1>3, <2>1, LoopOthers DEF LoopStep
  <2>2. CASE c = d
    <3>1. inbox[c] # <<>> /\ inbox'[c] = Tail(inbox[c])
          BY <1>0, <1>3, <2>2 DEF LoopReceivesConfirmation, LoopReceivesMessage
    <3>2. i + 1 \in 1..Len(inbox[c]) /\ inbox'[c][i] = inbox[c][i + 1]
          BY <1>0, <3>1
    <3> QED BY <3>2
  <2> QED BY <2>1, <2>2
<1>4. ASSUME NEW d \in Conns, Break(d)
      PROVE  \E j \in 1..Len(inbox[c]) : inbox'[c][i] = inbox[c][j]
  <2>1. CASE c # d
        BY <1>0, <1>1, <1>4, <2>1, LoopOthers
  <2>2. CASE c = d
    <3>1. PICK n \in 0..Len(inbox[c]) : inbox'[c] = SubSeq(inbox[c], 1, n)
          BY <1>0, <1>4, <2>2 DEF Break
    <3>2. i \in 1..Len(inbox[c]) /\ inbox'[c][i] = inbox[c][i]
          BY <1>0, <3>1
    <3> QED BY <3>2
  <2> QED BY <2>1, <2>2
<1>5. ASSUME NEW d \in Conns, LoopStep(d)
      PROVE  \/ LoopSends(d) \/ LoopReceivesConfirmation(d) \/ LoopReceivesMessage(d)
             \/ inbox'[c] = inbox[c]
      BY <1>5 DEF LoopStep, LoopSendFails, LoopFailsSub, LoopLosesChannel, LoopMarksFailed,
         LoopSnapshots, LoopNotifies, LoopSignals, LoopConfirms, LoopUnpends, LoopDispatches,
         LoopHandsOver, LoopStops, LoopDrains, LoopClosesLoopDone, LoopExits, LoopRetires,
         LoopRemovesConn, LoopCleansZombies
<1>6. ASSUME NEW type \in Types, NEW ch \in Channels, Publish(type, ch)
      PROVE  \E j \in 1..Len(inbox[c]) : inbox'[c][i] = inbox[c][j]
  <2> DEFINE m == [kind |-> "message", channel |-> ch, id |-> published + 1]
  <2>1. (inbox'[c] = Append(inbox[c], m) \/ inbox'[c] = inbox[c]) /\ m.kind = "message"
        BY <1>0, <1>6 DEF Publish
  <2> HIDE DEF m
  <2>2. inbox'[c][i] = m \/ (i \in 1..Len(inbox[c]) /\ inbox'[c][i] = inbox[c][i])
        BY <1>0, <2>1
  <2> QED BY <2>1, <2>2
<1>7. ASSUME NEW h \in Handles, Arrives(h) PROVE inbox'[c] = inbox[c]
      BY <1>7, CallerOthers DEF Arrives, CallerStep, CallStep
<1> QED BY <1>1, <1>2, <1>3, <1>4, <1>5, <1>6, <1>7, UndisturbedBefore DEF vars

\* The subscription a loop confirms: its channel's confirmation has arrived.
LEMMA ConfirmedFrom ==
  ASSUME TypeOK, AllAlive, PendingRegistered, Backed, NEW c \in Conns, LoopStep(c) \/ Break(c),
         loop'[c] \in {"confirm", "unpend"}
  PROVE  Vouched(c, ChannelOf[loopSub'[c]])
<1>1. CASE loop[c] \in {"confirm", "unpend"} /\ loopSub'[c] = loopSub[c]
      BY <1>1 DEF Backed, ChannelsBacked
<1>2. CASE LoopReceivesConfirmation(c)
  <2>1. inbox[c] \in Seq(Incoming) /\ inbox[c] # <<>>
        BY <1>2 DEF LoopReceivesConfirmation, TypeOK, ServerTypes
  <2>2. Head(inbox[c]) = inbox[c][1] /\ 1 \in 1..Len(inbox[c]) /\ inbox[c][1] \in Incoming
        BY <2>1
  <2>3. inbox[c][1].kind = "confirm" /\ inbox[c][1].channel \in Channels
        BY <1>2, <2>2 DEF LoopReceivesConfirmation, Incoming
  <2>4. loopSub'[c] = pending[c][inbox[c][1].channel] /\ loopSub'[c] # NoSub
        BY <1>2, <2>2 DEF LoopReceivesConfirmation, LoopTo, TypeOK, LoopTypes
  <2>5. ChannelOf[loopSub'[c]] = inbox[c][1].channel
        BY <2>3, <2>4 DEF PendingRegistered
  <2> QED BY <2>2, <2>3, <2>5 DEF Backed, ChannelsBacked
<1>3. CASE ~LoopReceivesConfirmation(c)
      BY <1>1, <1>3 DEF TypeOK, LoopTypes, LoopTo, LoopStep, LoopSends, LoopSendFails,
         LoopFailsSub, LoopLosesChannel, LoopMarksFailed, LoopSnapshots, LoopNotifies,
         LoopSignals, LoopConfirms, LoopUnpends, LoopReceivesMessage, LoopDispatches,
         LoopHandsOver, LoopStops, LoopDrains, LoopClosesLoopDone, LoopExits, LoopRetires,
         LoopRemovesConn, LoopCleansZombies, Break
<1> QED BY <1>2, <1>3

\* Without a pending entry, the other subscribers of a channel were confirmed.
LEMMA EntriesBacked ==
  ASSUME TypeOK, Placed, AllAlive, NotYet, Homes, CloseFlag, HasSome, Undisturbed, Undisturbed',
         Backed, [Next]_vars, NEW c \in Conns, NEW s \in subscriptions'[c]
  PROVE  pending'[c][ChannelOf[s]] # NoSub \/ Vouched(c, ChannelOf[s])'
<1>0. \A ch : Vouched(c, ch) => Vouched(c, ch)'
      BY VouchedStays
<1>1. ASSUME s \in subscriptions[c], pending'[c][ChannelOf[s]] = pending[c][ChannelOf[s]]
      PROVE  pending'[c][ChannelOf[s]] # NoSub \/ Vouched(c, ChannelOf[s])'
      BY <1>0, <1>1 DEF Backed, ChannelsBacked
<1>2. s \in Subs /\ ChannelOf[s] \in Channels
  <2>1. TypeOK'
        BY TypeStep
  <2> QED BY <2>1, SubMuxAssumption DEF TypeOK, MetaTypes
<1>3. ASSUME NEW h \in Handles, Arrives(h)
      PROVE  pending'[c][ChannelOf[s]] # NoSub \/ Vouched(c, ChannelOf[s])'
  <2>0. CallerStep(h)
        BY <1>3 DEF Arrives, CallerStep, CallStep
  <2>1. s \in subscriptions[c] \/ (Register(h) /\ c = CurConn(h) /\ s = Cur(h))
        BY <2>0, CallerRegisters
  <2>2. CASE Register(h)
    <3>1. /\ \/ pending'[c][ChannelOf[s]] = pending[c][ChannelOf[s]]
             \/ pending'[c][ChannelOf[s]] = Cur(h)
          /\ Cur(h) \in Subs /\ pc'[h] = RegisterDecision(CurConn(h), CurChannel(h))
          /\ pc'[h] = "send" => pending'[CurConn(h)][CurChannel(h)] = Cur(h)
          BY <1>2, <2>2, RegisterEffect
    <3>2. CASE s \in subscriptions[c]
          BY <1>1, <3>1, <3>2, SubMuxAssumption
    <3>3. CASE c = CurConn(h) /\ s = Cur(h)
      <4>1. ChannelOf[s] = CurChannel(h)
            BY <3>3 DEF CurChannel
      <4>2. CASE pending[c][ChannelOf[s]] # NoSub
            BY <3>1, <4>2, SubMuxAssumption
      <4>3. CASE pending[c][ChannelOf[s]] = NoSub /\ OnChannel(subscriptions[c], ChannelOf[s]) = {}
        <5>1. pc'[h] = "send"
              BY <3>1, <3>3, <4>1, <4>3 DEF RegisterDecision
        <5> QED BY <3>1, <3>3, <4>1, <5>1, SubMuxAssumption
      <4>4. CASE pending[c][ChannelOf[s]] = NoSub /\ OnChannel(subscriptions[c], ChannelOf[s]) # {}
        <5>1. PICK t \in subscriptions[c] : ChannelOf[t] = ChannelOf[s]
              BY <4>4 DEF OnChannel
        <5> QED BY <1>0, <4>4, <5>1 DEF Backed, ChannelsBacked
      <4> QED BY <4>2, <4>3, <4>4
    <3> QED BY <2>1, <3>2, <3>3
  <2>3. CASE SendCleanup(h) \/ Unregister(h)
    <3>1. pc[h] \in {"dropPending", "unregister"} /\ CurConn(h) \in Conns /\ CurChannel(h) \in Channels
          BY <2>3, CleanupEffect, UnregisterEffect
    <3>2. CASE c = CurConn(h)
      <4>1. wire[c] = "lost"
            BY <3>1, <3>2 DEF Backed, CallBacked
      <4> QED BY <1>0, <4>1 DEF Vouched
    <3>3. CASE c # CurConn(h)
      <4>1. pending'[c][ChannelOf[s]] = pending[c][ChannelOf[s]]
        <5>1. CASE SendCleanup(h)
              BY <1>2, <3>3, <5>1, CleanupEffect, DropEffect
        <5>2. CASE Unregister(h)
          <6>1. RemoveFromMeta(CurConn(h), {Cur(h)})
                BY <5>2 DEF Unregister
          <6> QED BY <1>2, <3>1, <3>3, <6>1 DEF RemoveFromMeta, TypeOK, MetaTypes
        <5> QED BY <2>3, <5>1, <5>2
      <4> QED BY <1>1, <2>1, <3>3, <4>1
    <3> QED BY <3>2, <3>3
  <2>4. CASE UNCHANGED <<subscriptions, pending>>
        BY <1>1, <2>4
  <2>5. ~(UnsubClean(h) \/ UnsubRemove(h))
    <3>1. pc[h] \notin UnsubPcs
          BY DEF Undisturbed
    <3> QED BY <3>1 DEF UnsubClean, UnsubRemove, UnsubPcs
  <2> QED BY <2>0, <2>2, <2>3, <2>4, <2>5, CallerMeta
<1>4. ASSUME NEW d \in Conns, LoopStep(d) \/ Break(d)
      PROVE  pending'[c][ChannelOf[s]] # NoSub \/ Vouched(c, ChannelOf[s])'
  <2>0. s \in subscriptions[c]
        BY <1>4, LoopOthers
  <2>1. CASE UNCHANGED pending
        BY <1>1, <2>0, <2>1
  <2>2. CASE LoopSendFails(d)
    <3>1. cmdCh[d] # <<>>
          BY <2>2 DEF LoopSendFails
    <3>2. /\ Head(cmdCh[d]).op = "subscribe" /\ Head(cmdCh[d]).sub \in Alive
          /\ ctx[Head(cmdCh[d]).handle] = "live"
          BY <3>1, HeadOfQueue
    <3>3. wire[d] = "lost" /\ DropPending(d, ChannelOf[Head(cmdCh[d]).sub])
          BY <2>2, <3>2 DEF LoopSendFails
    <3>4. ChannelOf[Head(cmdCh[d]).sub] \in Channels
          BY <3>2, SubMuxAssumption DEF Alive
    <3>5. CASE c = d
          BY <1>0, <3>3, <3>5 DEF Vouched
    <3>6. CASE c # d
          BY <1>1, <1>2, <2>0, <3>3, <3>4, <3>6, DropEffect
    <3> QED BY <3>5, <3>6
  <2>3. CASE LoopUnpends(d)
    <3>1. loopSub[d] \in Alive /\ DropPending(d, ChannelOf[loopSub[d]])
          BY <2>3 DEF LoopUnpends, AllAlive, ConnAlive
    <3>2. ChannelOf[loopSub[d]] \in Channels
          BY <3>1, SubMuxAssumption DEF Alive
    <3>3. Vouched(d, ChannelOf[loopSub[d]])
          BY <2>3 DEF LoopUnpends, Backed, ChannelsBacked
    <3>4. CASE c = d /\ ChannelOf[s] = ChannelOf[loopSub[d]]
          BY <1>0, <3>3, <3>4
    <3>5. CASE ~(c = d /\ ChannelOf[s] = ChannelOf[loopSub[d]])
          BY <1>1, <1>2, <2>0, <3>1, <3>2, <3>5, DropEffect
    <3> QED BY <3>4, <3>5
  <2> QED BY <1>4, <2>1, <2>2, <2>3 DEF LoopStep, LoopSends, LoopFailsSub, LoopLosesChannel,
         LoopMarksFailed, LoopSnapshots, LoopNotifies, LoopSignals, LoopReceivesConfirmation,
         LoopConfirms, LoopReceivesMessage, LoopDispatches, LoopHandsOver, LoopStops, LoopDrains,
         LoopClosesLoopDone, LoopExits, LoopRetires, LoopRemovesConn, LoopCleansZombies, Break
<1>5. CASE UNCHANGED <<subscriptions, pending>>
      BY <1>1, <1>5
<1> QED BY <1>3, <1>4, <1>5, UndisturbedBefore, PublishOthers DEF vars

\* Confirmations and entries without a pending one keep vouching.
LEMMA ChannelsBackedStep ==
  ASSUME TypeOK, Placed, AllAlive, NotYet, Homes, PendingRegistered, CloseFlag, HasSome,
         Undisturbed, Undisturbed', Backed, [Next]_vars, NEW c \in Conns
  PROVE  ChannelsBacked(c)'
<1>0. \A ch : Vouched(c, ch) => Vouched(c, ch)'
      BY VouchedStays
<1>1. ASSUME NEW i \in 1..Len(inbox'[c]), inbox'[c][i].kind = "confirm"
      PROVE  Vouched(c, inbox[c][i].channel)'
  <2>1. \/ \E j \in 1..Len(inbox[c]) : inbox'[c][i] = inbox[c][j]
        \/ \A s \in Subs : ChannelOf[s] = inbox'[c][i].channel => Topic(s) \in topics'[c]
        BY <1>1, ConfirmationFrom
  <2>2. CASE \E j \in 1..Len(inbox[c]) : inbox'[c][i] = inbox[c][j]
    <3>1. Vouched(c, inbox'[c][i].channel)
          BY <1>1, <2>2 DEF Backed, ChannelsBacked
    <3> QED BY <1>0, <3>1 DEF Vouched, HasTopic
  <2>3. CASE \A s \in Subs : ChannelOf[s] = inbox'[c][i].channel => Topic(s) \in topics'[c]
        BY <2>3 DEF Vouched, HasTopic
  <2> QED BY <2>1, <2>2, <2>3
<1>2. ASSUME loop'[c] \in {"confirm", "unpend"} PROVE Vouched(c, ChannelOf[loopSub[c]])'
  <2>1. Vouched(c, ChannelOf[loopSub'[c]])
    <3>1. CASE LoopStep(c) \/ Break(c)
          BY <1>2, <3>1, ConfirmedFrom
    <3>2. CASE ~(LoopStep(c) \/ Break(c))
      <4>1. loop[c] \in {"confirm", "unpend"} /\ loopSub'[c] = loopSub[c]
        <5>1. ASSUME NEW h \in Handles, Arrives(h)
              PROVE  loop[c] \in {"confirm", "unpend"} /\ loopSub'[c] = loopSub[c]
              BY <1>2, <5>1, ArrivesLoops
        <5>2. ASSUME NEW d \in Conns, LoopStep(d) \/ Break(d)
              PROVE  loop[c] \in {"confirm", "unpend"} /\ loopSub'[c] = loopSub[c]
              BY <1>2, <3>2, <5>2, LoopOthers
        <5> QED BY <1>2, <5>1, <5>2, UndisturbedBefore, PublishOthers DEF vars
      <4> QED BY <4>1 DEF Backed, ChannelsBacked
    <3> QED BY <3>1, <3>2
  <2> QED BY <1>0, <2>1 DEF Vouched, HasTopic
<1>3. ASSUME NEW s \in subscriptions'[c]
      PROVE  pending'[c][ChannelOf[s]] # NoSub \/ Vouched(c, ChannelOf[s])'
      BY <1>3, EntriesBacked
<1> QED BY <1>1, <1>2, <1>3 DEF ChannelsBacked

\* setState of one subscription, as the others and as itself see it.
LEMMA SetStateEffect ==
  ASSUME TypeOK, NEW t \in Subs, NEW new \in {"active", "failed"}, NEW err \in {"nil", "err"},
         SetState(t, new, err), NEW s \in Subs
  PROVE  /\ s # t => UNCHANGED <<state[s], confirmCh[s], doneCh[s]>>
         /\ s = t => /\ state'[s] = new /\ confirmCh'[s] \in {confirmCh[s], err}
                     /\ doneCh'[s] \in {doneCh[s], err}
BY DEF TypeOK, SubTypes, SetState, Confirmed, Announced

\* Good and bad news of a subscription are true.
LEMMA SubBackedStep ==
  ASSUME TypeOK, Placed, AllAlive, NotYet, Homes, CloseFlag, HasSome, Unannounced, Undisturbed,
         Undisturbed', Backed, [Next]_vars, NEW s \in Alive'
  PROVE  SubBacked(s)'
<1>0. SubTypes /\ s \in Subs
      BY DEF TypeOK, Alive
<1>1. ASSUME s \in Alive
      PROVE  /\ pubsub'[s] = pubsub[s] /\ pubsub[s] \in Conns /\ SubBacked(s)
             /\ wire[pubsub[s]] = "lost" => wire'[pubsub[s]] = "lost"
             /\ Vouched(pubsub[s], ChannelOf[s]) => Vouched(pubsub[s], ChannelOf[s])'
  <2>1. pubsub'[s] = pubsub[s] /\ pubsub[s] \in Conns /\ SubBacked(s)
        BY <1>1, HomeStays DEF Homes, Backed
  <2>2. /\ wire[pubsub[s]] = "lost" => wire'[pubsub[s]] = "lost"
        /\ \A ch : Vouched(pubsub[s], ch) => (wire'[pubsub[s]] = "lost"
             \/ \A t \in Subs : ChannelOf[t] = ch => Topic(t) \in topics'[pubsub[s]])
        BY <2>1, VouchedStays DEF Vouched, HasTopic
  <2> QED BY <2>1, <2>2 DEF Vouched, HasTopic
<1>2. ASSUME s \in Alive, state'[s] = state[s], doneCh'[s] = doneCh[s],
             confirmCh'[s] \in {confirmCh[s], "empty"}
      PROVE  SubBacked(s)'
      BY <1>1, <1>2 DEF SubBacked
<1>3. ASSUME s \in Alive, NEW t \in Subs, NEW c \in Conns, c = pubsub[t],
             \/ SetState(t, "active", "nil") /\ Vouched(c, ChannelOf[t])
             \/ SetState(t, "failed", "err") /\ wire[c] = "lost"
      PROVE  SubBacked(s)'
  <2>1. CASE s # t
        BY <1>0, <1>2, <1>3, <2>1, SetStateEffect
  <2>2. CASE s = t /\ SetState(t, "active", "nil") /\ Vouched(c, ChannelOf[t])
    <3>1. /\ state'[s] = "active" /\ confirmCh'[s] \in {confirmCh[s], "nil"}
          /\ doneCh'[s] \in {doneCh[s], "nil"}
          BY <1>0, <2>2, SetStateEffect
    <3> QED BY <1>1, <1>3, <2>2, <3>1 DEF SubBacked
  <2>3. CASE s = t /\ SetState(t, "failed", "err") /\ wire[c] = "lost"
    <3>1. /\ state'[s] = "failed" /\ confirmCh'[s] \in {confirmCh[s], "err"}
          /\ doneCh'[s] \in {doneCh[s], "err"}
          BY <1>0, <2>3, SetStateEffect
    <3>2. Vouched(pubsub[s], ChannelOf[s]) /\ wire'[pubsub[s]] = "lost"
          BY <1>1, <1>3, <2>3 DEF Vouched
    <3> QED BY <1>1, <1>3, <3>1, <3>2 DEF SubBacked
  <2> QED BY <1>3, <2>1, <2>2, <2>3
<1>4. ASSUME NEW h \in Handles, Arrives(h) PROVE SubBacked(s)'
  <2>1. CASE Track(h)
    <3>1. pc[h] = "track" /\ state' = [state EXCEPT ![Cur(h)] = "pending"]
          /\ UNCHANGED <<confirmCh, doneCh, pubsub>>
          BY <2>1 DEF Track
    <3>2. CASE s # Cur(h)
      <4>1. state'[s] = state[s] /\ s \in Alive
            BY <1>0, <3>1, <3>2 DEF SubTypes, Alive
      <4> QED BY <1>2, <3>1, <4>1
    <3>3. CASE s = Cur(h)
      <4>1. s \notin Alive
        <5>1. idx[h] \in 1..Len(SubsOf[h])
              BY <3>1, SubMuxAssumption DEF TypeOK, CallTypes, Placed, PlacedAt
        <5> QED BY <3>1, <3>3, <5>1 DEF NotYet, Early, Cur
      <4>2. state'[s] = "pending" /\ confirmCh'[s] = "empty" /\ doneCh'[s] = "open"
            BY <1>0, <3>1, <3>3, <4>1 DEF SubTypes, NotYet, Unannounced
      <4> QED BY <4>2 DEF SubBacked
    <3> QED BY <3>2, <3>3
  <2>2. CASE ~Track(h)
    <3>0. s \in Alive
      <4>1. StatesMove \/ Confirm(h)
            BY <1>4, <2>2, CallerStates DEF Arrives, CallStep
      <4>2. CASE Confirm(h)
            BY <1>0, <4>2 DEF Confirm, Alive
      <4> QED BY <1>0, <4>1, <4>2, MoveKeepsNone DEF Alive
    <3>1. CASE Activate(h)
      <4>1. pc[h] = "activate" /\ SetState(Cur(h), "active", "nil")
            BY <3>1 DEF Activate
      <4>2. CurConn(h) \in Conns /\ Cur(h) \in Subs /\ Vouched(CurConn(h), CurChannel(h))
            BY <4>1, CurTypes DEF Backed, CallBacked, Placed, PlacedAt, CreatedPcs
      <4> QED BY <1>3, <3>0, <4>1, <4>2 DEF CurConn, CurChannel
    <3>2. CASE Confirm(h)
          BY <1>0, <1>2, <3>0, <3>2 DEF Confirm, SubTypes
    <3>3. CASE ~Activate(h) /\ ~Confirm(h)
      <4>1. UNCHANGED <<state, confirmCh, doneCh>>
            BY <1>4, <2>2, <3>3 DEF Arrives, Goto, Subscribe, Lookup, Create, List, CreateFails,
               MetadataGone, Register, SendQueues, SendFails, WaitActive, CheckPending,
               CheckState, SendCleanup, Untrack, Unregister, Abort
      <4> QED BY <1>2, <3>0, <4>1
    <3> QED BY <3>1, <3>2, <3>3
  <2> QED BY <2>1, <2>2
<1>5. ASSUME NEW c \in Conns, LoopStep(c) \/ Break(c) PROVE SubBacked(s)'
  <2>0. s \in Alive
    <3>1. StatesMove
          BY <1>5, LoopKeepsAlive
    <3> QED BY <1>0, <3>1, MoveKeepsNone DEF Alive
  <2>1. CASE LoopConfirms(c)
    <3>1. /\ loopSub[c] \in Alive /\ pubsub[loopSub[c]] = c /\ Vouched(c, ChannelOf[loopSub[c]])
          /\ SetState(loopSub[c], "active", "nil")
          BY <2>1 DEF LoopConfirms, AllAlive, ConnAlive, Homes, Backed, ChannelsBacked
    <3> QED BY <1>3, <2>0, <3>1 DEF Alive
  <2>2. CASE LoopFailsSub(c)
    <3>1. loop[c] = "rejected" /\ SetState(loopSub[c], "failed", "err") /\ LostOnly(c)
          BY <2>2 DEF LoopFailsSub, Backed, LostOnly
    <3>2. loopSub[c] \in Alive /\ pubsub[loopSub[c]] = c /\ wire[c] = "lost"
          BY <3>1 DEF LostOnly, Dying, AllAlive, ConnAlive
    <3> QED BY <1>3, <2>0, <3>1, <3>2 DEF Alive
  <2>3. CASE LoopNotifies(c)
    <3>1. CASE UNCHANGED subVars
          BY <1>2, <2>0, <3>1
    <3>2. ASSUME NEW t \in loopTodo[c], SetState(t, "failed", "err") PROVE SubBacked(s)'
      <4>1. t \in Alive /\ pubsub[t] = c /\ wire[c] = "lost"
        <5>1. loop[c] = "notify" /\ LostOnly(c)
              BY <2>3 DEF LoopNotifies, Backed
        <5> QED BY <3>2, <5>1 DEF LostOnly, Dying, AllAlive, ConnAlive, Homes
      <4> QED BY <1>3, <2>0, <3>2, <4>1 DEF Alive
    <3> QED BY <2>3, <3>1, <3>2 DEF LoopNotifies
  <2>4. CASE UNCHANGED <<state, confirmCh, doneCh>>
        BY <1>2, <2>0, <2>4
  <2> QED BY <1>5, <2>1, <2>2, <2>3, <2>4 DEF LoopStep, LoopSends, LoopSendFails,
         LoopLosesChannel, LoopMarksFailed, LoopSnapshots, LoopSignals, LoopReceivesConfirmation,
         LoopUnpends, LoopReceivesMessage, LoopDispatches, LoopHandsOver, LoopStops, LoopDrains,
         LoopClosesLoopDone, LoopExits, LoopRetires, LoopRemovesConn, LoopCleansZombies, Break
<1>6. CASE UNCHANGED <<state, confirmCh, doneCh>>
      BY <1>2, <1>6 DEF Alive
<1> QED BY <1>4, <1>5, <1>6, UndisturbedBefore, PublishOthers DEF vars

\* doneCh is closed once and keeps its error.
LEMMA DoneStays ==
  ASSUME TypeOK, Placed, AllAlive, [Next]_vars, NEW s \in Subs, doneCh[s] # "open"
  PROVE  doneCh'[s] = doneCh[s]
<1>1. CASE StatesMove
      BY <1>1 DEF StatesMove, SetState, SetClosed, Announced, TypeOK, SubTypes
<1>2. CASE \E h \in Handles : Track(h) \/ Confirm(h)
      BY <1>2 DEF Track, Confirm
<1> QED BY <1>1, <1>2, CallerStates, OthersMove DEF CallerStep

\* What callers have concluded is true and stays so.
LEMMA CallBackedStep ==
  ASSUME TypeOK, Placed, AllAlive, NotYet, Homes, PendingRegistered, CloseFlag, HasSome,
         Undisturbed, Undisturbed', Backed, [Next]_vars, NEW h \in Handles
  PROVE  CallBacked(h)'
<1> USE DEF Go, Goto
<1>0. /\ CallBacked(h) /\ CallTypes /\ CallAlive(h) /\ PlacedAt(h) /\ ctx[h] = "live"
      /\ pc[h] \notin UnsubPcs
      BY DEF Backed, TypeOK, AllAlive, Placed, Undisturbed
<1>1. ASSUME pc[h] \in CreatedPcs, idx'[h] = idx[h]
      PROVE  /\ UNCHANGED <<Cur(h), CurConn(h), CurChannel(h)>> /\ CurConn(h) \in Conns
             /\ Cur(h) \in Alive
             /\ wire[CurConn(h)] = "lost" => wire'[CurConn(h)] = "lost"
             /\ Vouched(CurConn(h), CurChannel(h)) => Vouched(CurConn(h), CurChannel(h))'
  <2>1. Cur(h)' = Cur(h) /\ Cur(h) \in Alive /\ CurConn(h) \in Conns
        BY <1>0, <1>1 DEF Cur, CallAlive, PlacedAt
  <2>2. UNCHANGED <<CurConn(h), CurChannel(h)>>
        BY <2>1, HomeStays DEF CurConn, CurChannel
  <2>3. /\ wire[CurConn(h)] = "lost" => wire'[CurConn(h)] = "lost"
        /\ \A ch : Vouched(CurConn(h), ch) => (wire'[CurConn(h)] = "lost"
             \/ \A t \in Subs : ChannelOf[t] = ch => Topic(t) \in topics'[CurConn(h)])
        BY <2>1, VouchedStays DEF Vouched, HasTopic
  <2> QED BY <2>1, <2>2, <2>3 DEF Vouched, HasTopic
<1>2. ASSUME pc[h] \in {"waitActive", "checkPending"}, waitOn'[h] = waitOn[h]
      PROVE  pubsub'[waitOn'[h]] = pubsub[waitOn[h]] /\ waitOn[h] \in Alive
             /\ (doneCh[waitOn[h]] # "open" => doneCh'[waitOn'[h]] = doneCh[waitOn[h]])
  <2>1. waitOn[h] \in Alive
        BY <1>0, <1>2 DEF CallAlive
  <2> QED BY <1>2, <2>1, HomeStays, DoneStays DEF Alive
<1>3. ASSUME pc'[h] \notin {"activate", "waitActive", "checkPending", "dropPending", "untrack",
                            "unregister"}
      PROVE  CallBacked(h)'
      BY <1>3 DEF CallBacked
<1>4. ASSUME pc'[h] = pc[h], idx'[h] = idx[h], waitOn'[h] = waitOn[h] PROVE CallBacked(h)'
  <2>1. CASE pc[h] \in {"dropPending", "untrack", "unregister", "activate"}
    <3>1. /\ UNCHANGED <<CurConn(h), CurChannel(h)>> /\ CurConn(h) \in Conns
          /\ wire[CurConn(h)] = "lost" => wire'[CurConn(h)] = "lost"
          /\ Vouched(CurConn(h), CurChannel(h)) => Vouched(CurConn(h), CurChannel(h))'
          BY <1>1, <1>4, <2>1 DEF CreatedPcs
    <3> QED BY <1>0, <1>4, <2>1, <3>1 DEF CallBacked
  <2>2. CASE pc[h] \in {"waitActive", "checkPending"}
    <3>1. UNCHANGED <<CurConn(h), CurChannel(h)>>
          BY <1>1, <1>4, <2>2 DEF CreatedPcs
    <3> QED BY <1>0, <1>2, <1>4, <2>2, <3>1 DEF CallBacked
  <2> QED BY <1>3, <1>4, <2>1, <2>2
<1>5. ASSUME Arrives(h) PROVE CallBacked(h)'
  <2>1. CASE Register(h)
    <3>1. /\ pc[h] = "register" /\ UNCHANGED <<idx, pubsub>> /\ CurConn(h) \in Conns
          /\ CurChannel(h) \in Channels
          /\ pc'[h] = RegisterDecision(CurConn(h), CurChannel(h))
          BY <2>1, RegisterEffect
    <3>2. waitOn'[h] = pending[CurConn(h)][CurChannel(h)]
          BY <1>0, <2>1 DEF Register, CallTypes
    <3>3. CASE pc'[h] = "activate"
      <4>1. /\ pending[CurConn(h)][CurChannel(h)] = NoSub
            /\ OnChannel(subscriptions[CurConn(h)], CurChannel(h)) # {}
            BY <3>1, <3>3 DEF RegisterDecision
      <4>2. PICK t \in subscriptions[CurConn(h)] : ChannelOf[t] = CurChannel(h)
            BY <4>1 DEF OnChannel
      <4>3. Vouched(CurConn(h), CurChannel(h))
            BY <3>1, <4>1, <4>2 DEF Backed, ChannelsBacked
      <4>4. Vouched(CurConn(h), CurChannel(h))'
            BY <1>1, <3>1, <4>3 DEF CreatedPcs
      <4> QED BY <3>3, <4>4 DEF CallBacked
    <3>4. CASE pc'[h] = "waitActive"
      <4>1. pending[CurConn(h)][CurChannel(h)] # NoSub
            BY <3>1, <3>4 DEF RegisterDecision
      <4>2. /\ pending[CurConn(h)][CurChannel(h)] \in subscriptions[CurConn(h)]
            /\ ChannelOf[pending[CurConn(h)][CurChannel(h)]] = CurChannel(h)
            BY <3>1, <4>1 DEF PendingRegistered
      <4>3. pubsub[waitOn'[h]] = CurConn(h) /\ ChannelOf[waitOn'[h]] = CurChannel(h)
            BY <3>1, <3>2, <4>2 DEF Homes
      <4>4. UNCHANGED <<CurConn(h), CurChannel(h)>>
            BY <1>1, <3>1 DEF CreatedPcs
      <4> QED BY <3>1, <3>4, <4>3, <4>4 DEF CallBacked
    <3>5. CASE pc'[h] = "send"
          BY <1>3, <3>5
    <3> QED BY <3>1, <3>3, <3>4, <3>5 DEF RegisterDecision
  <2>2. CASE SendFails(h)
    <3>1. pc[h] = "send" /\ Stopped(CurConn(h)) /\ pc'[h] = "dropPending" /\ UNCHANGED idx
          BY <1>0, <2>2 DEF SendFails, CallTypes
    <3>2. /\ UNCHANGED CurConn(h) /\ CurConn(h) \in Conns
          /\ wire[CurConn(h)] = "lost" => wire'[CurConn(h)] = "lost"
          BY <1>1, <3>1 DEF CreatedPcs
    <3>3. wire[CurConn(h)] = "lost"
      <4>1. LostOnly(CurConn(h)) /\ Dying(CurConn(h))
            BY <3>1, <3>2 DEF Backed, Stopped, Dying
      <4> QED BY <4>1 DEF LostOnly
    <3> QED BY <3>1, <3>2, <3>3 DEF CallBacked
  <2>3. CASE Confirm(h) \/ CheckState(h)
    <3>1. CASE pc'[h] = "untrack"
      <4>1. /\ pc[h] \in {"confirm", "checkState"} /\ UNCHANGED idx
            /\ confirmCh[Cur(h)] \notin {"empty", "nil"} \/ state[Cur(h)] = "failed"
            BY <1>0, <2>3, <3>1 DEF Confirm, CheckState, CallTypes, Advance
      <4>2. /\ UNCHANGED CurConn(h) /\ Cur(h) \in Alive
            /\ wire[CurConn(h)] = "lost" => wire'[CurConn(h)] = "lost"
            BY <1>1, <4>1 DEF CreatedPcs
      <4>3. confirmCh[Cur(h)] = "err" \/ state[Cur(h)] = "failed"
            BY <4>1, <4>2 DEF TypeOK, SubTypes, Alive
      <4>4. wire[CurConn(h)] = "lost"
            BY <4>2, <4>3 DEF Backed, SubBacked, CurConn
      <4> QED BY <3>1, <4>2, <4>4 DEF CallBacked
    <3>2. CASE pc'[h] # "untrack"
      <4>1. pc'[h] \in {"checkState", "lookup", "subscribed"}
            BY <1>0, <2>3, <3>2 DEF Confirm, CheckState, CallTypes, Advance
      <4> QED BY <1>3, <4>1
    <3> QED BY <3>1, <3>2
  <2>4. CASE WaitActive(h) \/ CheckPending(h)
    <3>1. /\ pc[h] \in {"waitActive", "checkPending"} /\ UNCHANGED <<idx, waitOn, doneCh, pubsub>>
          /\ pubsub[waitOn[h]] = CurConn(h) /\ ChannelOf[waitOn[h]] = CurChannel(h)
          /\ waitOn[h] \in Alive
          BY <1>0, <2>4 DEF WaitActive, CheckPending, CallBacked, CallAlive
    <3>2. /\ UNCHANGED <<CurConn(h), CurChannel(h)>>
          /\ wire[CurConn(h)] = "lost" => wire'[CurConn(h)] = "lost"
          /\ Vouched(CurConn(h), CurChannel(h)) => Vouched(CurConn(h), CurChannel(h))'
          BY <1>1, <3>1 DEF CreatedPcs
    <3>3. SubBacked(waitOn[h])
          BY <3>1 DEF Backed
    <3>4. CASE WaitActive(h)
      <4>1. \/ pc'[h] = "checkPending" /\ doneCh[waitOn[h]] = "nil"
            \/ pc'[h] = "untrack" /\ doneCh[waitOn[h]] = "err"
        <5>1. doneCh[waitOn[h]] \in {"open", "nil", "err"}
              BY <3>1 DEF TypeOK, SubTypes, Alive
        <5> QED BY <1>0, <3>4, <5>1 DEF WaitActive, CallTypes
      <4> QED BY <3>1, <3>2, <3>3, <4>1 DEF CallBacked, SubBacked
    <3>5. CASE CheckPending(h)
      <4>1. \/ pc'[h] = "untrack" /\ state[waitOn[h]] = "failed"
            \/ pc'[h] = "activate" /\ doneCh[waitOn[h]] = "nil"
            BY <1>0, <3>5 DEF CheckPending, CallTypes, CallBacked
      <4> QED BY <3>1, <3>2, <3>3, <4>1 DEF CallBacked, SubBacked
    <3> QED BY <2>4, <3>4, <3>5
  <2>5. CASE SendCleanup(h) \/ Untrack(h)
    <3>1. /\ pc[h] \in {"dropPending", "untrack"} /\ UNCHANGED idx
          /\ pc'[h] \in {"untrack", "unregister"}
          BY <1>0, <2>5 DEF SendCleanup, Untrack, CallTypes
    <3>2. /\ UNCHANGED CurConn(h)
          /\ wire[CurConn(h)] = "lost" => wire'[CurConn(h)] = "lost"
          BY <1>1, <3>1 DEF CreatedPcs
    <3> QED BY <1>0, <3>1, <3>2 DEF CallBacked
  <2>6. CASE Subscribe(h) \/ Lookup(h) \/ Create(h) \/ List(h) \/ CreateFails(h) \/ MetadataGone(h)
               \/ Track(h) \/ SendQueues(h) \/ Activate(h) \/ Unregister(h) \/ Abort(h)
    <3>1. pc'[h] \notin {"activate", "waitActive", "checkPending", "dropPending", "untrack",
                         "unregister"}
          BY <1>0, <2>6 DEF CallTypes, Subscribe, Lookup, Create, List, CreateFails, MetadataGone,
             Track, SendQueues, Activate, Advance, Unregister, Abort
    <3> QED BY <1>3, <3>1
  <2> QED BY <1>5, <2>1, <2>2, <2>3, <2>4, <2>5, <2>6 DEF Arrives
<1>6. ASSUME NEW g \in Handles, Arrives(g), g # h PROVE CallBacked(h)'
  <2>1. pc'[h] = pc[h] /\ idx'[h] = idx[h] /\ waitOn'[h] = waitOn[h]
        BY <1>6, CallerOthers DEF Arrives, CallerStep, CallStep
  <2> QED BY <1>4, <2>1
<1>7. ASSUME NEW c \in Conns, LoopStep(c) \/ Break(c) PROVE CallBacked(h)'
      BY <1>4, <1>7, LoopOthers
<1> QED BY <1>4, <1>5, <1>6, <1>7, UndisturbedBefore, PublishOthers DEF vars

\* At first nobody relies on anything.
LEMMA ConfirmInit == Init => ConfirmInv
<1> SUFFICES ASSUME Init PROVE ConfirmInv
    OBVIOUS
<1>1. Alive = {}
      BY DEF Init, Alive
<1>2. HasSome /\ Unannounced
      BY DEF Init, HasSome, UnsubPcs, Unannounced
<1>3. ASSUME NEW c \in Conns PROVE OnlySubscribes(c) /\ LostOnly(c) /\ ChannelsBacked(c)
  <2>1. cmdCh[c] = <<>> /\ inbox[c] = <<>> /\ loop[c] = "off" /\ subscriptions[c] = {}
        /\ connState[c] = "none" /\ done[c] = "open" /\ loopDone[c] = "open"
        BY DEF Init
  <2> QED BY <2>1 DEF OnlySubscribes, LostOnly, Dying, ChannelsBacked
<1>4. \A h \in Handles : CallBacked(h)
      BY DEF Init, CallBacked
<1> QED BY <1>1, <1>2, <1>3, <1>4 DEF ConfirmInv, Backed

\* Every step keeps what the callers rely on.
LEMMA ConfirmStep ==
  ASSUME IInv, SafeInv, ConfirmInv, [Next]_vars PROVE ConfirmInv'
<1>0. /\ TypeOK /\ Placed /\ AllAlive /\ CloseFlag /\ NotYet /\ Homes /\ PendingRegistered
      /\ Leaving /\ HasSome /\ Unannounced
      BY DEF IInv, SafeInv, Registry, ConfirmInv
<1>1. HasSome' /\ Unannounced'
      BY <1>0, HasSomeStep, UnannouncedStep
<1>2. ASSUME Undisturbed' PROVE Backed'
  <2>1. Undisturbed /\ Backed
        BY <1>0, <1>2, UndisturbedBefore DEF ConfirmInv
  <2>2. \A c \in Conns : OnlySubscribes(c)' /\ LostOnly(c)' /\ ChannelsBacked(c)'
        BY <1>0, <1>2, <2>1, OnlySubscribesStep, LostOnlyStep, ChannelsBackedStep
  <2>3. \A s \in Alive' : SubBacked(s)'
        BY <1>0, <1>2, <2>1, SubBackedStep
  <2>4. \A h \in Handles : CallBacked(h)'
        BY <1>0, <1>2, <2>1, CallBackedStep
  <2> QED BY <2>2, <2>3, <2>4 DEF Backed
<1> QED BY <1>1, <1>2 DEF ConfirmInv

\* Whichever of the concurrent subscribers of a channel sent SUBSCRIBE and
\* whatever connections are lost, a Subscribe that returned success on a
\* connection that is still up has its topic at Redis, until somebody begins to
\* unsubscribe, roll back or close or a deadline passes (pool.go:180-195,
\* submux.go:396-475).
THEOREM ConfirmTheorem == Spec => []ConfirmedBeforeReturn
<1>1. IInv /\ SafeInv /\ ConfirmInv => ConfirmedBeforeReturn
  <2> SUFFICES ASSUME IInv, SafeInv, ConfirmInv, Undisturbed, NEW h \in Handles,
                      pc[h] = "subscribed", NEW s \in Own(h), state[s] = "active",
                      wire[pubsub[s]] = "up"
               PROVE  Topic(s) \in topics[pubsub[s]]
      BY DEF ConfirmedBeforeReturn, NoDeafSubscriber
  <2>1. s \in Subs
        BY SubMuxAssumption DEF Own
  <2>2. s \in Alive
        BY <2>1 DEF Alive
  <2>3. Vouched(pubsub[s], ChannelOf[s])
        BY <2>2 DEF ConfirmInv, Backed, SubBacked
  <2> QED BY <2>1, <2>3 DEF Vouched, HasTopic
<1>2. ConfirmInv /\ [](IInv /\ SafeInv) /\ [][Next]_vars => []ConfirmInv
      BY ConfirmStep, PTL
<1> QED BY <1>1, <1>2, ConfirmInit, SafeInvariance, PTL DEF Spec

-----------------------------------------------------------------------------
(* An application that makes one call at a time *)

\* One call at a time, no name subscribed to in two ways, and neither Close nor a
\* deadline of Subscribe so far.
Orderly ==
  Serial /\ OneTypePerName /\ ~closed /\ \A h \in Handles : ctx[h] = "live"

OneCall == \A g, h \in Handles : InCall(g) /\ InCall(h) => g = h

\* An UNSUBSCRIBE of the channel is queued.
UnsubQueued(c, ch) ==
  \E i \in 1..Len(cmdCh[c]) : cmdCh[c][i].op = "unsubscribe" /\ ChannelOf[cmdCh[c][i].sub] = ch

\* Redis has the channel and is not about to lose it.
Firm(c, ch) == HasTopic(c, ch) /\ ~UnsubQueued(c, ch)

Sure(c, ch) == wire[c] = "lost" \/ Firm(c, ch)

\* The channels whose UNSUBSCRIBE has been queued and whose entries are still there.
Going(h) == awaiting[h] \cup (IF pc[h] = "uRemove" THEN {curCh[h]} ELSE {})

\* Whoever is registered is served, or its caller is waiting to be, or leaves.
Served(c) ==
  \A s \in subscriptions[c] :
    \/ Sure(c, ChannelOf[s])
    \/ \E h \in Handles :
         \/ pc[h] \in {"send", "confirm"} /\ Cur(h) = s
         \/ /\ s \in Appended(h) /\ ChannelOf[s] \in Going(h)
            /\ pubsub[FirstSub(h, ChannelOf[s])] = c

\* A topic is somebody's, or its UNSUBSCRIBE is queued.
Wanted(c) ==
  wire[c] = "lost" \/ \A t \in topics[c] :
    \/ \E s \in subscriptions[c] : Topic(s) = t
    \/ \E i \in 1..Len(cmdCh[c]) : cmdCh[c][i].op = "unsubscribe" /\ Topic(cmdCh[c][i].sub) = t

\* A caller waits for the confirmation of the channel.
Asks(h, c, ch) ==
  pc[h] = "confirm" /\ CurConn(h) = c /\ CurChannel(h) = ch /\ confirmCh[Cur(h)] = "empty"

Asked(c, ch) == \E h \in Handles : Asks(h, c, ch)

\* The SUBSCRIBE of that caller is queued last, or confirmed in the inbox, or its
\* confirmation is in the hands of the event loop; in one of these places only.
SubscribeQueued(c) ==
  \A i \in 1..Len(cmdCh[c]) : cmdCh[c][i].op = "subscribe" =>
    /\ i = Len(cmdCh[c]) /\ Asked(c, ChannelOf[cmdCh[c][i].sub])
    /\ loop[c] # "confirm" /\ \A j \in 1..Len(inbox[c]) : inbox[c][j].kind # "confirm"

SubscribeAnswered(c) ==
  \A i \in 1..Len(inbox[c]) : inbox[c][i].kind = "confirm" =>
    /\ Asked(c, inbox[c][i].channel) /\ Firm(c, inbox[c][i].channel)
    /\ loop[c] # "confirm"
    /\ \A j \in 1..Len(inbox[c]) : inbox[c][j].kind = "confirm" => j = i

SubscribeHandled(c) ==
  loop[c] = "confirm" => Asked(c, ChannelOf[loopSub[c]]) /\ Firm(c, ChannelOf[loopSub[c]])

OnItsWay(c) ==
  wire[c] = "lost" \/ (SubscribeQueued(c) /\ SubscribeAnswered(c) /\ SubscribeHandled(c))

\* Bad news means that the connection is lost.
BadNews(s) ==
  state[s] = "failed" \/ confirmCh[s] = "err" \/ doneCh[s] = "err" => wire[pubsub[s]] = "lost"

\* What a caller in Subscribe has concluded.
Concluded(h) ==
  /\ pc[h] \in {"dropPending", "untrack", "unregister"} => wire[CurConn(h)] = "lost"
  /\ pc[h] \in {"waitActive", "checkPending"} => pubsub[waitOn[h]] = CurConn(h)
  /\ pc[h] \in {"waitActive", "checkPending", "activate", "checkState"}
       => Sure(CurConn(h), CurChannel(h))
  /\ pc[h] = "confirm" /\ confirmCh[Cur(h)] = "nil" => Sure(CurConn(h), CurChannel(h))
  /\ pc[h] = "send" /\ confirmCh[Cur(h)] = "nil" => wire[CurConn(h)] = "lost"
  /\ pc[h] \in {"send", "confirm"}
       => OnChannel(subscriptions[CurConn(h)], CurChannel(h)) = {Cur(h)}

\* A caller that has not begun to leave is registered with all it has subscribed to.
Kept(h) ==
  /\ pc[h] \notin UnsubPcs \cup {"gone", "failed"}
       => \A s \in Appended(h) : s \in subscriptions[pubsub[s]]
  /\ pc[h] \in {"send", "confirm", "waitActive", "checkPending", "checkState", "activate"}
       => Cur(h) \in subscriptions[CurConn(h)]

\* There is one connection to choose at a time, ...
Usable == {c \in inPool : connState[c] = "active"}

Single ==
  /\ \A c, d \in Usable : c = d
  /\ \A h \in Handles : pc[h] = "create" => Usable = {}
  /\ \A c \in Usable : c \in listed \/ \E h \in Handles : pc[h] = "list" /\ CurConn(h) = c

\* ... so a handle changes its connection only when it is lost.
Together(h) ==
  \A i, j \in 1..Len(SubsOf[h]) :
    /\ i < j /\ (j < idx[h] \/ (j = idx[h] /\ pc[h] \in {"list", "track"} \cup CreatedPcs))
    /\ wire[pubsub[SubsOf[h][i]]] = "up"
    => pubsub[SubsOf[h][j]] = pubsub[SubsOf[h][i]]

\* channelsToUnsub is what it was counted to be: nobody came or went meanwhile.
Counting == UnsubPcs \ {"uCheck"}

Decided(h) ==
  /\ pc[h] \notin Counting \cup {"gone", "failed"} => toUnsub[h] = {}
  /\ pc[h] = "uCount" => toUnsub[h] \cap chTodo[h] = {}
  /\ pc[h] = "uSend" => curCh[h] \in toUnsub[h]
  /\ pc[h] = "uClean" => curCh[h] \notin toUnsub[h] \/ wire[UnsubConn(h)] = "lost"
  /\ pc[h] \in Counting => \A ch \in AppendedChannels(h) :
       LET c == pubsub[FirstSub(h, ch)]
       IN  wire[c] = "up" /\ ~(pc[h] = "uCount" /\ ch \in chTodo[h]) =>
             (ch \in toUnsub[h] <=> OnChannel(subscriptions[c], ch) \subseteq Appended(h))

\* What it waits for is queued or done.
Awaited(h) ==
  \A ch \in Going(h) :
    LET c == pubsub[FirstSub(h, ch)]
    IN  wire[c] = "up" =>
          /\ ch \in toUnsub[h]
          /\ UnsubQueued(c, ch) \/ \A t \in topics[c] : t[2] # ch

\* Everything that holds as long as the calls are orderly.
Settled ==
  /\ OneCall /\ Single
  /\ \A c \in Conns : LostOnly(c) /\ Served(c) /\ Wanted(c) /\ OnItsWay(c)
  /\ \A s \in Alive : BadNews(s)
  /\ \A h \in Handles : Concluded(h) /\ Kept(h) /\ Together(h) /\ Decided(h) /\ Awaited(h)

\* A command goes to the connection of its subscription.
Addressed == \A c \in Conns : \A i \in 1..Len(cmdCh[c]) : pubsub[cmdCh[c][i].sub] = c

\* What is inductive.
SerialInv ==
  /\ \A c \in Conns : IsFiniteSet(subscriptions[c])
  /\ Addressed
  /\ Orderly => Settled

\* The calls to Unsubscribe, and the rollback of Subscribe.
Leaves(h) ==
  \/ Unsubscribe(h) \/ UnsubCheck(h) \/ UnsubCount(h) \/ UnsubUntrack(h) \/ UnsubPhase1(h)
  \/ UnsubQueues(h) \/ UnsubSendFails(h) \/ UnsubClean(h) \/ UnsubWait(h) \/ UnsubRemove(h)

\* One call at a time stays so, and neither Close nor a deadline is undone.
LEMMA OrderlyBefore ==
  ASSUME TypeOK, Placed, AllAlive, CloseFlag, [Next]_vars, Orderly'
  PROVE  /\ Orderly /\ ~closed' /\ ~closed
         /\ \/ \E h \in Handles : Arrives(h)
            \/ \E h \in Handles : Leaves(h)
            \/ \E c \in Conns : LoopStep(c) \/ Break(c)
            \/ \E type \in Types, ch \in Channels : Publish(type, ch)
            \/ UNCHANGED vars
<1> USE DEF Go, Goto
<1>0. ~closed' /\ ~closed /\ \A h \in Handles : ctx'[h] = "live"
      BY OpenSteps DEF Orderly
<1>1. ASSUME NEW h \in Handles, CallerStep(h) PROVE (Arrives(h) \/ Leaves(h)) /\ ctx[h] = "live"
  <2>0. ctx \in [Handles -> {"live", "done"}] /\ ctx'[h] = "live"
        BY <1>0 DEF TypeOK, CallTypes
  <2>1. ~Expire(h)
        BY <2>0 DEF Expire
  <2>2. UNCHANGED ctx
        BY <1>1, <2>1 DEF CallerStep, CallStep, Subscribe, Unsubscribe, Lookup, Create, List,
           CreateFails, MetadataGone, Track, Register, SendQueues, SendFails, Confirm, WaitActive,
           WaitExpires, CheckPending, CheckState, Activate, SendCleanup, Untrack, Unregister,
           Abort, UnsubCheck, UnsubCount, UnsubUntrack, UnsubPhase1, UnsubQueues, UnsubSendFails,
           UnsubClean, UnsubWait, UnsubRemove
  <2>3. ctx[h] = "live" /\ ~WaitExpires(h)
        BY <2>0, <2>2 DEF WaitExpires
  <2> QED BY <1>1, <2>1, <2>3 DEF CallerStep, CallStep, Arrives, Leaves
<1>2. ASSUME NEW g \in Handles PROVE ctx[g] = "live"
  <2>1. CASE CallerStep(g)
        BY <1>1, <2>1
  <2>2. CASE ~CallerStep(g)
    <3>1. ctx'[g] = ctx[g]
          BY <2>2, CallerOthers, OthersMove
    <3> QED BY <1>0, <3>1
  <2> QED BY <2>1, <2>2
<1>3. Serial /\ OneTypePerName
      BY DEF Orderly, OneTypePerName
<1> QED BY <1>0, <1>1, <1>2, <1>3, OpenSteps DEF Orderly

\* Both are steps of a caller.
LEMMA CallerSteps ==
  ASSUME NEW h \in Handles, Arrives(h) \/ Leaves(h)
  PROVE  CallerStep(h)
BY DEF Arrives, Leaves, CallerStep, CallStep

\* A step of a caller, when there are no deadlines.
LEMMA CallerIs ==
  ASSUME TypeOK, Orderly, Orderly', NEW h \in Handles, CallerStep(h)
  PROVE  Arrives(h) \/ Leaves(h)
<1>1. ctx[h] = "live" /\ ctx'[h] = "live"
      BY DEF Orderly
<1>2. ~Expire(h) /\ ~WaitExpires(h)
      BY <1>1 DEF Expire, WaitExpires, TypeOK, CallTypes
<1> QED BY <1>2 DEF CallerStep, CallStep, Arrives, Leaves

\* Whoever takes a step is the only one in a call.
LEMMA Alone ==
  ASSUME Orderly, OneCall, NEW h \in Handles, CallerStep(h)
  PROVE  /\ \A g \in Handles \ {h} : ~InCall(g)
         /\ ~InCall(h) => Subscribe(h) \/ Unsubscribe(h)
<1>1. CASE Subscribe(h) \/ Unsubscribe(h)
      BY <1>1 DEF Subscribe, Unsubscribe, MayCall, Orderly
<1>2. CASE ~(Subscribe(h) \/ Unsubscribe(h))
  <2>1. InCall(h)
        BY <1>2 DEF InCall, CallerStep, CallStep, Expire, Lookup, Create, List, CreateFails,
           MetadataGone, Track, Register, SendQueues, SendFails, Confirm, WaitActive, WaitExpires,
           CheckPending, CheckState, Activate, SendCleanup, Untrack, Unregister, Abort,
           UnsubCheck, UnsubCount, UnsubUntrack, UnsubPhase1, UnsubQueues, UnsubSendFails,
           UnsubClean, UnsubWait, UnsubRemove
  <2> QED BY <2>1 DEF OneCall
<1> QED BY <1>1, <1>2

\* So a step of a caller is one of whoever is in a call.
LEMMA OnlyMe ==
  ASSUME Orderly, OneCall, NEW h \in Handles, InCall(h), NEW g \in Handles, CallerStep(g)
  PROVE  g = h
BY Alone

\* One call at a time.
LEMMA OneCallStep ==
  ASSUME TypeOK, Placed, AllAlive, CloseFlag, Orderly, Orderly', OneCall, [Next]_vars
  PROVE  OneCall'
<1>1. ASSUME NEW h \in Handles, CallerStep(h) PROVE OneCall'
  <2>1. \A g \in Handles \ {h} : ~InCall(g) /\ pc'[g] = pc[g]
        BY <1>1, Alone, CallerOthers
  <2>2. \A g \in Handles \ {h} : ~InCall(g)'
        BY <2>1 DEF InCall
  <2> QED BY <2>2 DEF OneCall
<1>2. CASE UNCHANGED pc
      BY <1>2 DEF OneCall, InCall
<1> QED BY <1>1, <1>2, OthersMove

\* A lost connection stays lost.
LEMMA LostStays ==
  ASSUME TypeOK, [Next]_vars, NEW c \in Conns, wire[c] = "lost"
  PROVE  wire'[c] = "lost"
<1>1. ASSUME NEW d \in Conns, LoopStep(d) PROVE UNCHANGED wire
      BY <1>1 DEF LoopStep, LoopSends, LoopSendFails, LoopFailsSub, LoopLosesChannel,
         LoopMarksFailed, LoopSnapshots, LoopNotifies, LoopSignals, LoopReceivesConfirmation,
         LoopConfirms, LoopUnpends, LoopReceivesMessage, LoopDispatches, LoopHandsOver, LoopStops,
         LoopDrains, LoopClosesLoopDone, LoopExits, LoopRetires, LoopRemovesConn,
         LoopCleansZombies
<1>2. ASSUME NEW d \in Conns, Break(d) PROVE wire'[c] = "lost"
      BY <1>2 DEF Break, TypeOK, ServerTypes
<1>3. CASE UNCHANGED wire
      BY <1>3
<1> QED BY <1>1, <1>2, <1>3, CallerOthers, CloseOthers, PublishOthers DEF Next, CallerStep, vars

\* Two handles share no subscription.
LEMMA AppendedDisjoint ==
  ASSUME TypeOK, Placed, NEW g \in Handles, NEW h \in Handles, NEW s \in Appended(g), s \in Appended(h)
  PROVE  g = h
<1>1. PICK i \in 1..(idx[g] - 1) : SubsOf[g][i] = s
      BY DEF Appended
<1>2. PICK j \in 1..(idx[h] - 1) : SubsOf[h][j] = s
      BY DEF Appended
<1>3. i \in 1..Len(SubsOf[g]) /\ j \in 1..Len(SubsOf[h])
      BY SubMuxAssumption DEF TypeOK, CallTypes, Placed, PlacedAt
<1> QED BY <1>1, <1>2, <1>3, PlacesDistinct

\* The connection and the channel at hand do not change while the caller is
\* inside subscribeToChannel.
LEMMA CurStays ==
  ASSUME TypeOK, Placed, AllAlive, NotYet, Homes, [Next]_vars, NEW h \in Handles,
         pc[h] \in CreatedPcs, idx'[h] = idx[h]
  PROVE  /\ UNCHANGED <<Cur(h), CurConn(h), CurChannel(h)>>
         /\ Cur(h) \in Alive /\ Cur(h) \in Subs /\ CurConn(h) \in Conns /\ CurChannel(h) \in Channels
<1>1. UNCHANGED <<Cur(h), CurChannel(h)>> /\ Cur(h) \in Alive /\ Cur(h) \in Subs
      /\ CurConn(h) \in Conns /\ CurChannel(h) \in Channels
      BY CurTypes DEF Cur, CurChannel, AllAlive, CallAlive, Placed, PlacedAt, CreatedPcs
<1> QED BY <1>1, HomeStays DEF CurConn

\* A caller whose step it is not stays where it is.
LEMMA IdleStays ==
  ASSUME TypeOK, Placed, AllAlive, [Next]_vars, NEW h \in Handles, ~CallerStep(h)
  PROVE  /\ pc'[h] = pc[h] /\ idx'[h] = idx[h] /\ waitOn'[h] = waitOn[h]
         /\ chTodo'[h] = chTodo[h] /\ awaiting'[h] = awaiting[h] /\ curCh'[h] = curCh[h]
BY CallerOthers, OthersMove

\* channelsToUnsub is one caller's.
LEMMA ToUnsubMoves ==
  ASSUME TypeOK, Placed, AllAlive, [Next]_vars, NEW h \in Handles
  PROVE  toUnsub'[h] = toUnsub[h] \/ UnsubCount(h)
<1>1. ASSUME NEW g \in Handles, CallerStep(g) PROVE toUnsub'[h] = toUnsub[h] \/ UnsubCount(h)
  <2>1. UNCHANGED toUnsub \/ UnsubCount(g)
        BY <1>1 DEF CallerStep, CallStep, Goto, Subscribe, Unsubscribe, Expire, Lookup, Create,
           List, CreateFails, MetadataGone, Track, Register, SendQueues, SendFails, Confirm,
           WaitActive, WaitExpires, CheckPending, CheckState, Activate, SendCleanup, Untrack,
           Unregister, Abort, UnsubCheck, UnsubUntrack, UnsubPhase1, UnsubQueues, UnsubSendFails,
           UnsubClean, UnsubWait, UnsubRemove
  <2>2. CASE UnsubCount(g) /\ g # h
    <3>1. toUnsub' = toUnsub \/ \E X : toUnsub' = [toUnsub EXCEPT ![g] = X]
          BY <2>2 DEF UnsubCount
    <3> QED BY <2>2, <3>1 DEF TypeOK, CallTypes
  <2> QED BY <2>1, <2>2
<1> QED BY <1>1, OthersMove

-----------------------------------------------------------------------------
(* Commands, topics and confirmations *)

\* What Unsubscribe does to the connections.
LEMMA LeavesMeta ==
  ASSUME TypeOK, Placed, AllAlive, Homes, NEW h \in Handles, Leaves(h)
  PROVE  /\ UNCHANGED <<done, loopDone, connState, loop, loopSub, inPool, pubsub>>
         /\ \/ UNCHANGED cmdCh
            \/ /\ UnsubQueues(h) /\ UnsubConn(h) \in Conns
               /\ cmdCh' = [cmdCh EXCEPT ![UnsubConn(h)] =
                              Append(@, Command("unsubscribe", FirstSub(h, curCh[h]), h))]
<1>1. UNCHANGED <<done, loopDone, connState, loop, loopSub, inPool, pubsub>>
      BY DEF Leaves, Goto, Unsubscribe, UnsubCheck, UnsubCount, UnsubUntrack, UnsubPhase1,
         UnsubQueues, UnsubSendFails, UnsubClean, UnsubWait, UnsubRemove, SetClosed
<1>2. CASE UnsubQueues(h)
  <2>1. pc[h] = "uSend"
        BY <1>2 DEF UnsubQueues
  <2>2. UnsubConn(h) \in Conns
        BY <2>1, UnsubConnTypes
  <2> QED BY <1>1, <1>2, <2>2 DEF UnsubQueues, Queue
<1>3. CASE ~UnsubQueues(h)
  <2>1. UNCHANGED cmdCh
        BY <1>3 DEF Leaves, Goto, Unsubscribe, UnsubCheck, UnsubCount, UnsubUntrack, UnsubPhase1,
           UnsubSendFails, UnsubClean, UnsubWait, UnsubRemove
  <2> QED BY <1>1, <2>1
<1> QED BY <1>2, <1>3

\* The command that UnsubQueues queues.
LEMMA UnsubCommand ==
  ASSUME TypeOK, Placed, AllAlive, Homes, NEW h \in Handles, UnsubQueues(h)
  PROVE  /\ pc[h] = "uSend" /\ pc'[h] = "uPhase1" /\ UNCHANGED <<idx, pubsub, subscriptions, toUnsub>>
         /\ curCh[h] \in AppendedChannels(h)
         /\ FirstSub(h, curCh[h]) \in Appended(h) /\ ChannelOf[FirstSub(h, curCh[h])] = curCh[h]
         /\ UnsubConn(h) = pubsub[FirstSub(h, curCh[h])] /\ UnsubConn(h) \in Conns
         /\ awaiting'[h] = awaiting[h] \cup {curCh[h]}
<1>1. /\ pc[h] = "uSend" /\ pc'[h] = "uPhase1" /\ UNCHANGED <<idx, pubsub, subscriptions, toUnsub>>
      /\ awaiting'[h] = awaiting[h] \cup {curCh[h]}
      BY DEF UnsubQueues, Go, TypeOK, CallTypes
<1>2. curCh[h] \in AppendedChannels(h)
      BY <1>1 DEF Placed, PlacedAt
<1> QED BY <1>1, <1>2, FirstSubExists, UnsubConnTypes DEF UnsubConn

\* How a command channel changes, as long as its connection is up.
LEMMA QueueMoves ==
  ASSUME TypeOK, Placed, AllAlive, Homes, CloseFlag, Orderly, Orderly', [Next]_vars,
         NEW c \in Conns, LostOnly(c), wire'[c] = "up"
  PROVE  \/ cmdCh'[c] = cmdCh[c]
         \/ LoopSends(c) /\ cmdCh[c] # <<>> /\ cmdCh'[c] = Tail(cmdCh[c])
         \/ \E h \in Handles : /\ SendQueues(h) /\ CurConn(h) = c
                               /\ cmdCh'[c] = Append(cmdCh[c], Command("subscribe", Cur(h), h))
         \/ \E h \in Handles :
              /\ UnsubQueues(h) /\ UnsubConn(h) = c
              /\ cmdCh'[c] = Append(cmdCh[c], Command("unsubscribe", FirstSub(h, curCh[h]), h))
<1>0. MetaTypes /\ wire[c] # "lost"
      BY LostStays DEF TypeOK
<1>1. ASSUME NEW h \in Handles, Arrives(h)
      PROVE  \/ cmdCh'[c] = cmdCh[c]
             \/ /\ SendQueues(h) /\ CurConn(h) = c
                /\ cmdCh'[c] = Append(cmdCh[c], Command("subscribe", Cur(h), h))
  <2>1. UNCHANGED cmdCh \/ SendQueues(h)
        BY <1>1 DEF Arrives, Goto, Subscribe, Lookup, Create, List, CreateFails, MetadataGone,
           Track, Register, SendFails, Confirm, WaitActive, CheckPending, CheckState, Activate,
           SendCleanup, Untrack, Unregister, Abort
  <2> QED BY <1>0, <2>1 DEF SendQueues, Queue, MetaTypes
<1>2. ASSUME NEW h \in Handles, Leaves(h)
      PROVE  \/ cmdCh'[c] = cmdCh[c]
             \/ /\ UnsubQueues(h) /\ UnsubConn(h) = c
                /\ cmdCh'[c] = Append(cmdCh[c], Command("unsubscribe", FirstSub(h, curCh[h]), h))
      BY <1>0, <1>2, LeavesMeta DEF MetaTypes
<1>3. ASSUME NEW d \in Conns, LoopStep(d) \/ Break(d)
      PROVE  \/ cmdCh'[c] = cmdCh[c]
             \/ LoopSends(c) /\ cmdCh[c] # <<>> /\ cmdCh'[c] = Tail(cmdCh[c])
  <2>1. CASE c # d
        BY <1>3, <2>1, LoopMeta
  <2>2. CASE c = d /\ LoopSends(c)
        BY <1>0, <2>2 DEF LoopSends, MetaTypes
  <2>3. CASE c = d /\ LoopSendFails(c)
    <3>1. cmdCh[c] \in Seq(Commands) /\ cmdCh[c] # <<>>
          BY <1>0, <2>3 DEF LoopSendFails, MetaTypes
    <3>2. Head(cmdCh[c]) \in Commands
          BY <3>1
    <3>3. ctx[Head(cmdCh[c]).handle] = "live"
          BY <3>2 DEF Commands, Orderly
    <3> QED BY <1>0, <2>3, <3>3 DEF LoopSendFails
  <2>4. CASE c = d /\ LoopDrains(c)
        BY <1>0, <2>4 DEF LoopDrains, LostOnly, Dying
  <2>5. CASE UNCHANGED cmdCh
        BY <2>5
  <2> QED BY <1>3, <2>1, <2>2, <2>3, <2>4, <2>5 DEF LoopStep, LoopFailsSub, LoopLosesChannel,
         LoopMarksFailed, LoopSnapshots, LoopNotifies, LoopSignals, LoopReceivesConfirmation,
         LoopConfirms, LoopUnpends, LoopReceivesMessage, LoopDispatches, LoopHandsOver, LoopStops,
         LoopClosesLoopDone, LoopExits, LoopRetires, LoopRemovesConn, LoopCleansZombies, Break
<1>4. CASE UNCHANGED cmdCh
      BY <1>4
<1> QED BY <1>1, <1>2, <1>3, <1>4, OrderlyBefore, PublishOthers DEF vars

\* The command that reaches Redis.
LEMMA SendsEffect ==
  ASSUME TypeOK, AllAlive, NEW c \in Conns, LoopSends(c)
  PROVE  /\ cmdCh[c] # <<>> /\ 1 \in 1..Len(cmdCh[c]) /\ cmdCh[c] \in Seq(Commands)
         /\ cmdCh[c][1] \in Commands /\ cmdCh[c][1].sub \in Subs
         /\ cmdCh[c][1].op \in {"subscribe", "unsubscribe"}
         /\ cmdCh'[c] = Tail(cmdCh[c])
         /\ Len(cmdCh'[c]) = Len(cmdCh[c]) - 1
         /\ \A i \in 1..Len(cmdCh'[c]) : i + 1 \in 1..Len(cmdCh[c]) /\ cmdCh'[c][i] = cmdCh[c][i + 1]
         /\ \A i \in 1..Len(cmdCh[c]) : i = 1 \/ (i - 1 \in 1..Len(cmdCh'[c]) /\ cmdCh'[c][i - 1] = cmdCh[c][i])
         /\ cmdCh[c][1].op = "subscribe" => topics'[c] = topics[c] \cup {Topic(cmdCh[c][1].sub)}
         /\ cmdCh[c][1].op = "unsubscribe" => topics'[c] = topics[c] \ {Topic(cmdCh[c][1].sub)}
         /\ UNCHANGED <<wire, pubsub, subscriptions, callVars, confirmCh, loop, loopSub>>
         /\ wire[c] = "up" /\ loop[c] = "select"
<1>1. cmdCh[c] \in Seq(Commands) /\ cmdCh[c] # <<>> /\ wire[c] = "up" /\ loop[c] = "select"
      /\ UNCHANGED <<wire, pubsub, subscriptions, callVars, confirmCh, loop, loopSub>>
      BY DEF LoopSends, TypeOK, MetaTypes
<1>2. Head(cmdCh[c]) = cmdCh[c][1] /\ 1 \in 1..Len(cmdCh[c]) /\ cmdCh[c][1] \in Commands
      BY <1>1
<1>3. cmdCh[c][1].sub \in Subs /\ cmdCh[c][1].op \in {"subscribe", "unsubscribe"}
      BY <1>2 DEF Commands
<1>4. cmdCh'[c] = Tail(cmdCh[c])
      BY DEF LoopSends, TypeOK, MetaTypes
<1>5. /\ \A i \in 1..Len(cmdCh'[c]) : i + 1 \in 1..Len(cmdCh[c]) /\ cmdCh'[c][i] = cmdCh[c][i + 1]
      /\ \A i \in 1..Len(cmdCh[c]) : i = 1 \/ (i - 1 \in 1..Len(cmdCh'[c]) /\ cmdCh'[c][i - 1] = cmdCh[c][i])
      /\ Len(cmdCh'[c]) = Len(cmdCh[c]) - 1
      BY <1>1, <1>4
<1>6. topics'[c] = IF Head(cmdCh[c]).op = "subscribe" THEN topics[c] \cup {Topic(Head(cmdCh[c]).sub)}
                                                      ELSE topics[c] \ {Topic(Head(cmdCh[c]).sub)}
      BY DEF LoopSends, TypeOK, ServerTypes
<1>7. /\ cmdCh[c][1].op = "subscribe" => topics'[c] = topics[c] \cup {Topic(cmdCh[c][1].sub)}
      /\ cmdCh[c][1].op = "unsubscribe" => topics'[c] = topics[c] \ {Topic(cmdCh[c][1].sub)}
      BY <1>2, <1>3, <1>6
<1> QED BY <1>1, <1>2, <1>3, <1>4, <1>5, <1>7

\* What a command that is appended leaves where it is.
LEMMA QueueEffect ==
  ASSUME TypeOK, NEW c \in Conns, NEW op, NEW s, NEW h,
         cmdCh'[c] = Append(cmdCh[c], Command(op, s, h))
  PROVE  /\ Len(cmdCh'[c]) = Len(cmdCh[c]) + 1 /\ Len(cmdCh[c]) \in Nat
         /\ \A i \in 1..Len(cmdCh[c]) : i \in 1..Len(cmdCh'[c]) /\ cmdCh'[c][i] = cmdCh[c][i]
         /\ \A i \in 1..Len(cmdCh'[c]) :
              \/ i \in 1..Len(cmdCh[c]) /\ cmdCh'[c][i] = cmdCh[c][i]
              \/ i = Len(cmdCh'[c]) /\ cmdCh'[c][i].op = op /\ cmdCh'[c][i].sub = s
         /\ Len(cmdCh'[c]) \in 1..Len(cmdCh'[c])
         /\ cmdCh'[c][Len(cmdCh'[c])].op = op /\ cmdCh'[c][Len(cmdCh'[c])].sub = s
<1> DEFINE cmd == Command(op, s, h)
<1>0. cmd.op = op /\ cmd.sub = s /\ cmdCh[c] \in Seq(Commands) /\ cmdCh'[c] = Append(cmdCh[c], cmd)
      BY DEF Command, TypeOK, MetaTypes
<1> HIDE DEF cmd
<1> QED BY <1>0

\* Redis changes its topics for a command, or with the connection.
LEMMA TopicsMove ==
  ASSUME TypeOK, [Next]_vars, NEW c \in Conns
  PROVE  topics'[c] = topics[c] \/ LoopSends(c) \/ wire'[c] = "lost"
<1>0. ServerTypes
      BY DEF TypeOK
<1>1. ASSUME NEW d \in Conns, LoopStep(d), ~LoopSends(d) PROVE UNCHANGED topics
      BY <1>1 DEF LoopStep, LoopSendFails, LoopFailsSub, LoopLosesChannel, LoopMarksFailed,
         LoopSnapshots, LoopNotifies, LoopSignals, LoopReceivesConfirmation, LoopConfirms,
         LoopUnpends, LoopReceivesMessage, LoopDispatches, LoopHandsOver, LoopStops, LoopDrains,
         LoopClosesLoopDone, LoopExits, LoopRetires, LoopRemovesConn, LoopCleansZombies
<1>2. ASSUME NEW d \in Conns, LoopSends(d) \/ Break(d)
      PROVE  topics'[c] = topics[c] \/ LoopSends(c) \/ wire'[c] = "lost"
      BY <1>0, <1>2 DEF LoopSends, Break, ServerTypes
<1>3. CASE UNCHANGED topics
      BY <1>3
<1> QED BY <1>1, <1>2, <1>3, CallerOthers, CloseOthers, PublishOthers DEF Next, CallerStep, vars

\* What a caller may rely on stays, unless an UNSUBSCRIBE is queued.
LEMMA SureStays ==
  ASSUME TypeOK, Placed, AllAlive, Homes, CloseFlag, Orderly, Orderly', [Next]_vars,
         NEW c \in Conns, NEW ch, LostOnly(c), Sure(c, ch),
         \A h \in Handles : ~(UnsubQueues(h) /\ UnsubConn(h) = c /\ curCh[h] = ch)
  PROVE  Sure(c, ch)'
<1> SUFFICES ASSUME wire'[c] # "lost" PROVE Firm(c, ch)'
    BY DEF Sure
<1>0. wire'[c] = "up" /\ wire[c] # "lost" /\ Firm(c, ch)
  <2>1. wire'[c] \in {"up", "lost"}
        BY TypeStep DEF TypeOK, ServerTypes
  <2> QED BY <2>1, LostStays DEF Sure
<1>1. CASE LoopSends(c)
  <2>1. /\ 1 \in 1..Len(cmdCh[c]) /\ cmdCh[c][1].op \in {"subscribe", "unsubscribe"}
        /\ \A i \in 1..Len(cmdCh'[c]) : i + 1 \in 1..Len(cmdCh[c]) /\ cmdCh'[c][i] = cmdCh[c][i + 1]
        /\ cmdCh[c][1].op = "subscribe" => topics'[c] = topics[c] \cup {Topic(cmdCh[c][1].sub)}
        /\ cmdCh[c][1].op = "unsubscribe" => topics'[c] = topics[c] \ {Topic(cmdCh[c][1].sub)}
        BY <1>1, SendsEffect
  <2>2. ~UnsubQueued(c, ch)'
        BY <1>0, <2>1 DEF Firm, UnsubQueued
  <2>3. ASSUME NEW s \in Subs, ChannelOf[s] = ch PROVE Topic(s) \in topics'[c]
    <3>1. Topic(s) \in topics[c]
          BY <1>0, <2>3 DEF Firm, HasTopic
    <3>2. cmdCh[c][1].op = "unsubscribe" => Topic(s) # Topic(cmdCh[c][1].sub)
          BY <1>0, <2>1, <2>3 DEF Firm, UnsubQueued, Topic
    <3> QED BY <2>1, <3>1, <3>2
  <2> QED BY <2>2, <2>3 DEF Firm, HasTopic
<1>2. CASE ~LoopSends(c)
  <2>1. topics'[c] = topics[c]
        BY <1>0, <1>2, TopicsMove
  <2>2. ASSUME UnsubQueued(c, ch)' PROVE FALSE
    <3>1. PICK i \in 1..Len(cmdCh'[c]) :
            cmdCh'[c][i].op = "unsubscribe" /\ ChannelOf[cmdCh'[c][i].sub] = ch
          BY <2>2 DEF UnsubQueued
    <3>2. ~(i \in 1..Len(cmdCh[c]) /\ cmdCh'[c][i] = cmdCh[c][i])
          BY <1>0, <3>1 DEF Firm, UnsubQueued
    <3>3. ASSUME NEW h \in Handles,
                 cmdCh'[c] = Append(cmdCh[c], Command("subscribe", Cur(h), h))
          PROVE  FALSE
          BY <3>1, <3>2, <3>3, QueueEffect
    <3>4. ASSUME NEW h \in Handles, UnsubQueues(h), UnsubConn(h) = c,
                 cmdCh'[c] = Append(cmdCh[c], Command("unsubscribe", FirstSub(h, curCh[h]), h))
          PROVE  FALSE
      <4>1. ChannelOf[FirstSub(h, curCh[h])] = curCh[h]
            BY <3>4, UnsubCommand
      <4>2. cmdCh'[c][i].sub = FirstSub(h, curCh[h])
            BY <3>2, <3>4, QueueEffect
      <4> QED BY <3>1, <3>4, <4>1, <4>2
    <3> QED BY <1>0, <1>2, <3>2, <3>3, <3>4, QueueMoves
  <2> QED BY <1>0, <2>1, <2>2 DEF Firm, HasTopic
<1> QED BY <1>1, <1>2

-----------------------------------------------------------------------------
(* Every connection by itself *)

\* A command is queued for the connection of its subscription, whoever queues it.
LEMMA AddressedStep ==
  ASSUME TypeOK, Placed, AllAlive, NotYet, Homes, Addressed, [Next]_vars
  PROVE  Addressed'
<1> SUFFICES ASSUME NEW c \in Conns, NEW i \in 1..Len(cmdCh'[c])
             PROVE  pubsub'[cmdCh'[c][i].sub] = c
    BY DEF Addressed
<1>0. /\ MetaTypes /\ cmdCh[c] \in Seq(Commands)
      /\ \A j \in 1..Len(cmdCh[c]) : pubsub'[cmdCh[c][j].sub] = c
  <2>1. ASSUME NEW j \in 1..Len(cmdCh[c]) PROVE pubsub'[cmdCh[c][j].sub] = c
    <3>1. cmdCh[c][j].sub \in Alive
          BY DEF AllAlive, ConnAlive
    <3> QED BY <3>1, HomeStays DEF Addressed
  <2> QED BY <2>1 DEF TypeOK, MetaTypes
<1>1. CASE cmdCh'[c] = cmdCh[c]
      BY <1>0, <1>1
<1>2. CASE cmdCh'[c] = <<>>
      BY <1>2
<1>3. CASE cmdCh[c] # <<>> /\ cmdCh'[c] = Tail(cmdCh[c])
  <2>1. i + 1 \in 1..Len(cmdCh[c]) /\ cmdCh'[c][i] = cmdCh[c][i + 1]
        BY <1>0, <1>3
  <2> QED BY <1>0, <2>1
<1>4. ASSUME NEW op, NEW s, NEW h, pubsub'[s] = c, cmdCh'[c] = Append(cmdCh[c], Command(op, s, h))
      PROVE  pubsub'[cmdCh'[c][i].sub] = c
  <2>1. (i \in 1..Len(cmdCh[c]) /\ cmdCh'[c][i] = cmdCh[c][i]) \/ cmdCh'[c][i].sub = s
        BY <1>4, QueueEffect
  <2> QED BY <1>0, <1>4, <2>1
<1>5. ASSUME NEW h \in Handles, CallerStep(h) PROVE pubsub'[cmdCh'[c][i].sub] = c
  <2>1. CASE SendQueues(h)
    <3>1. /\ UNCHANGED pubsub
          /\ cmdCh' = [cmdCh EXCEPT ![CurConn(h)] = Append(@, Command("subscribe", Cur(h), h))]
          BY <2>1 DEF SendQueues, Queue
    <3>2. CASE c # CurConn(h)
          BY <1>0, <1>1, <3>1, <3>2 DEF MetaTypes
    <3>3. CASE c = CurConn(h)
      <4>1. cmdCh'[c] = Append(cmdCh[c], Command("subscribe", Cur(h), h)) /\ pubsub'[Cur(h)] = c
            BY <1>0, <3>1, <3>3 DEF MetaTypes, CurConn
      <4> QED BY <1>4, <4>1
    <3> QED BY <3>2, <3>3
  <2>2. CASE UnsubQueues(h)
    <3>1. /\ UNCHANGED pubsub
          /\ cmdCh' = [cmdCh EXCEPT ![UnsubConn(h)] =
                         Append(@, Command("unsubscribe", FirstSub(h, curCh[h]), h))]
          BY <2>2 DEF UnsubQueues, Queue
    <3>2. CASE c # UnsubConn(h)
          BY <1>0, <1>1, <3>1, <3>2 DEF MetaTypes
    <3>3. CASE c = UnsubConn(h)
      <4>1. /\ cmdCh'[c] = Append(cmdCh[c], Command("unsubscribe", FirstSub(h, curCh[h]), h))
            /\ pubsub'[FirstSub(h, curCh[h])] = c
            BY <1>0, <3>1, <3>3 DEF MetaTypes, UnsubConn
      <4> QED BY <1>4, <4>1
    <3> QED BY <3>2, <3>3
  <2>3. CASE ~SendQueues(h) /\ ~UnsubQueues(h)
    <3>1. UNCHANGED cmdCh
          BY <1>5, <2>3 DEF CallerStep, CallStep, Goto, Subscribe, Unsubscribe, Expire, Lookup,
             Create, List, CreateFails, MetadataGone, Track, Register, SendFails, Confirm,
             WaitActive, WaitExpires, CheckPending, CheckState, Activate, SendCleanup, Untrack,
             Unregister, Abort, UnsubCheck, UnsubCount, UnsubUntrack, UnsubPhase1, UnsubSendFails,
             UnsubClean, UnsubWait, UnsubRemove
    <3> QED BY <1>1, <3>1
  <2> QED BY <2>1, <2>2, <2>3
<1>6. ASSUME NEW d \in Conns, LoopStep(d) \/ Break(d) PROVE pubsub'[cmdCh'[c][i].sub] = c
      BY <1>1, <1>2, <1>3, <1>6, LoopMeta
<1>7. CASE UNCHANGED cmdCh
      BY <1>1, <1>7
<1> QED BY <1>5, <1>6, <1>7, CloseOthers, PublishOthers DEF Next, CallerStep, vars

\* A connection has finitely many subscriptions.
LEMMA FiniteStep ==
  ASSUME TypeOK, Placed, AllAlive, Homes, [Next]_vars, NEW c \in Conns, IsFiniteSet(subscriptions[c])
  PROVE  IsFiniteSet(subscriptions'[c])
<1>1. ASSUME NEW h \in Handles, CallerStep(h) PROVE IsFiniteSet(subscriptions'[c])
  <2>1. subscriptions'[c] \subseteq subscriptions[c] \cup {Cur(h)}
        BY <1>1, CallerRegisters
  <2>2. IsFiniteSet(subscriptions[c] \cup {Cur(h)})
        BY FS_AddElement
  <2> QED BY <2>1, <2>2, FS_Subset
<1>2. CASE UNCHANGED subscriptions
      BY <1>2
<1> QED BY <1>1, <1>2, LoopOthers, CloseOthers, PublishOthers DEF Next, CallerStep, vars

\* Only the loss of a connection ends its loop, also when callers leave.
LEMMA OrderlyLostOnly ==
  ASSUME TypeOK, Placed, AllAlive, NotYet, Homes, Addressed, CloseFlag, Orderly, Orderly',
         [Next]_vars, NEW c \in Conns, LostOnly(c)
  PROVE  LostOnly(c)'
<1>0. /\ (wire[c] = "lost" => wire'[c] = "lost") /\ LoopTypes /\ MetaTypes
      /\ (loop[c] \in {"expired", "rejected"} => loopSub[c] \in Alive)
      BY LostStays DEF TypeOK, AllAlive, ConnAlive
<1>1. ASSUME Dying(c)' => Dying(c), loop'[c] \in {"expired", "rejected"} => loop'[c] = loop[c],
             loopSub'[c] = loopSub[c]
      PROVE  LostOnly(c)'
  <2>1. loop[c] = "rejected" => pubsub'[loopSub[c]] = pubsub[loopSub[c]]
        BY <1>0, HomeStays
  <2> QED BY <1>0, <1>1, <2>1 DEF LostOnly
<1>2. ASSUME NEW h \in Handles, Arrives(h) PROVE LostOnly(c)'
  <2>1. /\ loopSub'[c] = loopSub[c]
        /\ loop'[c] = loop[c] \/ (loop[c] = "off" /\ loop'[c] = "select")
        /\ connState'[c] = connState[c] \/ connState'[c] = "active"
        BY <1>2, ArrivesLoops
  <2>2. UNCHANGED <<done, loopDone>>
        BY <1>2, ArrivesMeta
  <2> QED BY <1>1, <2>1, <2>2 DEF Dying
<1>3. ASSUME NEW h \in Handles, Leaves(h) PROVE LostOnly(c)'
  <2>1. UNCHANGED <<loop, loopSub, connState, done, loopDone>>
        BY <1>3, LeavesMeta
  <2> QED BY <1>1, <2>1 DEF Dying
<1>4. ASSUME NEW d \in Conns, LoopStep(d) \/ Break(d) PROVE LostOnly(c)'
  <2>1. CASE c # d
    <3>1. /\ loop'[c] = loop[c] /\ loopSub'[c] = loopSub[c] /\ connState'[c] = connState[c]
          /\ done'[c] = done[c] /\ loopDone'[c] = loopDone[c]
          BY <1>4, <2>1, LoopOthers, LoopMeta
    <3> QED BY <1>1, <3>1 DEF Dying
  <2>2. CASE c = d /\ LoopSendFails(c)
    <3>1. cmdCh[c] # <<>> /\ UNCHANGED <<wire, pubsub>> /\ cmdCh[c] \in Seq(Commands)
          BY <1>0, <2>2 DEF LoopSendFails, MetaTypes
    <3>2. Head(cmdCh[c]) = cmdCh[c][1] /\ 1 \in 1..Len(cmdCh[c]) /\ cmdCh[c][1] \in Commands
          BY <3>1
    <3>3. pubsub[Head(cmdCh[c]).sub] = c /\ ctx[Head(cmdCh[c]).handle] = "live"
          BY <3>2 DEF Addressed, Commands, Orderly
    <3>4. /\ wire[c] = "lost"
          /\ \/ loop'[c] = "rejected" /\ loopSub'[c] = Head(cmdCh[c]).sub
             \/ loop'[c] = "fail"
          BY <1>0, <2>2, <3>3 DEF LoopSendFails, LoopTo, LoopTypes
    <3> QED BY <3>1, <3>3, <3>4 DEF LostOnly
  <2>3. CASE c = d /\ (LoopSends(c) \/ LoopReceivesConfirmation(c) \/ LoopConfirms(c)
                         \/ LoopUnpends(c) \/ LoopReceivesMessage(c) \/ LoopDispatches(c)
                         \/ LoopHandsOver(c))
    <3>1. UNCHANGED <<connState, done, loopDone>>
          /\ loop'[c] \in {"select", "confirm", "unpend", "dispatch", "handOver"}
          BY <1>0, <2>3 DEF LoopSends, LoopReceivesConfirmation, LoopConfirms, LoopUnpends,
             LoopReceivesMessage, LoopDispatches, LoopHandsOver, LoopTo, LoopTypes
    <3> QED BY <1>0, <3>1 DEF LostOnly, Dying
  <2>4. CASE c = d /\ Break(c)
        BY <1>1, <2>4 DEF Break, Dying
  <2>5. CASE c = d /\ (LoopFailsSub(c) \/ LoopLosesChannel(c) \/ LoopMarksFailed(c)
                         \/ LoopSnapshots(c) \/ LoopNotifies(c) \/ LoopSignals(c) \/ LoopStops(c)
                         \/ LoopDrains(c)
                         \/ LoopClosesLoopDone(c) \/ LoopExits(c) \/ LoopRetires(c)
                         \/ LoopRemovesConn(c) \/ LoopCleansZombies(c))
    <3>1. wire[c] = "lost"
      <4>1. Dying(c) \/ wire[c] = "lost"
            BY <2>5 DEF Dying, LoopFailsSub, LoopLosesChannel, LoopMarksFailed, LoopSnapshots,
               LoopNotifies, LoopSignals, LoopStops, LoopDrains, LoopClosesLoopDone, LoopExits,
               LoopRetires, LoopRemovesConn, LoopCleansZombies
      <4> QED BY <4>1 DEF LostOnly
    <3>2. loop'[c] \notin {"expired", "rejected"}
          BY <1>0, <2>5 DEF LostOnly, LoopFailsSub, LoopLosesChannel, LoopMarksFailed,
             LoopSnapshots, LoopNotifies, LoopSignals, LoopStops, LoopDrains, LoopClosesLoopDone,
             LoopExits, LoopRetires, LoopRemovesConn, LoopCleansZombies, LoopTo, LoopTypes
    <3> QED BY <1>0, <3>1, <3>2 DEF LostOnly
  <2> QED BY <1>4, <2>1, <2>2, <2>3, <2>4, <2>5 DEF LoopStep
<1>5. CASE UNCHANGED <<loop, loopSub, connState, done, loopDone>>
      BY <1>1, <1>5 DEF Dying
<1> QED BY <1>2, <1>3, <1>4, <1>5, OrderlyBefore, PublishOthers DEF vars

\* A subscription has bad news from an event loop that ends.
LEMMA BadNewsFrom ==
  ASSUME TypeOK, Placed, AllAlive, CloseFlag, Orderly, Orderly', [Next]_vars, NEW s \in Alive,
         state'[s] = "failed" \/ confirmCh'[s] = "err" \/ doneCh'[s] = "err"
  PROVE  \/ state[s] = "failed" \/ confirmCh[s] = "err" \/ doneCh[s] = "err"
         \/ \E c \in Conns : \/ LoopFailsSub(c) /\ s = loopSub[c]
                             \/ LoopNotifies(c) /\ s \in loopTodo[c]
<1> DEFINE Bad == state[s] = "failed" \/ confirmCh[s] = "err" \/ doneCh[s] = "err"
<1>0. SubTypes /\ s \in Subs
      BY DEF TypeOK, Alive
<1>1. CASE UNCHANGED <<state, confirmCh, doneCh>>
      BY <1>1
<1>2. ASSUME NEW t \in Subs, SetState(t, "active", "nil") PROVE Bad
  <2>1. /\ s # t => state'[s] = state[s] /\ confirmCh'[s] = confirmCh[s] /\ doneCh'[s] = doneCh[s]
        /\ s = t => /\ state'[s] = "active" /\ confirmCh'[s] \in {confirmCh[s], "nil"}
                    /\ doneCh'[s] \in {doneCh[s], "nil"}
        BY <1>0, <1>2, SetStateEffect
  <2> QED BY <2>1
<1>3. ASSUME NEW h \in Handles, CallerStep(h) PROVE Bad
  <2>1. CASE Track(h)
        BY <1>0, <2>1 DEF Track, SubTypes
  <2>2. CASE Activate(h)
    <3>1. Cur(h) \in Subs
          BY <2>2, CurTypes DEF Activate, CreatedPcs
    <3> QED BY <1>2, <2>2, <3>1 DEF Activate
  <2>3. CASE Confirm(h)
        BY <1>0, <2>3 DEF Confirm, SubTypes
  <2>4. CASE UnsubPhase1(h)
    <3>1. UNCHANGED <<state, confirmCh, doneCh>> \/ \E S : SetClosed(S)
          BY <2>4 DEF UnsubPhase1
    <3>2. ASSUME NEW S, SetClosed(S) PROVE Bad
          BY <1>0, <3>2 DEF SetClosed, Confirmed, Announced, SubTypes
    <3> QED BY <1>1, <3>1, <3>2
  <2>5. CASE ~Track(h) /\ ~Activate(h) /\ ~Confirm(h) /\ ~UnsubPhase1(h)
    <3>1. UNCHANGED <<state, confirmCh, doneCh>>
          BY <1>3, <2>5 DEF CallerStep, CallStep, Goto, Subscribe, Unsubscribe, Expire, Lookup,
             Create, List, CreateFails, MetadataGone, Register, SendQueues, SendFails, WaitActive,
             WaitExpires, CheckPending, CheckState, SendCleanup, Untrack, Unregister, Abort,
             UnsubCheck, UnsubCount, UnsubUntrack, UnsubQueues, UnsubSendFails, UnsubClean,
             UnsubWait, UnsubRemove
    <3> QED BY <1>1, <3>1
  <2> QED BY <2>1, <2>2, <2>3, <2>4, <2>5
<1>4. ASSUME NEW c \in Conns, LoopStep(c) \/ Break(c)
      PROVE  Bad \/ (LoopFailsSub(c) /\ s = loopSub[c]) \/ (LoopNotifies(c) /\ s \in loopTodo[c])
  <2>1. CASE LoopConfirms(c)
    <3>1. loopSub[c] \in Subs
          BY <2>1 DEF LoopConfirms, AllAlive, ConnAlive, Alive
    <3> QED BY <1>2, <2>1, <3>1 DEF LoopConfirms
  <2>2. ASSUME NEW t \in Subs, SetState(t, "failed", "err") PROVE Bad \/ s = t
        BY <1>0, <2>2, SetStateEffect
  <2>3. CASE LoopFailsSub(c)
    <3>1. loopSub[c] \in Subs
          BY <2>3 DEF LoopFailsSub, AllAlive, ConnAlive, Alive
    <3> QED BY <2>2, <2>3, <3>1 DEF LoopFailsSub
  <2>4. CASE LoopNotifies(c)
    <3>1. \A t \in loopTodo[c] : t \in Subs
          BY DEF AllAlive, ConnAlive, Alive
    <3> QED BY <1>1, <2>2, <2>4, <3>1 DEF LoopNotifies
  <2>5. CASE UNCHANGED <<state, confirmCh, doneCh>>
        BY <1>1, <2>5
  <2> QED BY <1>4, <2>1, <2>3, <2>4, <2>5 DEF LoopStep, LoopSends, LoopSendFails,
         LoopLosesChannel, LoopMarksFailed, LoopSnapshots, LoopSignals, LoopReceivesConfirmation,
         LoopUnpends, LoopReceivesMessage, LoopDispatches, LoopHandsOver, LoopStops, LoopDrains,
         LoopClosesLoopDone, LoopExits, LoopRetires, LoopRemovesConn, LoopCleansZombies, Break
<1> QED BY <1>1, <1>3, <1>4, OrderlyBefore, CallerSteps, PublishOthers DEF vars

\* Bad news is true.
LEMMA BadNewsStep ==
  ASSUME TypeOK, Placed, AllAlive, NotYet, Homes, CloseFlag, Unannounced, Orderly, Orderly',
         [Next]_vars, \A c \in Conns : LostOnly(c), \A s \in Alive : BadNews(s), NEW s \in Alive'
  PROVE  BadNews(s)'
<1> SUFFICES ASSUME state'[s] = "failed" \/ confirmCh'[s] = "err" \/ doneCh'[s] = "err"
             PROVE  wire'[pubsub'[s]] = "lost"
    BY DEF BadNews
<1>1. CASE s \in Alive
  <2>1. pubsub'[s] = pubsub[s] /\ pubsub[s] \in Conns
        BY <1>1, HomeStays DEF Homes
  <2>2. wire[pubsub[s]] = "lost"
    <3>1. ASSUME NEW c \in Conns, LoopFailsSub(c), s = loopSub[c] PROVE wire[pubsub[s]] = "lost"
      <4>1. loop[c] \in {"expired", "rejected"}
            BY <3>1 DEF LoopFailsSub
      <4> QED BY <3>1, <4>1 DEF LostOnly, Dying
    <3>2. ASSUME NEW c \in Conns, LoopNotifies(c), s \in loopTodo[c] PROVE wire[pubsub[s]] = "lost"
      <4>1. loop[c] = "notify"
            BY <3>2 DEF LoopNotifies
      <4> QED BY <3>2, <4>1 DEF LostOnly, Dying, Homes
    <3>3. CASE state[s] = "failed" \/ confirmCh[s] = "err" \/ doneCh[s] = "err"
          BY <1>1, <3>3 DEF BadNews
    <3> QED BY <1>1, <3>1, <3>2, <3>3, BadNewsFrom
  <2> QED BY <2>1, <2>2, LostStays
<1>2. CASE s \notin Alive
  <2>1. PICK h \in Handles : Track(h) /\ s = Cur(h)
        BY <1>2, WhoIsCreated
  <2>2. s \in Subs
        BY DEF Alive
  <2>3. state'[s] = "pending" /\ confirmCh'[s] = "empty" /\ doneCh'[s] = "open"
        BY <1>2, <2>1, <2>2 DEF Track, TypeOK, SubTypes, NotYet, Unannounced
  <2> QED BY <2>3
<1> QED BY <1>1, <1>2

\* A connection that is up and exists is in the pool and active.
LEMMA UpIsUsable ==
  ASSUME TypeOK, Homes, LeftPool, NEW c \in Conns, LostOnly(c), connState[c] # "none",
         wire[c] # "lost"
  PROVE  c \in Usable
<1>1. ~Dying(c)
      BY DEF LostOnly
<1>2. connState[c] = "active"
      BY <1>1 DEF Dying, TypeOK, MetaTypes
<1>3. c \in inPool
      BY <1>1 DEF LeftPool, Dying
<1> QED BY <1>2, <1>3 DEF Usable

\* Only a new connection becomes usable.
LEMMA UsableFrom ==
  ASSUME TypeOK, CloseFlag, Placed, AllAlive, Homes, Orderly, Orderly', [Next]_vars
  PROVE  Usable' \subseteq Usable \/ \E h \in Handles : Create(h)
<1> SUFFICES ASSUME \A h \in Handles : ~Create(h) PROVE Usable' \subseteq Usable
    OBVIOUS
<1>1. ASSUME NEW h \in Handles, CallerStep(h) PROVE UNCHANGED <<inPool, connState>>
      BY <1>1 DEF CallerStep, CallStep, Goto, Subscribe, Unsubscribe, Expire, Lookup, List,
         CreateFails, MetadataGone, Track, Register, SendQueues, SendFails, Confirm, WaitActive,
         WaitExpires, CheckPending, CheckState, Activate, SendCleanup, Untrack, Unregister, Abort,
         UnsubCheck, UnsubCount, UnsubUntrack, UnsubPhase1, UnsubQueues, UnsubSendFails,
         UnsubClean, UnsubWait, UnsubRemove
<1>2. ASSUME NEW d \in Conns, LoopStep(d) \/ Break(d), NEW c \in Usable' PROVE c \in Usable
  <2>0. MetaTypes /\ c \in Conns
        BY <1>2, TypeStep DEF TypeOK, MuxTypes, Usable
  <2>1. c \in inPool
        BY <1>2, LoopOthers DEF Usable
  <2>2. connState'[c] = "active"
        BY <1>2 DEF Usable
  <2>3. CASE LoopMarksFailed(d) \/ LoopRetires(d)
    <3>1. connState'[c] \in {connState[c], "failed", "closed"}
          BY <2>0, <2>3 DEF LoopMarksFailed, LoopRetires, CloseMeta, MetaTypes
    <3> QED BY <2>1, <2>2, <3>1 DEF Usable
  <2>4. CASE ~LoopMarksFailed(d) /\ ~LoopRetires(d)
    <3>1. UNCHANGED connState
          BY <1>2, <2>4 DEF LoopStep, LoopSends, LoopSendFails, LoopFailsSub, LoopLosesChannel,
             LoopSnapshots, LoopNotifies, LoopSignals, LoopReceivesConfirmation, LoopConfirms,
             LoopUnpends, LoopReceivesMessage, LoopDispatches, LoopHandsOver, LoopStops,
             LoopDrains, LoopClosesLoopDone, LoopExits, LoopRemovesConn, LoopCleansZombies, Break
    <3> QED BY <2>1, <2>2, <3>1 DEF Usable
  <2> QED BY <2>3, <2>4
<1>3. CASE UNCHANGED <<inPool, connState>>
      BY <1>3 DEF Usable
<1> QED BY <1>1, <1>2, <1>3, OrderlyBefore, CallerSteps, PublishOthers DEF vars

\* Only a connection that leaves the pool leaves its lists.
LEMMA ListedStays ==
  ASSUME TypeOK, Placed, AllAlive, CloseFlag, Orderly', [Next]_vars, NEW c \in listed, c \in inPool'
  PROVE  c \in listed'
<1>1. ASSUME NEW h \in Handles, CallerStep(h) PROVE listed \subseteq listed'
      BY <1>1 DEF CallerStep, CallStep, Goto, muxVars, Subscribe, Unsubscribe, Expire, Lookup,
         Create, List, CreateFails, MetadataGone, Track, Register, SendQueues, SendFails, Confirm,
         WaitActive, WaitExpires, CheckPending, CheckState, Activate, SendCleanup, Untrack,
         Unregister, Abort, UnsubCheck, UnsubCount, UnsubUntrack, UnsubPhase1, UnsubQueues,
         UnsubSendFails, UnsubClean, UnsubWait, UnsubRemove
<1>2. ASSUME NEW d \in Conns, LoopStep(d) \/ Break(d) PROVE c \in listed'
  <2>1. UNCHANGED listed \/ LoopRemovesConn(d)
        BY <1>2 DEF LoopStep, muxVars, LoopSends, LoopSendFails, LoopFailsSub, LoopLosesChannel,
           LoopMarksFailed, LoopSnapshots, LoopNotifies, LoopSignals, LoopReceivesConfirmation,
           LoopConfirms, LoopUnpends, LoopReceivesMessage, LoopDispatches, LoopHandsOver,
           LoopStops, LoopDrains, LoopClosesLoopDone, LoopExits, LoopRetires, LoopCleansZombies,
           Break
  <2> QED BY <2>1 DEF LoopRemovesConn
<1>3. ASSUME NEW type \in Types, NEW ch \in Channels, Publish(type, ch) PROVE UNCHANGED listed
      BY <1>3 DEF Publish, muxVars
<1> QED BY <1>1, <1>2, <1>3, OrderlyBefore, CallerSteps DEF vars, muxVars

\* A caller opens a connection only when it finds none.
LEMMA SingleStep ==
  ASSUME TypeOK, Placed, AllAlive, Homes, CloseFlag, Orderly, Orderly', OneCall, Single, [Next]_vars,
         \A c \in Conns : IsFiniteSet(subscriptions[c])
  PROVE  Single'
<1> USE DEF Go, Goto
<1>1. ASSUME NEW h \in Handles, Create(h) PROVE Single'
  <2>1. pc[h] = "create" /\ pc'[h] = "list" /\ Usable = {}
        BY <1>1 DEF Create, TypeOK, CallTypes, Single
  <2>2. PICK c \in Conns : /\ connState' = [connState EXCEPT ![c] = "active"]
                           /\ inPool' = inPool \cup {c}
                           /\ pubsub' = [pubsub EXCEPT ![Cur(h)] = c]
        BY <1>1 DEF Create
  <2>3. Usable' \subseteq {c}
    <3> SUFFICES ASSUME NEW d \in Usable', d # c PROVE d \in Usable
        BY <2>1
    <3>1. d \in inPool /\ connState'[d] = "active" /\ inPool \subseteq Conns
          BY <2>2 DEF Usable, TypeOK, MuxTypes
    <3>2. connState'[d] = connState[d]
          BY <2>2, <3>1 DEF TypeOK, MetaTypes
    <3> QED BY <3>1, <3>2 DEF Usable
  <2>4. ASSUME NEW g \in Handles, pc'[g] = "create" PROVE FALSE
    <3>1. CallerStep(h) /\ InCall(h)
          BY <1>1, <2>1 DEF CallerStep, CallStep, InCall
    <3>2. g # h
          BY <2>1, <2>4
    <3>3. pc[g] = "create"
          BY <2>4, <3>1, <3>2, CallerOthers
    <3> QED BY <2>1, <3>2, <3>3 DEF OneCall, InCall
  <2>5. CurConn(h)' = c
    <3>1. Cur(h) \in Subs /\ UNCHANGED idx
          BY <1>1, <2>1, CurTypes DEF Create
    <3> QED BY <2>2, <3>1 DEF CurConn, Cur, TypeOK, SubTypes
  <2> QED BY <2>1, <2>3, <2>4, <2>5 DEF Single
<1>2. ASSUME Usable' \subseteq Usable, \A h \in Handles : ~Create(h) PROVE Single'
  <2>1. \A c, d \in Usable' : c = d
        BY <1>2 DEF Single
  <2>2. ASSUME NEW h \in Handles, pc'[h] = "create" PROVE Usable' = {}
    <3>1. CASE pc[h] = "create"
          BY <1>2, <3>1 DEF Single
    <3>2. CASE pc[h] # "create"
      <4>1. CallerStep(h)
            BY <2>2, <3>2, IdleStays
      <4>2. Lookup(h)
        <5>0. CallTypes
              BY DEF TypeOK
        <5>1. CASE Subscribe(h) \/ Unsubscribe(h) \/ Expire(h) \/ Lookup(h) \/ Create(h)
                     \/ List(h) \/ CreateFails(h) \/ MetadataGone(h) \/ Track(h) \/ Register(h)
              BY <2>2, <3>2, <5>0, <5>1 DEF CallTypes, Subscribe, Unsubscribe, Expire, Create,
                 List, CreateFails, MetadataGone, Track, Register, RegisterDecision
        <5>2. CASE SendQueues(h) \/ SendFails(h) \/ Confirm(h) \/ WaitActive(h) \/ WaitExpires(h)
                     \/ CheckPending(h) \/ CheckState(h) \/ Activate(h) \/ SendCleanup(h)
                     \/ Untrack(h) \/ Unregister(h) \/ Abort(h)
              BY <2>2, <3>2, <5>0, <5>2 DEF CallTypes, SendQueues, SendFails, Confirm, WaitActive,
                 WaitExpires, CheckPending, CheckState, Activate, SendCleanup, Untrack,
                 Unregister, Abort, Advance
        <5>3. CASE UnsubCheck(h) \/ UnsubCount(h) \/ UnsubUntrack(h) \/ UnsubPhase1(h)
                     \/ UnsubQueues(h) \/ UnsubSendFails(h) \/ UnsubClean(h) \/ UnsubWait(h)
                     \/ UnsubRemove(h)
              BY <2>2, <3>2, <5>0, <5>3 DEF CallTypes, UnsubCheck, UnsubCount, UnsubUntrack,
                 UnsubPhase1, UnsubQueues, UnsubSendFails, UnsubClean, UnsubWait, UnsubRemove,
                 Ended
        <5> QED BY <4>1, <5>1, <5>2, <5>3 DEF CallerStep, CallStep
      <4>3. LeastLoaded = {}
            BY <2>2, <4>2 DEF Lookup, TypeOK, CallTypes
      <4>4. ASSUME NEW c \in Usable PROVE FALSE
        <5>1. \A d \in Usable : d = c
              BY DEF Single
        <5>2. c \in Conns
              BY DEF Usable, TypeOK, MuxTypes
        <5>3. Cardinality(subscriptions[c]) \in Nat
              BY <5>2, FS_CardinalityType
        <5>4. Cardinality(subscriptions[c]) <= Cardinality(subscriptions[c])
              BY <5>3
        <5>5. c \in listed
          <6>1. ASSUME NEW g \in Handles, pc[g] = "list" PROVE FALSE
                BY <4>2, <6>1 DEF Lookup, OneCall, InCall
          <6> QED BY <6>1 DEF Single
        <5>6. c \in LeastLoaded
              BY <5>1, <5>4, <5>5 DEF LeastLoaded, Usable
        <5> QED BY <4>3, <5>6
      <4> QED BY <1>2, <4>4
    <3> QED BY <3>1, <3>2
  <2>3. ASSUME NEW c \in Usable'
        PROVE  c \in listed' \/ \E h \in Handles : pc'[h] = "list" /\ CurConn(h)' = c
    <3>1. c \in inPool' /\ (c \in listed \/ \E h \in Handles : pc[h] = "list" /\ CurConn(h) = c)
          BY <1>2 DEF Usable, Single
    <3>2. CASE c \in listed
          BY <3>1, <3>2, ListedStays
    <3>3. ASSUME NEW h \in Handles, pc[h] = "list", CurConn(h) = c
          PROVE  c \in listed' \/ (pc'[h] = "list" /\ CurConn(h)' = c)
      <4>1. CASE CallerStep(h)
        <5>1. List(h)
          <6>1. CASE Arrives(h)
                BY <3>3, <6>1 DEF Arrives, Subscribe, Lookup, Create, CreateFails, MetadataGone,
                   Track, Register, SendQueues, SendFails, Confirm, WaitActive, CheckPending,
                   CheckState, Activate, SendCleanup, Untrack, Unregister, Abort
          <6>2. CASE Leaves(h)
                BY <3>3, <6>2 DEF Leaves, Unsubscribe, UnsubCheck, UnsubCount, UnsubUntrack,
                   UnsubPhase1, UnsubQueues, UnsubSendFails, UnsubClean, UnsubWait, UnsubRemove
          <6> QED BY <4>1, <6>1, <6>2, CallerIs
        <5> QED BY <3>3, <5>1 DEF List
      <4>2. CASE ~CallerStep(h)
        <5>1. \A g \in Handles : ~CallerStep(g)
              BY <3>3, <4>2, OnlyMe DEF InCall
        <5>2. UNCHANGED <<callVars, pubsub>>
              BY <5>1, OthersMove
        <5> QED BY <3>3, <5>2 DEF callVars, CurConn, Cur
      <4> QED BY <4>1, <4>2
    <3> QED BY <3>1, <3>2, <3>3
  <2> QED BY <2>1, <2>2, <2>3 DEF Single
<1> QED BY <1>1, <1>2, UsableFrom

-----------------------------------------------------------------------------
(* The SUBSCRIBE of the caller, on its way to Redis and back *)

\* A caller waits until its confirmation is handled.
LEMMA AskStays ==
  ASSUME TypeOK, Placed, AllAlive, NotYet, Homes, CloseFlag, Unannounced, Orderly, Orderly',
         OneCall, [Next]_vars, \A d \in Conns : LostOnly(d), \A s \in Alive : BadNews(s),
         NEW c \in Conns, NEW ch, Asked(c, ch), wire'[c] = "up", ~LoopConfirms(c)
  PROVE  Asked(c, ch)'
<1>1. PICK h \in Handles : Asks(h, c, ch)
      BY DEF Asked
<1>2. /\ pc[h] = "confirm" /\ CurConn(h) = c /\ CurChannel(h) = ch /\ confirmCh[Cur(h)] = "empty"
      /\ InCall(h) /\ pc[h] \in CreatedPcs
      BY <1>1 DEF Asks, InCall, CreatedPcs
<1>3. ~CallerStep(h)
  <2>1. ~Arrives(h)
        BY <1>2 DEF Arrives, Subscribe, Lookup, Create, List, CreateFails, MetadataGone, Track,
           Register, SendQueues, SendFails, Confirm, WaitActive, CheckPending, CheckState,
           Activate, SendCleanup, Untrack, Unregister, Abort
  <2>2. ~Leaves(h)
        BY <1>2 DEF Leaves, Unsubscribe, UnsubCheck, UnsubCount, UnsubUntrack, UnsubPhase1,
           UnsubQueues, UnsubSendFails, UnsubClean, UnsubWait, UnsubRemove
  <2>3. ctx[h] = "live" /\ ctx'[h] = "live"
        BY DEF Orderly
  <2>4. ~Expire(h) /\ ~WaitExpires(h)
        BY <2>3 DEF Expire, WaitExpires, TypeOK, CallTypes
  <2> QED BY <2>1, <2>2, <2>4 DEF CallerStep, CallStep, Arrives, Leaves
<1>4. pc'[h] = pc[h] /\ idx'[h] = idx[h]
      BY <1>3, IdleStays
<1>5. UNCHANGED <<Cur(h), CurConn(h), CurChannel(h)>> /\ Cur(h) \in Alive /\ Cur(h) \in Subs
      BY <1>2, <1>4, CurStays
<1>6. confirmCh'[Cur(h)] # "err"
  <2>1. Cur(h) \in Alive' /\ pubsub'[Cur(h)] = c
        BY <1>2, <1>5, HomeStays, WhoIsCreated DEF CurConn
  <2>2. \A s \in Alive' : BadNews(s)'
        BY BadNewsStep
  <2>3. \A s \in Alive' : confirmCh'[s] = "err" => wire'[pubsub'[s]] = "lost"
        BY <2>2 DEF BadNews
  <2> QED BY <2>1, <2>3
<1>7. confirmCh'[Cur(h)] # "nil"
  <2> SUFFICES ASSUME confirmCh'[Cur(h)] = "nil" PROVE FALSE
      OBVIOUS
  <2>1. PICK d \in Conns : LoopConfirms(d) /\ loopSub[d] = Cur(h)
        BY <1>2, NilFrom, OrderlyBefore
  <2>2. pubsub[Cur(h)] = d
        BY <2>1 DEF LoopConfirms, Homes
  <2> QED BY <1>2, <2>1, <2>2 DEF CurConn
<1>8. confirmCh'[Cur(h)] \in {"empty", "nil", "err"}
      BY <1>5, TypeStep DEF TypeOK, SubTypes
<1>9. Asks(h, c, ch)'
      BY <1>2, <1>4, <1>5, <1>6, <1>7, <1>8 DEF Asks
<1> QED BY <1>9 DEF Asked

\* How the inbox changes, as long as the connection is up.
LEMMA InboxCases ==
  ASSUME TypeOK, Placed, AllAlive, CloseFlag, Orderly, Orderly', [Next]_vars, NEW c \in Conns,
         wire'[c] = "up"
  PROVE  \/ LoopSends(c) \/ LoopReceivesConfirmation(c) \/ LoopReceivesMessage(c)
         \/ inbox'[c] = inbox[c]
         \/ \E type \in Types, ch \in Channels : /\ Publish(type, ch)
              /\ inbox'[c] = Append(inbox[c], [kind |-> "message", channel |-> ch, id |-> published + 1])
<1>0. inbox \in [Conns -> Seq(Incoming)]
      BY DEF TypeOK, ServerTypes
<1>1. ASSUME NEW d \in Conns, LoopStep(d) \/ Break(d)
      PROVE  \/ LoopSends(c) \/ LoopReceivesConfirmation(c) \/ LoopReceivesMessage(c)
             \/ inbox'[c] = inbox[c]
  <2>1. CASE d # c
        BY <1>1, <2>1, LoopOthers
  <2>2. CASE d = c
    <3>1. ~Break(c)
          BY DEF Break, TypeOK, ServerTypes
    <3> QED BY <1>1, <2>2, <3>1 DEF LoopStep, LoopSendFails, LoopFailsSub, LoopLosesChannel,
           LoopMarksFailed, LoopSnapshots, LoopNotifies, LoopSignals, LoopConfirms, LoopUnpends,
           LoopDispatches, LoopHandsOver, LoopStops, LoopDrains, LoopClosesLoopDone, LoopExits,
           LoopRetires, LoopRemovesConn, LoopCleansZombies
  <2> QED BY <2>1, <2>2
<1>2. ASSUME NEW type \in Types, NEW ch \in Channels, Publish(type, ch)
      PROVE  \/ inbox'[c] = inbox[c]
             \/ inbox'[c] = Append(inbox[c], [kind |-> "message", channel |-> ch, id |-> published + 1])
      BY <1>0, <1>2 DEF Publish
<1>3. CASE UNCHANGED inbox
      BY <1>3
<1> QED BY <1>1, <1>2, <1>3, OrderlyBefore, CallerSteps, CallerOthers DEF vars

\* A loop comes to confirm by a confirmation.
LEMMA ConfirmReached ==
  ASSUME TypeOK, Placed, AllAlive, Homes, CloseFlag, Orderly, Orderly', [Next]_vars, NEW c \in Conns,
         loop'[c] = "confirm"
  PROVE  \/ loop[c] = "confirm" /\ loopSub'[c] = loopSub[c] /\ ~LoopConfirms(c)
         \/ LoopReceivesConfirmation(c)
<1>0. loop \in [Conns -> LoopPcs]
      BY DEF TypeOK, LoopTypes
<1>1. ~LoopConfirms(c)
      BY <1>0 DEF LoopConfirms, LoopTo
<1>2. ASSUME NEW d \in Conns, LoopStep(d) \/ Break(d), ~LoopReceivesConfirmation(c)
      PROVE  loop[c] = "confirm" /\ loopSub'[c] = loopSub[c]
  <2>1. CASE d # c
        BY <1>2, <2>1, LoopOthers
  <2>2. CASE d = c
        BY <1>0, <1>2, <2>2 DEF LoopTo, LoopStep, LoopSends, LoopSendFails, LoopFailsSub,
           LoopLosesChannel, LoopMarksFailed, LoopSnapshots, LoopNotifies, LoopSignals,
           LoopConfirms, LoopUnpends, LoopReceivesMessage, LoopDispatches, LoopHandsOver,
           LoopStops, LoopDrains, LoopClosesLoopDone, LoopExits, LoopRetires, LoopRemovesConn,
           LoopCleansZombies, Break
  <2> QED BY <2>1, <2>2
<1>3. ASSUME NEW h \in Handles, CallerStep(h) PROVE loop[c] = "confirm" /\ loopSub'[c] = loopSub[c]
      BY <1>3, CallerLoops
<1> QED BY <1>1, <1>2, <1>3, OrderlyBefore, CallerSteps, PublishOthers DEF vars

\* The SUBSCRIBE of the caller is in one place, and what confirms it is true.
LEMMA OnItsWayStep ==
  ASSUME TypeOK, Placed, AllAlive, NotYet, Homes, PendingRegistered, CloseFlag, Unannounced,
         Orderly, Orderly', OneCall, [Next]_vars, \A d \in Conns : LostOnly(d),
         \A s \in Alive : BadNews(s), \A h \in Handles : Concluded(h), NEW c \in Conns, OnItsWay(c)
  PROVE  OnItsWay(c)'
<1>0. wire'[c] \in {"up", "lost"}
      BY TypeStep DEF TypeOK, ServerTypes
<1> SUFFICES ASSUME wire'[c] = "up"
             PROVE  SubscribeQueued(c)' /\ SubscribeAnswered(c)' /\ SubscribeHandled(c)'
    BY <1>0 DEF OnItsWay
<1>1. /\ wire[c] # "lost" /\ SubscribeQueued(c) /\ SubscribeAnswered(c) /\ SubscribeHandled(c)
      /\ LostOnly(c) /\ cmdCh[c] \in Seq(Commands) /\ inbox[c] \in Seq(Incoming)
      /\ Len(cmdCh[c]) \in Nat /\ Len(inbox[c]) \in Nat /\ loop \in [Conns -> LoopPcs]
      BY LostStays DEF OnItsWay, TypeOK, MetaTypes, ServerTypes, LoopTypes
<1>2. ASSUME \A h \in Handles : pc[h] # "confirm"
      PROVE  /\ \A i \in 1..Len(cmdCh[c]) : cmdCh[c][i].op # "subscribe"
             /\ \A i \in 1..Len(inbox[c]) : inbox[c][i].kind # "confirm"
             /\ loop[c] # "confirm"
  <2>1. \A ch : ~Asked(c, ch)
        BY <1>2 DEF Asked, Asks
  <2> QED BY <1>1, <2>1 DEF SubscribeQueued, SubscribeAnswered, SubscribeHandled
<1>3. ASSUME NEW ch, Asked(c, ch), ~LoopConfirms(c) PROVE Asked(c, ch)'
      BY <1>3, AskStays
<1>4. ASSUME NEW ch, Asked(c, ch), Firm(c, ch) PROVE Firm(c, ch)'
  <2>1. PICK h \in Handles : pc[h] = "confirm"
        BY <1>4 DEF Asked, Asks
  <2>2. ASSUME NEW g \in Handles, UnsubQueues(g) PROVE FALSE
    <3>1. CallerStep(g) /\ pc[g] = "uSend"
          BY <2>2 DEF CallerStep, CallStep, UnsubQueues
    <3>2. InCall(h)
          BY <2>1 DEF InCall
    <3> QED BY <2>1, <3>1, <3>2, OnlyMe
  <2>3. Sure(c, ch)
        BY <1>4 DEF Sure
  <2>4. Sure(c, ch)'
        BY <1>1, <2>2, <2>3, SureStays
  <2> QED BY <2>4 DEF Sure
\* Nothing moves but, perhaps, messages of the inbox.
<1>5. ASSUME ~LoopConfirms(c), cmdCh'[c] = cmdCh[c],
             loop'[c] = "confirm" => loop[c] = "confirm" /\ loopSub'[c] = loopSub[c],
             NEW k \in {0, 1}, Len(inbox'[c]) \in Nat,
             \A i \in 1..Len(inbox'[c]) : inbox'[c][i].kind = "confirm" =>
               i + k \in 1..Len(inbox[c]) /\ inbox'[c][i] = inbox[c][i + k]
      PROVE  SubscribeQueued(c)' /\ SubscribeAnswered(c)' /\ SubscribeHandled(c)'
  <2>1. SubscribeQueued(c)'
    <3> SUFFICES ASSUME NEW i \in 1..Len(cmdCh[c]), cmdCh[c][i].op = "subscribe"
                 PROVE  /\ i = Len(cmdCh[c]) /\ Asked(c, ChannelOf[cmdCh[c][i].sub])'
                        /\ loop'[c] # "confirm"
                        /\ \A j \in 1..Len(inbox'[c]) : inbox'[c][j].kind # "confirm"
        BY <1>5 DEF SubscribeQueued
    <3>1. /\ i = Len(cmdCh[c]) /\ Asked(c, ChannelOf[cmdCh[c][i].sub])
          /\ loop[c] # "confirm" /\ \A j \in 1..Len(inbox[c]) : inbox[c][j].kind # "confirm"
          BY <1>1 DEF SubscribeQueued
    <3>2. Asked(c, ChannelOf[cmdCh[c][i].sub])'
      <4>1. \A ch : Asked(c, ch) => Asked(c, ch)'
            BY <1>3, <1>5
      <4>2. cmdCh'[c][i] = cmdCh[c][i]
            BY <1>5
      <4> QED BY <3>1, <4>1, <4>2 DEF Asked, Asks
    <3> QED BY <1>5, <3>1, <3>2
  <2>2. SubscribeAnswered(c)'
    <3> SUFFICES ASSUME NEW i \in 1..Len(inbox'[c]), inbox'[c][i].kind = "confirm"
                 PROVE  /\ Asked(c, inbox[c][i].channel)' /\ Firm(c, inbox[c][i].channel)'
                        /\ loop'[c] # "confirm"
                        /\ \A j \in 1..Len(inbox'[c]) : inbox'[c][j].kind = "confirm" => j = i
        BY DEF SubscribeAnswered
    <3>1. i + k \in 1..Len(inbox[c]) /\ inbox'[c][i] = inbox[c][i + k]
          BY <1>5
    <3>2. /\ Asked(c, inbox'[c][i].channel) /\ Firm(c, inbox'[c][i].channel) /\ loop[c] # "confirm"
          /\ \A j \in 1..Len(inbox[c]) : inbox[c][j].kind = "confirm" => j = i + k
          BY <1>1, <3>1 DEF SubscribeAnswered
    <3>3. /\ \A ch : Asked(c, ch) => Asked(c, ch)'
          /\ \A ch : Asked(c, ch) /\ Firm(c, ch) => Firm(c, ch)'
          BY <1>3, <1>4, <1>5
    <3>4. Asked(c, inbox[c][i].channel)' /\ Firm(c, inbox[c][i].channel)'
          BY <3>2, <3>3 DEF Asked, Asks, Firm, HasTopic, UnsubQueued
    <3>5. \A j \in 1..Len(inbox'[c]) : inbox'[c][j].kind = "confirm" => j + k = i + k
          BY <1>5, <3>2
    <3> QED BY <1>5, <3>2, <3>4, <3>5
  <2>3. SubscribeHandled(c)'
    <3> SUFFICES ASSUME loop'[c] = "confirm"
                 PROVE  Asked(c, ChannelOf[loopSub[c]])' /\ Firm(c, ChannelOf[loopSub[c]])'
        BY DEF SubscribeHandled
    <3>1. /\ Asked(c, ChannelOf[loopSub[c]]) /\ Firm(c, ChannelOf[loopSub[c]])
          /\ loopSub'[c] = loopSub[c]
          BY <1>1, <1>5 DEF SubscribeHandled
    <3>2. /\ \A ch : Asked(c, ch) => Asked(c, ch)'
          /\ \A ch : Asked(c, ch) /\ Firm(c, ch) => Firm(c, ch)'
          BY <1>3, <1>4, <1>5
    <3> QED BY <3>1, <3>2 DEF Asked, Asks, Firm, HasTopic, UnsubQueued
  <2> QED BY <2>1, <2>2, <2>3

\* A caller queues its SUBSCRIBE: nobody else has one on its way.
<1>6. ASSUME NEW h \in Handles, SendQueues(h), CurConn(h) = c,
             cmdCh'[c] = Append(cmdCh[c], Command("subscribe", Cur(h), h))
      PROVE  SubscribeQueued(c)' /\ SubscribeAnswered(c)' /\ SubscribeHandled(c)'
  <2>1. /\ pc[h] = "send" /\ pc'[h] = "confirm" /\ InCall(h) /\ pc[h] \in CreatedPcs
        /\ UNCHANGED <<confirmCh, idx, pubsub, loop, loopSub, inbox>>
        BY <1>6 DEF SendQueues, Go, TypeOK, CallTypes, InCall, CreatedPcs
  <2>2. \A g \in Handles : pc[g] # "confirm"
        BY <2>1 DEF OneCall, InCall
  <2>3. /\ \A i \in 1..Len(cmdCh[c]) : cmdCh[c][i].op # "subscribe"
        /\ \A i \in 1..Len(inbox[c]) : inbox[c][i].kind # "confirm"
        /\ loop[c] # "confirm"
        BY <1>2, <2>2
  <2>4. UNCHANGED <<Cur(h), CurConn(h), CurChannel(h)>> /\ Cur(h) \in Alive /\ Cur(h) \in Subs
        BY <2>1, CurStays
  <2>5. confirmCh[Cur(h)] = "empty"
    <3>1. confirmCh[Cur(h)] \in {"empty", "nil", "err"}
          BY <2>4 DEF TypeOK, SubTypes
    <3>2. confirmCh[Cur(h)] # "nil"
          BY <1>1, <1>6, <2>1 DEF Concluded
    <3>3. confirmCh[Cur(h)] # "err"
          BY <1>1, <1>6, <2>4 DEF BadNews, CurConn
    <3> QED BY <3>1, <3>2, <3>3
  <2>6. Asks(h, c, CurChannel(h))'
        BY <1>6, <2>1, <2>4, <2>5 DEF Asks
  <2>7. \A i \in 1..Len(cmdCh'[c]) : cmdCh'[c][i].op = "subscribe" =>
          i = Len(cmdCh'[c]) /\ cmdCh'[c][i].sub = Cur(h)
        BY <1>6, <2>3, QueueEffect
  <2>8. SubscribeQueued(c)'
    <3> SUFFICES ASSUME NEW i \in 1..Len(cmdCh'[c]), cmdCh'[c][i].op = "subscribe"
                 PROVE  /\ i = Len(cmdCh'[c]) /\ Asked(c, ChannelOf[cmdCh[c][i].sub])'
                        /\ loop'[c] # "confirm"
                        /\ \A j \in 1..Len(inbox'[c]) : inbox'[c][j].kind # "confirm"
        BY DEF SubscribeQueued
    <3>1. ChannelOf[cmdCh'[c][i].sub] = CurChannel(h)'
          BY <2>4, <2>7 DEF CurChannel
    <3>2. Asked(c, ChannelOf[cmdCh[c][i].sub])'
          BY <2>6, <3>1 DEF Asked, Asks
    <3> QED BY <2>1, <2>3, <2>7, <3>2
  <2>9. SubscribeAnswered(c)' /\ SubscribeHandled(c)'
        BY <2>1, <2>3 DEF SubscribeAnswered, SubscribeHandled
  <2> QED BY <2>8, <2>9
\* Whoever unsubscribes is not waiting for a confirmation.
<1>7. ASSUME NEW h \in Handles, UnsubQueues(h),
             cmdCh'[c] = Append(cmdCh[c], Command("unsubscribe", FirstSub(h, curCh[h]), h))
      PROVE  SubscribeQueued(c)' /\ SubscribeAnswered(c)' /\ SubscribeHandled(c)'
  <2>1. pc[h] = "uSend" /\ InCall(h) /\ UNCHANGED <<loop, loopSub, inbox>>
        BY <1>7 DEF UnsubQueues, InCall
  <2>2. \A g \in Handles : pc[g] # "confirm"
        BY <2>1 DEF OneCall, InCall
  <2>3. /\ \A i \in 1..Len(cmdCh[c]) : cmdCh[c][i].op # "subscribe"
        /\ \A i \in 1..Len(inbox[c]) : inbox[c][i].kind # "confirm"
        /\ loop[c] # "confirm"
        BY <1>2, <2>2
  <2>4. \A i \in 1..Len(cmdCh'[c]) : cmdCh'[c][i].op # "subscribe"
        BY <1>7, <2>3, QueueEffect
  <2> QED BY <2>1, <2>3, <2>4 DEF SubscribeQueued, SubscribeAnswered, SubscribeHandled
\* Redis receives a command: a SUBSCRIBE was the last one.
<1>8. CASE LoopSends(c)
  <2>0. ~LoopConfirms(c) /\ Len(cmdCh'[c]) \in Nat
    <3>1. cmdCh'[c] = Tail(cmdCh[c]) /\ cmdCh[c] # <<>>
          BY <1>8, SendsEffect
    <3> QED BY <1>1, <1>8, <3>1 DEF LoopSends, LoopConfirms
  <2>1. /\ 1 \in 1..Len(cmdCh[c]) /\ cmdCh[c][1].sub \in Subs
        /\ cmdCh[c][1].op \in {"subscribe", "unsubscribe"}
        /\ Len(cmdCh'[c]) = Len(cmdCh[c]) - 1
        /\ \A i \in 1..Len(cmdCh'[c]) : i + 1 \in 1..Len(cmdCh[c]) /\ cmdCh'[c][i] = cmdCh[c][i + 1]
        /\ cmdCh[c][1].op = "subscribe" => topics'[c] = topics[c] \cup {Topic(cmdCh[c][1].sub)}
        /\ UNCHANGED <<loop, loopSub>> /\ loop[c] = "select"
        BY <1>8, SendsEffect
  <2>2. CASE cmdCh[c][1].op = "unsubscribe"
    <3>1. inbox'[c] = inbox[c]
      <4>1. Head(cmdCh[c]) = cmdCh[c][1]
            BY <1>1, <2>1
      <4> QED BY <1>8, <2>2, <4>1 DEF LoopSends, TypeOK, ServerTypes
    <3>2. SubscribeQueued(c)'
      <4> SUFFICES ASSUME NEW i \in 1..Len(cmdCh'[c]), cmdCh'[c][i].op = "subscribe"
                   PROVE  /\ i = Len(cmdCh'[c]) /\ Asked(c, ChannelOf[cmdCh[c][i].sub])'
                          /\ loop'[c] # "confirm"
                          /\ \A j \in 1..Len(inbox'[c]) : inbox'[c][j].kind # "confirm"
          BY DEF SubscribeQueued
      <4>1. i + 1 \in 1..Len(cmdCh[c]) /\ cmdCh'[c][i] = cmdCh[c][i + 1]
            BY <2>1
      <4>2. /\ i + 1 = Len(cmdCh[c]) /\ Asked(c, ChannelOf[cmdCh'[c][i].sub])
            /\ \A j \in 1..Len(inbox[c]) : inbox[c][j].kind # "confirm"
            BY <1>1, <4>1 DEF SubscribeQueued
      <4>3. \A ch : Asked(c, ch) => Asked(c, ch)'
            BY <1>3, <2>0
      <4>4. Asked(c, ChannelOf[cmdCh[c][i].sub])'
            BY <4>2, <4>3 DEF Asked, Asks
      <4>5. i = Len(cmdCh'[c])
            BY <1>1, <2>1, <4>2
      <4> QED BY <2>1, <3>1, <4>2, <4>4, <4>5
    <3>3. SubscribeAnswered(c)'
      <4> SUFFICES ASSUME NEW i \in 1..Len(inbox[c]), inbox[c][i].kind = "confirm"
                   PROVE  /\ Asked(c, inbox[c][i].channel)' /\ Firm(c, inbox[c][i].channel)'
                          /\ \A j \in 1..Len(inbox[c]) : inbox[c][j].kind = "confirm" => j = i
          BY <2>1, <3>1 DEF SubscribeAnswered
      <4>1. /\ Asked(c, inbox[c][i].channel) /\ Firm(c, inbox[c][i].channel)
            /\ \A j \in 1..Len(inbox[c]) : inbox[c][j].kind = "confirm" => j = i
            BY <1>1 DEF SubscribeAnswered
      <4>2. /\ \A ch : Asked(c, ch) => Asked(c, ch)'
            /\ \A ch : Asked(c, ch) /\ Firm(c, ch) => Firm(c, ch)'
            BY <1>3, <1>4, <2>0
      <4> QED BY <3>1, <4>1, <4>2 DEF Asked, Asks, Firm, HasTopic, UnsubQueued
    <3> QED BY <2>1, <3>2, <3>3 DEF SubscribeHandled
  <2>3. CASE cmdCh[c][1].op = "subscribe"
    <3>0. PICK ch : ch = ChannelOf[cmdCh[c][1].sub]
          OBVIOUS
    <3> DEFINE m == [kind |-> "confirm", channel |-> ch, id |-> 0]
    <3>1. /\ Len(cmdCh[c]) = 1 /\ Asked(c, ch)
          /\ \A j \in 1..Len(inbox[c]) : inbox[c][j].kind # "confirm"
          BY <1>1, <2>1, <2>3, <3>0 DEF SubscribeQueued
    <3>2. inbox'[c] = Append(inbox[c], m)
      <4>1. Head(cmdCh[c]) = cmdCh[c][1]
            BY <1>1, <2>1
      <4> QED BY <1>8, <2>3, <3>0, <4>1 DEF LoopSends, TypeOK, ServerTypes
    <3>3. Asked(c, ch)'
          BY <1>3, <2>0, <3>1
    <3>4. Len(cmdCh'[c]) = 0
          BY <2>1, <3>1
    <3>5. \A s \in Subs : ChannelOf[s] = ch => Topic(s) \in topics'[c]
          BY <2>1, <2>3, <3>0 DEF Orderly, OneTypePerName, Topic
    <3>6. m.kind = "confirm" /\ m.channel = ch
          OBVIOUS
    <3> HIDE DEF m
    <3>7. /\ Len(inbox'[c]) = Len(inbox[c]) + 1
          /\ \A i \in 1..Len(inbox'[c]) : (i = Len(inbox'[c]) /\ inbox'[c][i] = m)
               \/ (i \in 1..Len(inbox[c]) /\ inbox'[c][i] = inbox[c][i])
          BY <1>1, <3>2
    <3>8. \A i \in 1..Len(inbox'[c]) : inbox'[c][i].kind = "confirm" =>
            i = Len(inbox'[c]) /\ inbox'[c][i].channel = ch
          BY <3>1, <3>6, <3>7
    <3>9. SubscribeAnswered(c)'
      <4> SUFFICES ASSUME NEW i \in 1..Len(inbox'[c]), inbox'[c][i].kind = "confirm"
                   PROVE  /\ Asked(c, inbox[c][i].channel)' /\ Firm(c, inbox[c][i].channel)'
                          /\ loop'[c] # "confirm"
                          /\ \A j \in 1..Len(inbox'[c]) : inbox'[c][j].kind = "confirm" => j = i
          BY DEF SubscribeAnswered
      <4>1. /\ inbox'[c][i].channel = ch
            /\ \A j \in 1..Len(inbox'[c]) : inbox'[c][j].kind = "confirm" => j = i
            BY <3>8
      <4>2. PICK h \in Handles : pc'[h] = "confirm" /\ CurConn(h)' = c
                                 /\ CurChannel(h)' = inbox'[c][i].channel
                                 /\ confirmCh'[Cur(h)'] = "empty"
            BY <3>3, <4>1 DEF Asked, Asks
      <4>3. Asked(c, inbox[c][i].channel)'
            BY <4>2 DEF Asked, Asks
      <4>4. Firm(c, inbox[c][i].channel)'
            BY <3>4, <3>5, <4>1 DEF Firm, HasTopic, UnsubQueued
      <4> QED BY <2>1, <4>1, <4>3, <4>4
    <3> QED BY <2>1, <3>4, <3>9 DEF SubscribeQueued, SubscribeHandled
  <2> QED BY <2>1, <2>2, <2>3
\* The loop takes a confirmation, which was the only one.
<1>9. CASE LoopReceivesConfirmation(c)
  <2>0. ~LoopConfirms(c)
        BY <1>9 DEF LoopReceivesConfirmation, LoopConfirms
  <2>1. inbox[c] # <<>> /\ inbox'[c] = Tail(inbox[c]) /\ UNCHANGED cmdCh
        BY <1>9 DEF LoopReceivesConfirmation, TypeOK, ServerTypes
  <2>2. /\ Head(inbox[c]) = inbox[c][1] /\ 1 \in 1..Len(inbox[c]) /\ inbox[c][1] \in Incoming
        /\ \A i \in 1..Len(inbox'[c]) : i + 1 \in 1..Len(inbox[c]) /\ inbox'[c][i] = inbox[c][i + 1]
        BY <1>1, <2>1
  <2>3. inbox[c][1].kind = "confirm" /\ inbox[c][1].channel \in Channels
        BY <1>9, <2>2 DEF LoopReceivesConfirmation, Incoming
  <2>4. /\ Asked(c, inbox[c][1].channel) /\ Firm(c, inbox[c][1].channel)
        /\ \A j \in 1..Len(inbox[c]) : inbox[c][j].kind = "confirm" => j = 1
        BY <1>1, <2>2, <2>3 DEF SubscribeAnswered
  <2>5. \A i \in 1..Len(inbox'[c]) : inbox'[c][i].kind # "confirm"
        BY <2>2, <2>4
  <2>6. \A i \in 1..Len(cmdCh[c]) : cmdCh[c][i].op # "subscribe"
        BY <1>1, <2>2, <2>3 DEF SubscribeQueued
  <2>7. SubscribeHandled(c)'
    <3> SUFFICES ASSUME loop'[c] = "confirm"
                 PROVE  Asked(c, ChannelOf[loopSub[c]])' /\ Firm(c, ChannelOf[loopSub[c]])'
        BY DEF SubscribeHandled
    <3>1. loopSub'[c] = pending[c][inbox[c][1].channel] /\ loopSub'[c] # NoSub
          BY <1>1, <1>9, <2>2 DEF LoopReceivesConfirmation, LoopTo, TypeOK, LoopTypes
    <3>2. ChannelOf[loopSub'[c]] = inbox[c][1].channel
          BY <2>3, <3>1 DEF PendingRegistered
    <3>3. /\ \A x : Asked(c, x) => Asked(c, x)'
          /\ \A x : Asked(c, x) /\ Firm(c, x) => Firm(c, x)'
          BY <1>3, <1>4, <2>0
    <3>4. Asked(c, ChannelOf[loopSub'[c]]) /\ Firm(c, ChannelOf[loopSub'[c]])
          BY <2>4, <3>2
    <3> QED BY <3>3, <3>4 DEF Asked, Asks, Firm, HasTopic, UnsubQueued
  <2> QED BY <2>1, <2>5, <2>6, <2>7 DEF SubscribeQueued, SubscribeAnswered
\* The loop hands the confirmation to the caller, and nothing is left on the way.
<1>10. CASE LoopConfirms(c)
  <2>1. loop[c] = "confirm" /\ loop'[c] = "unpend" /\ UNCHANGED <<cmdCh, inbox>>
        BY <1>1, <1>10 DEF LoopConfirms, LoopTo
  <2>2. /\ \A i \in 1..Len(cmdCh[c]) : cmdCh[c][i].op # "subscribe"
        /\ \A i \in 1..Len(inbox[c]) : inbox[c][i].kind # "confirm"
        BY <1>1, <2>1 DEF SubscribeQueued, SubscribeAnswered
  <2> QED BY <2>1, <2>2 DEF SubscribeQueued, SubscribeAnswered, SubscribeHandled
<1>11. ASSUME ~LoopSends(c), ~LoopReceivesConfirmation(c), ~LoopConfirms(c), cmdCh'[c] = cmdCh[c]
       PROVE  SubscribeQueued(c)' /\ SubscribeAnswered(c)' /\ SubscribeHandled(c)'
  <2>1. loop'[c] = "confirm" => loop[c] = "confirm" /\ loopSub'[c] = loopSub[c]
        BY <1>11, ConfirmReached
  <2>2. CASE inbox'[c] = inbox[c]
    <3>1. \A i \in 1..Len(inbox'[c]) : i + 0 \in 1..Len(inbox[c]) /\ inbox'[c][i] = inbox[c][i + 0]
          BY <1>1, <2>2
    <3>2. 0 \in {0, 1} /\ Len(inbox'[c]) \in Nat
          BY <1>1, <2>2
    <3> QED BY <1>5, <1>11, <2>1, <3>1, <3>2
  <2>3. CASE LoopReceivesMessage(c)
    <3>1. inbox[c] # <<>> /\ inbox'[c] = Tail(inbox[c])
          BY <2>3 DEF LoopReceivesMessage, TypeOK, ServerTypes
    <3>2. /\ \A i \in 1..Len(inbox'[c]) : i + 1 \in 1..Len(inbox[c]) /\ inbox'[c][i] = inbox[c][i + 1]
          /\ Len(inbox'[c]) \in Nat /\ 1 \in {0, 1}
          BY <1>1, <3>1
    <3> QED BY <1>5, <1>11, <2>1, <3>2
  <2>4. ASSUME NEW type \in Types, NEW ch \in Channels,
               inbox'[c] = Append(inbox[c], [kind |-> "message", channel |-> ch, id |-> published + 1])
        PROVE  SubscribeQueued(c)' /\ SubscribeAnswered(c)' /\ SubscribeHandled(c)'
    <3> DEFINE m == [kind |-> "message", channel |-> ch, id |-> published + 1]
    <3>1. inbox'[c] = Append(inbox[c], m) /\ m.kind # "confirm"
          BY <2>4
    <3> HIDE DEF m
    <3>2. /\ \A i \in 1..Len(inbox'[c]) : inbox'[c][i].kind = "confirm" =>
               i + 0 \in 1..Len(inbox[c]) /\ inbox'[c][i] = inbox[c][i + 0]
          /\ Len(inbox'[c]) \in Nat /\ 0 \in {0, 1}
      <4>1. \A i \in 1..Len(inbox'[c]) : inbox'[c][i] = m
               \/ (i \in 1..Len(inbox[c]) /\ inbox'[c][i] = inbox[c][i])
            BY <1>1, <3>1
      <4>2. Len(inbox'[c]) \in Nat
            BY <1>1, <3>1
      <4> QED BY <3>1, <4>1, <4>2
    <3> QED BY <1>5, <1>11, <2>1, <3>2
  <2> QED BY <1>11, <2>2, <2>3, <2>4, InboxCases
<1> QED BY <1>1, <1>6, <1>7, <1>8, <1>9, <1>10, <1>11, QueueMoves

-----------------------------------------------------------------------------
(* What a caller in Subscribe concludes *)

\* The parts of the invariants that the following rest on.
LEMMA OrderlyParts ==
  ASSUME IInv, SafeInv, Orderly, Settled
  PROVE  /\ TypeOK /\ Placed /\ AllAlive /\ CloseFlag /\ NotYet /\ Homes /\ PendingRegistered
         /\ OneCall /\ Single /\ LeftPool
         /\ \A h \in Handles : Phases(h) /\ GivenUp(h) /\ Confirming(h) /\ Unregistered(h)
         /\ \A c \in Conns : LostOnly(c) /\ Served(c) /\ Wanted(c) /\ OnItsWay(c)
         /\ \A s \in Alive : BadNews(s)
         /\ \A h \in Handles : Concluded(h) /\ Kept(h) /\ Together(h) /\ Decided(h) /\ Awaited(h)
<1>1. ~closed
      BY DEF Orderly
<1> QED BY <1>1 DEF IInv, SafeInv, Registry, Leaving, Settled

\* Whoever waits for the end of an UNSUBSCRIBE is in a call.
LEMMA GoingInCall ==
  ASSUME NEW h \in Handles, Phases(h), NEW ch \in Going(h)
  PROVE  InCall(h) /\ pc[h] \in {"uPhase1", "uSend", "uClean", "uWait", "uRemove"}
BY DEF Phases, Going, InCall

\* While a caller is inside subscribeToChannel, what it may rely on stays.
LEMMA SureForMe ==
  ASSUME IInv, SafeInv, Orderly, Orderly', Settled, [Next]_vars, NEW h \in Handles,
         pc[h] \in CreatedPcs, idx'[h] = idx[h]
  PROVE  /\ UNCHANGED <<Cur(h), CurConn(h), CurChannel(h)>>
         /\ Cur(h) \in Alive /\ Cur(h) \in Subs /\ CurConn(h) \in Conns /\ CurChannel(h) \in Channels
         /\ wire[CurConn(h)] = "lost" => wire'[CurConn(h)] = "lost"
         /\ Sure(CurConn(h), CurChannel(h)) => Sure(CurConn(h), CurChannel(h))'
         /\ InCall(h)
<1>0. TypeOK /\ Placed /\ AllAlive /\ CloseFlag /\ NotYet /\ Homes /\ OneCall /\ \A c \in Conns : LostOnly(c)
      BY OrderlyParts
<1>1. /\ UNCHANGED <<Cur(h), CurConn(h), CurChannel(h)>>
      /\ Cur(h) \in Alive /\ Cur(h) \in Subs /\ CurConn(h) \in Conns /\ CurChannel(h) \in Channels
      BY <1>0, CurStays
<1>2. InCall(h)
      BY DEF InCall, CreatedPcs
<1>3. ASSUME NEW g \in Handles, UnsubQueues(g) PROVE FALSE
  <2>1. CallerStep(g) /\ pc[g] = "uSend"
        BY <1>3 DEF CallerStep, CallStep, UnsubQueues
  <2>2. g = h
        BY <1>0, <1>2, <2>1, OnlyMe
  <2> QED BY <2>1, <2>2 DEF CreatedPcs
<1>4. PICK c \in Conns : c = CurConn(h)
      BY <1>1
<1>5. PICK ch \in Channels : ch = CurChannel(h)
      BY <1>1
<1>6. Sure(c, ch) => Sure(c, ch)'
      BY <1>0, <1>3, SureStays
<1>7. CurConn(h)' = c /\ CurChannel(h)' = ch
      BY <1>1, <1>4, <1>5
<1>8. Sure(CurConn(h), CurChannel(h)) => Sure(CurConn(h), CurChannel(h))'
      BY <1>4, <1>5, <1>6, <1>7 DEF Sure, Firm, HasTopic, UnsubQueued
<1>9. wire[c] = "lost" => wire'[c] = "lost"
      BY <1>0, LostStays
<1> QED BY <1>1, <1>2, <1>4, <1>8, <1>9

\* Whoever is already registered on the channel of a caller that registers is served.
LEMMA OthersAreServed ==
  ASSUME IInv, SafeInv, Orderly, Settled, NEW h \in Handles, pc[h] = "register",
         NEW c \in Conns, NEW t \in subscriptions[c]
  PROVE  Sure(c, ChannelOf[t])
<1>0. OneCall /\ Served(c) /\ \A g \in Handles : Phases(g)
      BY OrderlyParts
<1>1. InCall(h)
      BY DEF InCall
<1>2. ASSUME NEW g \in Handles, pc[g] \in {"send", "confirm"} PROVE FALSE
      BY <1>0, <1>1, <1>2 DEF OneCall, InCall
<1>3. ASSUME NEW g \in Handles, NEW ch \in Going(g) PROVE FALSE
  <2>1. InCall(g) /\ pc[g] \in {"uPhase1", "uSend", "uClean", "uWait", "uRemove"}
        BY <1>0, <1>3, GoingInCall
  <2> QED BY <1>0, <1>1, <2>1 DEF OneCall
<1> QED BY <1>0, <1>2, <1>3 DEF Served

\* What a caller in Subscribe has concluded stays true, and each step concludes
\* rightly.
LEMMA ConcludedStep ==
  ASSUME IInv, SafeInv, Unannounced, Orderly, Orderly', Settled, [Next]_vars, NEW h \in Handles
  PROVE  Concluded(h)'
<1> USE DEF Go, Goto
<1>0. /\ TypeOK /\ Placed /\ AllAlive /\ CloseFlag /\ NotYet /\ Homes /\ PendingRegistered
      /\ OneCall /\ \A c \in Conns : LostOnly(c) /\ OnItsWay(c)
      /\ \A s \in Alive : BadNews(s)
      /\ Concluded(h) /\ CallTypes /\ CallAlive(h) /\ Confirming(h) /\ ctx[h] = "live" /\ ~closed'
      BY OrderlyParts DEF AllAlive, TypeOK, Orderly
<1>1. ASSUME pc[h] \in CreatedPcs, idx'[h] = idx[h]
      PROVE  /\ UNCHANGED <<Cur(h), CurConn(h), CurChannel(h)>>
             /\ Cur(h) \in Alive /\ Cur(h) \in Subs /\ CurConn(h) \in Conns /\ CurChannel(h) \in Channels
             /\ wire[CurConn(h)] = "lost" => wire'[CurConn(h)] = "lost"
             /\ Sure(CurConn(h), CurChannel(h)) => Sure(CurConn(h), CurChannel(h))'
             /\ InCall(h)
      BY <1>1, SureForMe
<1>2. ASSUME pc'[h] \notin CreatedPcs \/ pc'[h] = "register" PROVE Concluded(h)'
      BY <1>2 DEF Concluded, CreatedPcs
\* Somebody else's step.
<1>3. ASSUME ~CallerStep(h), pc[h] \in CreatedPcs PROVE Concluded(h)'
  <2>1. pc'[h] = pc[h] /\ idx'[h] = idx[h] /\ waitOn'[h] = waitOn[h]
        BY <1>0, <1>3, IdleStays
  <2>2. /\ UNCHANGED <<Cur(h), CurConn(h), CurChannel(h)>>
        /\ Cur(h) \in Alive /\ Cur(h) \in Subs /\ CurConn(h) \in Conns /\ CurChannel(h) \in Channels
        /\ wire[CurConn(h)] = "lost" => wire'[CurConn(h)] = "lost"
        /\ Sure(CurConn(h), CurChannel(h)) => Sure(CurConn(h), CurChannel(h))'
        /\ InCall(h)
        BY <1>1, <1>3, <2>1
  <2>3. UNCHANGED subscriptions
    <3>1. \A g \in Handles : ~CallerStep(g)
          BY <1>0, <1>3, <2>2, OnlyMe
    <3> QED BY <1>0, <3>1, LoopOthers, OrderlyBefore, CallerSteps, PublishOthers DEF vars
  <2>4. pc[h] \in {"waitActive", "checkPending"} => pubsub'[waitOn[h]] = pubsub[waitOn[h]]
        BY <1>0, HomeStays DEF CallAlive
  <2>5. ASSUME pc[h] \in {"send", "confirm"}, confirmCh'[Cur(h)] = "nil", confirmCh[Cur(h)] # "nil"
        PROVE  wire[CurConn(h)] = "lost" \/ (pc[h] = "confirm" /\ Sure(CurConn(h), CurChannel(h)))
    <3>1. PICK c \in Conns : LoopConfirms(c) /\ loopSub[c] = Cur(h)
          BY <1>0, <1>3, <2>5, NilFrom
    <3>2. loop[c] = "confirm" /\ c = CurConn(h)
          BY <1>0, <3>1 DEF LoopConfirms, Homes, CurConn
    <3>3. wire[c] = "lost" \/ (Asked(c, CurChannel(h)) /\ Firm(c, CurChannel(h)))
          BY <1>0, <3>1, <3>2 DEF OnItsWay, SubscribeHandled, CurChannel
    <3>4. Asked(c, CurChannel(h)) => pc[h] = "confirm"
          BY <1>0, <2>2 DEF Asked, Asks, OneCall, InCall
    <3> QED BY <3>2, <3>3, <3>4 DEF Sure
  <2>6. pc[h] = "confirm" /\ confirmCh'[Cur(h)] = "nil" => Sure(CurConn(h), CurChannel(h))'
        BY <1>0, <2>2, <2>5 DEF Concluded, Sure
  <2>7. pc[h] = "send" /\ confirmCh'[Cur(h)] = "nil" => wire'[CurConn(h)] = "lost"
        BY <1>0, <2>2, <2>5 DEF Concluded
  <2> QED BY <1>0, <2>1, <2>2, <2>3, <2>4, <2>6, <2>7 DEF Concluded
\* The caller's own.
<1>4. ASSUME Arrives(h), pc'[h] \in CreatedPcs, pc'[h] # "register" PROVE Concluded(h)'
  <2>0. CallerStep(h)
        BY <1>4, CallerSteps
  <2>1. idx'[h] = idx[h] /\ pc[h] \in CreatedPcs
    <3>1. ~Track(h)
          BY <1>0, <1>4 DEF Track, CallTypes
    <3> QED BY <1>0, <1>4, <2>0, <3>1, CreatedMoves
  <2>2. /\ UNCHANGED <<Cur(h), CurConn(h), CurChannel(h)>>
        /\ Cur(h) \in Alive /\ Cur(h) \in Subs /\ CurConn(h) \in Conns /\ CurChannel(h) \in Channels
        /\ wire[CurConn(h)] = "lost" => wire'[CurConn(h)] = "lost"
        /\ Sure(CurConn(h), CurChannel(h)) => Sure(CurConn(h), CurChannel(h))'
        BY <1>1, <2>1
  <2>3. CASE Register(h)
    <3>1. /\ pc[h] = "register"
          /\ pc'[h] = RegisterDecision(CurConn(h), CurChannel(h))
          /\ subscriptions'[CurConn(h)] = subscriptions[CurConn(h)] \cup {Cur(h)}
          BY <1>0, <2>2, <2>3, RegisterEffect
    <3>2. waitOn'[h] = pending[CurConn(h)][CurChannel(h)] /\ UNCHANGED <<pubsub, confirmCh>>
          BY <1>0, <2>3 DEF Register, CallTypes
    <3>3. CASE pc'[h] = "activate"
      <4>1. OnChannel(subscriptions[CurConn(h)], CurChannel(h)) # {}
            BY <3>1, <3>3 DEF RegisterDecision
      <4>2. PICK t \in subscriptions[CurConn(h)] : ChannelOf[t] = CurChannel(h)
            BY <4>1 DEF OnChannel
      <4>3. Sure(CurConn(h), CurChannel(h))
            BY <2>2, <3>1, <4>2, OthersAreServed
      <4> QED BY <2>2, <3>3, <4>3 DEF Concluded
    <3>4. CASE pc'[h] = "waitActive"
      <4>1. pending[CurConn(h)][CurChannel(h)] # NoSub
            BY <3>1, <3>4 DEF RegisterDecision
      <4>2. /\ pending[CurConn(h)][CurChannel(h)] \in subscriptions[CurConn(h)]
            /\ ChannelOf[pending[CurConn(h)][CurChannel(h)]] = CurChannel(h)
            BY <1>0, <2>2, <4>1 DEF PendingRegistered
      <4>3. pubsub[waitOn'[h]] = CurConn(h)
            BY <1>0, <2>2, <3>2, <4>2 DEF Homes
      <4>4. Sure(CurConn(h), CurChannel(h))
            BY <2>2, <3>1, <4>2, OthersAreServed
      <4> QED BY <2>2, <3>2, <3>4, <4>3, <4>4 DEF Concluded
    <3>5. CASE pc'[h] = "send"
      <4>1. OnChannel(subscriptions[CurConn(h)], CurChannel(h)) = {}
            BY <3>1, <3>5 DEF RegisterDecision
      <4>2. OnChannel(subscriptions'[CurConn(h)], CurChannel(h)) = {Cur(h)}
            BY <3>1, <4>1 DEF OnChannel, CurChannel
      <4>3. confirmCh'[Cur(h)] # "nil"
            BY <1>0, <3>1, <3>2 DEF Confirming
      <4> QED BY <2>2, <3>5, <4>2, <4>3 DEF Concluded
    <3> QED BY <3>1, <3>3, <3>4, <3>5 DEF RegisterDecision
  <2>4. CASE SendQueues(h)
    <3>1. pc[h] = "send" /\ pc'[h] = "confirm" /\ UNCHANGED <<confirmCh, subscriptions>>
          BY <1>0, <2>4 DEF SendQueues, CallTypes
    <3>2. confirmCh[Cur(h)] = "nil" => Sure(CurConn(h), CurChannel(h))
          BY <1>0, <3>1 DEF Concluded, Sure
    <3> QED BY <1>0, <2>2, <3>1, <3>2 DEF Concluded
  <2>5. CASE SendFails(h)
    <3>1. Stopped(CurConn(h)) /\ pc'[h] = "dropPending"
          BY <1>0, <2>5 DEF SendFails, CallTypes
    <3>2. wire[CurConn(h)] = "lost"
      <4>1. LostOnly(CurConn(h)) /\ Dying(CurConn(h))
            BY <1>0, <2>2, <3>1 DEF Stopped, Dying
      <4> QED BY <4>1 DEF LostOnly
    <3> QED BY <2>2, <3>1, <3>2 DEF Concluded
  <2>6. CASE Confirm(h) \/ CheckState(h)
    <3>1. CASE pc'[h] = "untrack"
      <4>1. confirmCh[Cur(h)] \notin {"empty", "nil"} \/ state[Cur(h)] = "failed"
            BY <1>0, <2>6, <3>1 DEF Confirm, CheckState, CallTypes, Advance
      <4>2. confirmCh[Cur(h)] = "err" \/ state[Cur(h)] = "failed"
            BY <1>0, <2>2, <4>1 DEF TypeOK, SubTypes
      <4>3. wire[CurConn(h)] = "lost"
            BY <1>0, <2>2, <4>2 DEF BadNews, CurConn
      <4> QED BY <2>2, <3>1, <4>3 DEF Concluded
    <3>2. CASE pc'[h] # "untrack"
      <4>1. pc[h] = "confirm" /\ confirmCh[Cur(h)] = "nil" /\ pc'[h] = "checkState"
            BY <1>0, <1>4, <2>6, <3>2 DEF Confirm, CheckState, CallTypes, Advance, CreatedPcs
      <4>2. Sure(CurConn(h), CurChannel(h))
            BY <1>0, <4>1 DEF Concluded
      <4> QED BY <2>2, <4>1, <4>2 DEF Concluded
    <3> QED BY <3>1, <3>2
  <2>7. CASE WaitActive(h) \/ CheckPending(h)
    <3>1. /\ pc[h] \in {"waitActive", "checkPending"} /\ UNCHANGED <<waitOn, pubsub>>
          /\ pubsub[waitOn[h]] = CurConn(h) /\ waitOn[h] \in Alive
          /\ Sure(CurConn(h), CurChannel(h))
          BY <1>0, <2>7 DEF WaitActive, CheckPending, Concluded, CallAlive
    <3>2. CASE pc'[h] = "untrack"
      <4>1. doneCh[waitOn[h]] \notin {"open", "nil"} \/ state[waitOn[h]] = "failed"
            BY <1>0, <2>7, <3>2 DEF WaitActive, CheckPending, CallTypes
      <4>2. doneCh[waitOn[h]] = "err" \/ state[waitOn[h]] = "failed"
            BY <1>0, <3>1, <4>1 DEF TypeOK, SubTypes, Alive
      <4>3. wire[CurConn(h)] = "lost"
            BY <1>0, <3>1, <4>2 DEF BadNews
      <4> QED BY <2>2, <3>2, <4>3 DEF Concluded
    <3>3. CASE pc'[h] # "untrack"
      <4>1. pc'[h] \in {"checkPending", "activate"}
            BY <1>0, <2>7, <3>3 DEF WaitActive, CheckPending, CallTypes
      <4> QED BY <2>2, <3>1, <4>1 DEF Concluded
    <3> QED BY <3>2, <3>3
  <2>8. CASE SendCleanup(h) \/ Untrack(h)
    <3>1. pc[h] \in {"dropPending", "untrack"} /\ pc'[h] \in {"untrack", "unregister"}
          BY <1>0, <2>8 DEF SendCleanup, Untrack, CallTypes
    <3> QED BY <1>0, <2>2, <3>1 DEF Concluded
  <2>9. CASE Subscribe(h) \/ Lookup(h) \/ Create(h) \/ List(h) \/ CreateFails(h) \/ MetadataGone(h)
               \/ Track(h) \/ Activate(h) \/ Unregister(h) \/ Abort(h)
    <3>1. pc'[h] \notin CreatedPcs \/ pc'[h] = "register"
          BY <1>0, <2>9 DEF CallTypes, Subscribe, Lookup, Create, List, CreateFails, MetadataGone,
             Track, Activate, Advance, Unregister, Abort, CreatedPcs
    <3> QED BY <1>2, <3>1
  <2> QED BY <1>4, <2>3, <2>4, <2>5, <2>6, <2>7, <2>8, <2>9 DEF Arrives
<1>5. ASSUME Leaves(h) PROVE Concluded(h)'
  <2>1. pc'[h] \notin CreatedPcs
        BY <1>0, <1>5 DEF Leaves, CallTypes, Unsubscribe, UnsubCheck, UnsubCount, UnsubUntrack,
           UnsubPhase1, UnsubQueues, UnsubSendFails, UnsubClean, UnsubWait, UnsubRemove, Ended,
           CreatedPcs
  <2> QED BY <1>2, <2>1
<1>6. CASE CallerStep(h)
  <2>1. Arrives(h) \/ Leaves(h)
    <3>1. ~Expire(h) /\ ~WaitExpires(h)
      <4>1. ctx'[h] = "live"
            BY DEF Orderly
      <4> QED BY <1>0, <4>1 DEF Expire, WaitExpires, CallTypes
    <3> QED BY <1>6, <3>1 DEF CallerStep, CallStep, Arrives, Leaves
  <2> QED BY <1>2, <1>4, <1>5, <2>1
<1>7. CASE ~CallerStep(h)
  <2>1. pc'[h] = pc[h]
        BY <1>0, <1>7, IdleStays
  <2> QED BY <1>2, <1>3, <1>7, <2>1
<1> QED BY <1>6, <1>7

-----------------------------------------------------------------------------
(* Whoever is registered, and where *)

\* An entry is removed by its own caller.
LEMMA RemovedBy ==
  ASSUME TypeOK, Placed, AllAlive, Homes, CloseFlag, Orderly, Orderly', [Next]_vars, NEW c \in Conns,
         NEW s \in subscriptions[c], s \notin subscriptions'[c]
  PROVE  \E g \in Handles :
           \/ Unregister(g) /\ pc[g] = "unregister" /\ s = Cur(g) /\ c = CurConn(g)
           \/ /\ UnsubClean(g) \/ UnsubRemove(g)
              /\ pc[g] \in {"uClean", "uRemove"} /\ c = UnsubConn(g) /\ s \in UnsubSubs(g)
<1>1. ASSUME NEW g \in Handles, CallerStep(g)
      PROVE  \/ Unregister(g) /\ pc[g] = "unregister" /\ s = Cur(g) /\ c = CurConn(g)
             \/ /\ UnsubClean(g) \/ UnsubRemove(g)
                /\ pc[g] \in {"uClean", "uRemove"} /\ c = UnsubConn(g) /\ s \in UnsubSubs(g)
  <2>1. CASE Register(g)
    <3>1. subscriptions'[c] =
            IF c = CurConn(g) THEN subscriptions[c] \cup {Cur(g)} ELSE subscriptions[c]
          BY <2>1, RegisterEffect
    <3> QED BY <3>1
  <2>2. CASE Unregister(g) /\ RemoveFromMeta(CurConn(g), {Cur(g)})
    <3>1. CurConn(g) \in Conns /\ pc[g] = "unregister"
          BY <2>2, UnregisterEffect
    <3> QED BY <2>2, <3>1 DEF RemoveFromMeta, TypeOK, MetaTypes
  <2>3. CASE (UnsubClean(g) \/ UnsubRemove(g)) /\ RemoveFromMeta(UnsubConn(g), UnsubSubs(g))
    <3>1. pc[g] \in {"uClean", "uRemove"}
          BY <2>3 DEF UnsubClean, UnsubRemove
    <3>2. UnsubConn(g) \in Conns
          BY <3>1, UnsubConnTypes
    <3> QED BY <2>3, <3>1, <3>2 DEF RemoveFromMeta, TypeOK, MetaTypes
  <2>4. CASE SendCleanup(g)
        BY <2>4 DEF SendCleanup
  <2> QED BY <1>1, <2>1, <2>2, <2>3, <2>4, CallerMeta
<1>2. CASE UNCHANGED subscriptions
      BY <1>2
<1> QED BY <1>1, <1>2, OrderlyBefore, CallerSteps, LoopOthers, PublishOthers DEF vars

\* Whoever has begun to unsubscribe, or has failed, does not come back.
LEMMA NoReturn ==
  ASSUME TypeOK, Placed, AllAlive, Orderly, Orderly', [Next]_vars, NEW h \in Handles,
         pc[h] \in UnsubPcs \cup {"gone", "failed"}
  PROVE  /\ pc'[h] \in UnsubPcs \cup {"gone", "failed"}
         /\ pc[h] # "uCheck" => pc'[h] # "uCheck"
<1>0. CallTypes
      BY DEF TypeOK
<1>1. CASE Arrives(h)
      BY <1>1 DEF UnsubPcs, Arrives, Subscribe, Lookup, Create, List, CreateFails, MetadataGone,
         Track, Register, SendQueues, SendFails, Confirm, WaitActive, CheckPending, CheckState,
         Activate, SendCleanup, Untrack, Unregister, Abort
<1>2. CASE Leaves(h)
      BY <1>0, <1>2 DEF UnsubPcs, Go, Goto, CallTypes, Leaves, Unsubscribe, UnsubCheck,
         UnsubCount, UnsubUntrack, UnsubPhase1, UnsubQueues, UnsubSendFails, UnsubClean,
         UnsubWait, UnsubRemove, Ended
<1>3. CASE ~CallerStep(h)
      BY <1>3, IdleStays
<1> QED BY <1>1, <1>2, <1>3, CallerIs

\* What a caller has subscribed to, or is about to, stays registered until it leaves.
LEMMA EntryStays ==
  ASSUME IInv, SafeInv, Orderly, Orderly', Settled, [Next]_vars, NEW h \in Handles, NEW s,
         pc[h] \notin UnsubPcs,
         \/ s \in Appended(h)
         \/ s = Cur(h) /\ pc[h] \in CreatedPcs \ {"unregister"},
         NEW c \in Conns, s \in subscriptions[c]
  PROVE  s \in subscriptions'[c]
<1>0. TypeOK /\ Placed /\ AllAlive /\ CloseFlag /\ Homes /\ OneCall
      BY OrderlyParts
<1> SUFFICES ASSUME s \notin subscriptions'[c] PROVE FALSE
    OBVIOUS
<1>1. PICK g \in Handles :
           \/ Unregister(g) /\ pc[g] = "unregister" /\ s = Cur(g)
           \/ /\ UnsubClean(g) \/ UnsubRemove(g)
              /\ pc[g] \in {"uClean", "uRemove"} /\ s \in UnsubSubs(g)
      BY <1>0, RemovedBy
<1>2. CASE Unregister(g) /\ pc[g] = "unregister" /\ s = Cur(g)
  <2>1. idx[g] <= Len(SubsOf[g]) /\ CallerStep(g)
        BY <1>0, <1>2 DEF Placed, PlacedAt, CreatedPcs, CallerStep, CallStep
  <2>2. s \notin Appended(h)
        BY <1>0, <1>2, <2>1, CurNotAppended
  <2>3. InCall(h) /\ pc[h] # "unregister"
        BY <2>2 DEF InCall, CreatedPcs
  <2> QED BY <1>0, <1>2, <2>1, <2>3, OnlyMe
<1>3. CASE pc[g] \in {"uClean", "uRemove"} /\ s \in UnsubSubs(g)
  <2>1. s \in Appended(g)
        BY <1>3 DEF UnsubSubs, OnChannel
  <2>2. CASE s \in Appended(h)
    <3>1. g = h
          BY <1>0, <2>1, <2>2, AppendedDisjoint
    <3> QED BY <1>3, <3>1 DEF UnsubPcs
  <2>3. CASE s = Cur(h) /\ pc[h] \in CreatedPcs
    <3>1. idx[h] <= Len(SubsOf[h])
          BY <1>0, <2>3 DEF Placed, PlacedAt
    <3> QED BY <1>0, <2>1, <2>3, <3>1, CurNotAppended
  <2> QED BY <2>2, <2>3
<1> QED BY <1>1, <1>2, <1>3

\* A caller keeps its entries until it leaves.
LEMMA KeptStep ==
  ASSUME IInv, SafeInv, Orderly, Orderly', Settled, [Next]_vars, NEW h \in Handles
  PROVE  Kept(h)'
<1>0. /\ TypeOK /\ Placed /\ AllAlive /\ CloseFlag /\ NotYet /\ Homes /\ Kept(h)
      /\ CallAlive(h) /\ CallTypes
      BY OrderlyParts DEF AllAlive, TypeOK
<1>1. ASSUME pc'[h] \notin UnsubPcs \cup {"gone", "failed"}, NEW s \in Appended(h)'
      PROVE  s \in subscriptions'[pubsub'[s]]
  <2>1. pc[h] \notin UnsubPcs \cup {"gone", "failed"}
        BY <1>0, <1>1, NoReturn
  <2>2. s \in Appended(h) \/ (pc[h] \in {"checkState", "activate"} /\ s = Cur(h))
        BY <1>0, <1>1, AppendedFrom
  <2>3. s \in subscriptions[pubsub[s]]
        BY <1>0, <2>1, <2>2 DEF Kept, CurConn
  <2>4. s \in Alive
        BY <1>0, <2>2 DEF CallAlive, CreatedPcs
  <2>5. pubsub'[s] = pubsub[s] /\ pubsub[s] \in Conns
        BY <1>0, <2>4, HomeStays DEF Homes
  <2>6. s \in subscriptions'[pubsub[s]]
        BY <2>1, <2>2, <2>3, <2>5, EntryStays DEF CreatedPcs
  <2> QED BY <2>5, <2>6
<1>2. ASSUME pc'[h] \in {"send", "confirm", "waitActive", "checkPending", "checkState", "activate"}
      PROVE  Cur(h)' \in subscriptions'[CurConn(h)']
  <2>1. CASE Register(h)
    <3>1. /\ UNCHANGED <<idx, pubsub>> /\ CurConn(h) \in Conns
          /\ subscriptions'[CurConn(h)] = subscriptions[CurConn(h)] \cup {Cur(h)}
          BY <1>0, <2>1, RegisterEffect
    <3>2. Cur(h)' = Cur(h) /\ CurConn(h)' = CurConn(h)
          BY <3>1 DEF Cur, CurConn
    <3> QED BY <3>1, <3>2
  <2>2. CASE ~Register(h)
    <3>1. /\ idx'[h] = idx[h]
          /\ pc[h] \in {"send", "confirm", "waitActive", "checkPending", "checkState", "activate"}
      <4>1. CASE Arrives(h)
            BY <1>0, <1>2, <2>2, <4>1 DEF Go, Goto, CallTypes, Arrives, Subscribe, Lookup, Create,
               List, CreateFails, MetadataGone, Track, SendQueues, SendFails, Confirm, WaitActive,
               CheckPending, CheckState, Activate, Advance, SendCleanup, Untrack, Unregister,
               Abort
      <4>2. CASE Leaves(h)
            BY <1>0, <1>2, <4>2 DEF Go, Goto, CallTypes, Leaves, Unsubscribe, UnsubCheck,
               UnsubCount, UnsubUntrack, UnsubPhase1, UnsubQueues, UnsubSendFails, UnsubClean,
               UnsubWait, UnsubRemove, Ended
      <4>3. CASE ~CallerStep(h)
            BY <1>0, <1>2, <4>3, IdleStays
      <4> QED BY <1>0, <4>1, <4>2, <4>3, CallerIs
    <3>2. UNCHANGED <<Cur(h), CurConn(h)>> /\ CurConn(h) \in Conns
          BY <1>0, <3>1, CurStays DEF CreatedPcs
    <3>3. Cur(h) \in subscriptions[CurConn(h)]
          BY <1>0, <3>1 DEF Kept
    <3>4. Cur(h) \in subscriptions'[CurConn(h)]
      <4>1. pc[h] \notin UnsubPcs /\ pc[h] \in CreatedPcs \ {"unregister"}
            BY <3>1 DEF UnsubPcs, CreatedPcs
      <4>2. PICK s : s = Cur(h)
            OBVIOUS
      <4>3. PICK c \in Conns : c = CurConn(h)
            BY <3>2
      <4> QED BY <3>3, <4>1, <4>2, <4>3, EntryStays
    <3> QED BY <3>2, <3>4
  <2> QED BY <2>1, <2>2
<1> QED BY <1>1, <1>2 DEF Kept

\* A caller comes to a connection by looking one up or by opening one.
LEMMA TrackFrom ==
  ASSUME TypeOK, Placed, AllAlive, Orderly, Orderly', [Next]_vars, NEW h \in Handles,
         pc'[h] \in {"list", "track"} \cup CreatedPcs, pc[h] \notin {"list", "track"} \cup CreatedPcs
  PROVE  /\ idx'[h] = idx[h] /\ (Lookup(h) \/ Create(h))
         /\ pc'[h] = IF Create(h) THEN "list" ELSE "track"
<1>0. CallTypes
      BY DEF TypeOK
<1>1. CallerStep(h)
      BY IdleStays
<1>2. CASE Arrives(h)
      BY <1>0, <1>2 DEF Go, Goto, CallTypes, CreatedPcs, Arrives, Subscribe, Lookup, Create, List,
         CreateFails, MetadataGone, Track, Register, SendQueues, SendFails, Confirm, WaitActive,
         CheckPending, CheckState, Activate, SendCleanup, Untrack, Unregister, Abort
<1>3. CASE Leaves(h)
      BY <1>0, <1>3 DEF Go, Goto, CallTypes, CreatedPcs, Leaves, Unsubscribe, UnsubCheck,
         UnsubCount, UnsubUntrack, UnsubPhase1, UnsubQueues, UnsubSendFails, UnsubClean,
         UnsubWait, UnsubRemove, Ended
<1> QED BY <1>1, <1>2, <1>3, CallerIs

\* A handle's subscriptions are on one connection, until it is lost.
LEMMA TogetherStep ==
  ASSUME IInv, SafeInv, Orderly, Orderly', Settled, [Next]_vars, NEW h \in Handles
  PROVE  Together(h)'
<1>0. /\ TypeOK /\ Placed /\ AllAlive /\ CloseFlag /\ NotYet /\ Homes /\ Together(h) /\ LeftPool
      /\ OneCall /\ Single /\ (\A c \in Conns : LostOnly(c)) /\ CallAlive(h) /\ CallTypes
      /\ idx[h] \in Nat \ {0} /\ Len(SubsOf[h]) \in Nat
      BY OrderlyParts, SubMuxAssumption DEF AllAlive, TypeOK, CallTypes
<1> SUFFICES ASSUME NEW i \in 1..Len(SubsOf[h]), NEW j \in 1..Len(SubsOf[h]), i < j,
                    j < idx'[h] \/ (j = idx'[h] /\ pc'[h] \in {"list", "track"} \cup CreatedPcs),
                    wire'[pubsub'[SubsOf[h][i]]] = "up"
             PROVE  pubsub'[SubsOf[h][j]] = pubsub'[SubsOf[h][i]]
    BY DEF Together
<1>1. \/ idx'[h] = idx[h]
      \/ /\ idx'[h] = idx[h] + 1 /\ pc[h] \in {"checkState", "activate"}
         /\ pc'[h] \notin {"list", "track"} \cup CreatedPcs
  <2>1. idx'[h] = idx[h] \/ (idx'[h] = idx[h] + 1 /\ pc[h] \in {"checkState", "activate"})
        BY <1>0, CallerEarly, IdleStays
  <2>2. ASSUME idx'[h] = idx[h] + 1, pc[h] \in {"checkState", "activate"}
        PROVE  pc'[h] \notin {"list", "track"} \cup CreatedPcs
    <3>1. CallerStep(h)
          BY <1>0, <2>2, IdleStays
    <3>2. ~(pc'[h] \in CreatedPcs)
          BY <1>0, <2>2, <3>1, CreatedMoves
    <3>3. pc'[h] \notin {"list", "track"}
      <4>1. ~(Lookup(h) \/ Create(h) \/ List(h) \/ Leaves(h))
            BY <2>2 DEF Lookup, Create, List, Leaves, Unsubscribe, UnsubCheck, UnsubCount,
               UnsubUntrack, UnsubPhase1, UnsubQueues, UnsubSendFails, UnsubClean, UnsubWait,
               UnsubRemove
      <4>2. Arrives(h)
            BY <1>0, <3>1, <4>1, CallerIs
      <4>3. CheckState(h) \/ Activate(h)
            BY <2>2, <4>1, <4>2 DEF Arrives, Subscribe, List, CreateFails, MetadataGone, Track,
               Register, SendQueues, SendFails, Confirm, WaitActive, CheckPending, SendCleanup,
               Untrack, Unregister, Abort
      <4> QED BY <1>0, <4>3 DEF CheckState, Activate, Advance, Go, CallTypes
    <3> QED BY <3>2, <3>3
  <2> QED BY <2>1, <2>2
<1>2. i \in 1..(idx[h] - 1) /\ j <= idx[h]
      BY <1>0, <1>1
<1>3. SubsOf[h][i] \in Alive
      BY <1>0, <1>2 DEF CallAlive, Appended
<1>4. PICK c \in Conns : c = pubsub[SubsOf[h][i]] /\ c = pubsub'[SubsOf[h][i]] /\ connState[c] # "none"
      BY <1>0, <1>3, HomeStays DEF Homes
<1>5. wire[c] # "lost" /\ wire[c] = "up"
  <2>1. wire[c] \in {"up", "lost"} /\ wire[c] # "lost"
        BY <1>0, <1>4, LostStays DEF TypeOK, ServerTypes
  <2> QED BY <2>1
<1>6. CASE j < idx[h] \/ (j = idx[h] /\ pc[h] \in {"list", "track"} \cup CreatedPcs)
  <2>1. pubsub[SubsOf[h][j]] = c
        BY <1>0, <1>4, <1>5, <1>6 DEF Together
  <2>2. CASE SubsOf[h][j] \in Alive
        BY <1>0, <1>4, <2>1, <2>2, HomeStays
  <2>3. CASE SubsOf[h][j] \notin Alive
    <3>1. ~(j < idx[h])
      <4>1. j < idx[h] => j \in 1..(idx[h] - 1)
            BY <1>0
      <4> QED BY <1>0, <2>3, <4>1 DEF CallAlive, Appended
    <3>2. pc[h] \in {"list", "track"}
          BY <1>0, <1>6, <2>3, <3>1 DEF CallAlive, Cur
    <3>3. UNCHANGED pubsub
      <4>1. ASSUME NEW g \in Handles, CallerStep(g) PROVE UNCHANGED pubsub
        <5>1. g = h
              BY <1>0, <3>2, <4>1, OnlyMe DEF InCall
        <5>2. ~Lookup(g) /\ ~Create(g)
              BY <3>2, <5>1 DEF Lookup, Create
        <5>3. CASE Arrives(g)
              BY <5>2, <5>3 DEF Goto, Arrives, Subscribe, List, CreateFails, MetadataGone, Track,
                 Register, SendQueues, SendFails, Confirm, WaitActive, CheckPending, CheckState,
                 Activate, SetState, SendCleanup, Untrack, Unregister, Abort
        <5>4. CASE Leaves(g)
              BY <1>0, <5>4, LeavesMeta
        <5> QED BY <1>0, <4>1, <5>3, <5>4, CallerIs
      <4> QED BY <1>0, <4>1, OthersMove
    <3> QED BY <1>4, <2>1, <3>3
  <2> QED BY <2>2, <2>3
<1>7. CASE j = idx[h] /\ pc[h] \notin {"list", "track"} \cup CreatedPcs
  <2>1. pc[h] \notin {"checkState", "activate"}
        BY <1>7 DEF CreatedPcs
  <2>2. idx'[h] = idx[h] /\ pc'[h] \in {"list", "track"} \cup CreatedPcs
        BY <1>0, <1>1, <1>7, <2>1
  <2>3. (Lookup(h) \/ Create(h)) /\ (~Create(h) => pc'[h] = "track")
        BY <1>0, <1>7, <2>2, TrackFrom
  <2>4. c \in Usable
        BY <1>0, <1>4, <1>5, UpIsUsable
  <2>5. ~Create(h)
        BY <1>0, <2>4 DEF Create, Single
  <2>6. PICK d \in LeastLoaded : pubsub' = [pubsub EXCEPT ![Cur(h)] = d]
        BY <1>0, <2>3, <2>5 DEF Lookup, Go, CallTypes
  <2>7. d = c
        BY <1>0, <2>4, <2>6 DEF LeastLoaded, Single, Usable
  <2>8. Cur(h) = SubsOf[h][j] /\ Cur(h) \in Subs
        BY <1>7, SubMuxAssumption DEF Cur
  <2>9. pubsub'[Cur(h)] = d
        BY <1>0, <2>6, <2>8 DEF TypeOK, SubTypes
  <2> QED BY <1>4, <2>7, <2>8, <2>9
<1> QED BY <1>0, <1>2, <1>6, <1>7

-----------------------------------------------------------------------------
(* What Unsubscribe has counted *)

\* FirstSub is the first subscription of the handle on the channel.
LEMMA FirstSubLeast ==
  ASSUME TypeOK, Placed, NEW h \in Handles, NEW ch \in AppendedChannels(h)
  PROVE  \E i \in 1..(idx[h] - 1) :
           /\ FirstSub(h, ch) = SubsOf[h][i]
           /\ \A j \in 1..(idx[h] - 1) : ChannelOf[SubsOf[h][j]] = ch => i <= j
<1> DEFINE I == {i \in 1..(idx[h] - 1) : ChannelOf[SubsOf[h][i]] = ch}
           First(i) == /\ ChannelOf[SubsOf[h][i]] = ch
                       /\ \A j \in 1..(i - 1) : ChannelOf[SubsOf[h][j]] # ch
<1>1. I \subseteq Nat /\ I # {}
  <2>1. PICK s \in Appended(h) : ChannelOf[s] = ch
        BY DEF AppendedChannels
  <2>2. PICK i \in 1..(idx[h] - 1) : SubsOf[h][i] = s
        BY DEF Appended
  <2>3. i \in I
        BY <2>1, <2>2
  <2>4. \A j \in I : j \in Nat
        BY DEF TypeOK, CallTypes
  <2> QED BY <2>3, <2>4
<1>2. PICK m \in I : \A j \in I : ~ (<<j, m>> \in OpToRel(<, Nat))
  <2> HIDE DEF I
  <2> QED BY <1>1, WFMin, NatLessThanWellFounded
<1>3. \A j \in I : ~ (j < m)
      BY <1>1, <1>2 DEF OpToRel
<1>4. First(m) /\ m \in 1..(idx[h] - 1)
      BY <1>3 DEF TypeOK, CallTypes
<1>5. PICK i \in 1..(idx[h] - 1) : First(i) /\ FirstSub(h, ch) = SubsOf[h][i]
  <2>1. FirstSub(h, ch) = SubsOf[h][CHOOSE i \in 1..(idx[h] - 1) : First(i)]
        BY DEF FirstSub
  <2> HIDE DEF First
  <2> QED BY <1>4, <2>1
<1>6. ASSUME NEW j \in 1..(idx[h] - 1), ChannelOf[SubsOf[h][j]] = ch PROVE i <= j
      BY <1>5, <1>6 DEF TypeOK, CallTypes
<1> QED BY <1>5, <1>6

\* Nothing about a handle's channels changes unless it gets one more.
LEMMA AppendedStays ==
  ASSUME TypeOK, Placed, AllAlive, NotYet, Homes, [Next]_vars, NEW h \in Handles, idx'[h] = idx[h]
  PROVE  /\ Appended(h)' = Appended(h) /\ AppendedChannels(h)' = AppendedChannels(h)
         /\ \A ch \in AppendedChannels(h) :
              /\ FirstSub(h, ch)' = FirstSub(h, ch) /\ FirstSub(h, ch) \in Appended(h)
              /\ ChannelOf[FirstSub(h, ch)] = ch
              /\ pubsub'[FirstSub(h, ch)] = pubsub[FirstSub(h, ch)]
              /\ pubsub[FirstSub(h, ch)] \in Conns /\ connState[pubsub[FirstSub(h, ch)]] # "none"
<1>1. Appended(h)' = Appended(h) /\ AppendedChannels(h)' = AppendedChannels(h)
      BY DEF Appended, AppendedChannels
<1>2. ASSUME NEW ch \in AppendedChannels(h)
      PROVE  /\ FirstSub(h, ch)' = FirstSub(h, ch) /\ FirstSub(h, ch) \in Appended(h)
             /\ ChannelOf[FirstSub(h, ch)] = ch
             /\ pubsub'[FirstSub(h, ch)] = pubsub[FirstSub(h, ch)]
             /\ pubsub[FirstSub(h, ch)] \in Conns /\ connState[pubsub[FirstSub(h, ch)]] # "none"
  <2>1. FirstSub(h, ch)' = FirstSub(h, ch)
        BY DEF FirstSub
  <2>2. FirstSub(h, ch) \in Appended(h) /\ ChannelOf[FirstSub(h, ch)] = ch
        BY FirstSubExists
  <2>3. FirstSub(h, ch) \in Alive
        BY <2>2 DEF AllAlive, CallAlive
  <2> QED BY <2>1, <2>2, <2>3, HomeStays DEF Homes
<1> QED BY <1>1, <1>2

\* Unsubscribe counts after its check and adds no channel.
LEMMA CountingFrom ==
  ASSUME TypeOK, Placed, AllAlive, Orderly, Orderly', [Next]_vars, NEW h \in Handles,
         pc'[h] \in Counting
  PROVE  idx'[h] = idx[h] /\ (UnsubCheck(h) \/ pc[h] \in Counting)
<1>0. CallTypes
      BY DEF TypeOK
<1>1. CASE Arrives(h)
      BY <1>0, <1>1 DEF Counting, UnsubPcs, Go, Goto, CallTypes, Arrives, Subscribe, Lookup,
         Create, List, CreateFails, MetadataGone, Track, Register, RegisterDecision, SendQueues,
         SendFails, Confirm, WaitActive, CheckPending, CheckState, Activate, Advance, SendCleanup,
         Untrack, Unregister, Abort
<1>2. CASE Leaves(h)
      BY <1>0, <1>2 DEF Counting, UnsubPcs, Go, Goto, CallTypes, Leaves, Unsubscribe, UnsubCheck,
         UnsubCount, UnsubUntrack, UnsubPhase1, UnsubQueues, UnsubSendFails, UnsubClean,
         UnsubWait, UnsubRemove, Ended
<1>3. CASE ~CallerStep(h)
      BY <1>3, IdleStays
<1> QED BY <1>1, <1>2, <1>3, CallerIs

\* Counting a channel counts the entries of the connection that Unsubscribe works on.
LEMMA CountIsRight ==
  ASSUME IInv, SafeInv, Orderly, Settled, NEW h \in Handles, NEW ch \in AppendedChannels(h),
         wire[pubsub[FirstSub(h, ch)]] = "up"
  PROVE  LastOnChannel(h, ch)
           <=> OnChannel(subscriptions[pubsub[FirstSub(h, ch)]], ch) \subseteq Appended(h)
<1>0. /\ TypeOK /\ Placed /\ AllAlive /\ Homes /\ LeftPool /\ Together(h) /\ idx[h] \in Nat \ {0}
      /\ (\A c \in Conns : LostOnly(c)) /\ Len(SubsOf[h]) \in Nat /\ idx[h] <= Len(SubsOf[h]) + 1
      BY OrderlyParts, SubMuxAssumption DEF TypeOK, CallTypes, Placed, PlacedAt
<1>1. PICK i \in 1..(idx[h] - 1) :
        /\ FirstSub(h, ch) = SubsOf[h][i]
        /\ \A j \in 1..(idx[h] - 1) : ChannelOf[SubsOf[h][j]] = ch => i <= j
      BY <1>0, FirstSubLeast
<1>2. FirstSub(h, ch) \in Appended(h) /\ ChannelOf[FirstSub(h, ch)] = ch
      BY <1>0, FirstSubExists
<1>3. pubsub[FirstSub(h, ch)] \in Conns /\ connState[pubsub[FirstSub(h, ch)]] # "none"
      BY <1>0, <1>2 DEF AllAlive, CallAlive, Homes
<1>4. pubsub[FirstSub(h, ch)] \in inPool
      BY <1>0, <1>3, UpIsUsable DEF Usable
<1>5. ASSUME NEW s \in OnChannel(Appended(h), ch) PROVE pubsub[s] = pubsub[FirstSub(h, ch)]
  <2>1. PICK j \in 1..(idx[h] - 1) : s = SubsOf[h][j]
        BY DEF OnChannel, Appended
  <2>2. i <= j
        BY <1>1, <2>1 DEF OnChannel
  <2>3. CASE i = j
        BY <1>1, <2>1, <2>3
  <2>4. CASE i # j
    <3>1. i < j /\ j < idx[h] /\ i \in 1..Len(SubsOf[h]) /\ j \in 1..Len(SubsOf[h])
          BY <1>0, <2>2, <2>4
    <3> QED BY <1>0, <1>1, <2>1, <3>1 DEF Together
  <2> QED BY <2>3, <2>4
<1> QED BY <1>2, <1>4, <1>5 DEF LastOnChannel, OnChannel

\* While a handle unsubscribes, only its own entries go, and none comes.
LEMMA OnlyMineGo ==
  ASSUME IInv, SafeInv, Orderly, Orderly', Settled, [Next]_vars, NEW h \in Handles,
         pc[h] \in UnsubPcs, NEW c \in Conns
  PROVE  /\ subscriptions'[c] \subseteq subscriptions[c]
         /\ subscriptions[c] \ Appended(h) \subseteq subscriptions'[c]
<1>0. TypeOK /\ Placed /\ AllAlive /\ CloseFlag /\ Homes /\ OneCall
      BY OrderlyParts
<1>1. InCall(h)
      BY DEF InCall, UnsubPcs
<1>2. ASSUME NEW s \in subscriptions'[c], s \notin subscriptions[c] PROVE FALSE
  <2>1. PICK g \in Handles : Register(g)
        BY <1>0, <1>2, RegisteredFrom
  <2>2. CallerStep(g) /\ pc[g] = "register"
        BY <2>1 DEF Register, CallerStep, CallStep
  <2> QED BY <1>0, <1>1, <2>2, OnlyMe DEF UnsubPcs
<1>3. ASSUME NEW s \in subscriptions[c], s \notin Appended(h), s \notin subscriptions'[c] PROVE FALSE
  <2>1. PICK g \in Handles :
           \/ Unregister(g) /\ pc[g] = "unregister" /\ s = Cur(g)
           \/ /\ UnsubClean(g) \/ UnsubRemove(g)
              /\ pc[g] \in {"uClean", "uRemove"} /\ s \in UnsubSubs(g)
        BY <1>0, <1>3, RemovedBy
  <2>2. CallerStep(g)
        BY <2>1 DEF CallerStep, CallStep
  <2>3. g = h
        BY <1>0, <1>1, <2>2, OnlyMe
  <2> QED BY <1>3, <2>1, <2>3 DEF UnsubPcs, UnsubSubs, OnChannel
<1> QED BY <1>2, <1>3

\* What Unsubscribe has decided stays right.
LEMMA DecidedStep ==
  ASSUME IInv, SafeInv, Orderly, Orderly', Settled, [Next]_vars, NEW h \in Handles
  PROVE  Decided(h)'
<1> USE DEF Go, Goto
<1>0. /\ TypeOK /\ Placed /\ AllAlive /\ CloseFlag /\ NotYet /\ Homes /\ Decided(h) /\ LeftPool
      /\ (\A c \in Conns : LostOnly(c)) /\ CallTypes /\ PlacedAt(h) /\ ~closed
      BY OrderlyParts DEF TypeOK, Placed, Orderly
<1>1. toUnsub'[h] = toUnsub[h] \/ UnsubCount(h)
      BY <1>0, ToUnsubMoves
<1>2. ASSUME pc'[h] \notin Counting \cup {"gone", "failed"} PROVE toUnsub'[h] = {}
  <2>1. pc[h] \notin Counting \cup {"gone", "failed"}
        BY <1>0, <1>2, NoReturn DEF Counting
  <2>2. ~UnsubCount(h)
        BY <2>1 DEF UnsubCount, Counting, UnsubPcs
  <2> QED BY <1>0, <1>1, <2>1, <2>2 DEF Decided
<1>3. ASSUME UnsubCount(h)
      PROVE  /\ pc[h] = "uCount" /\ UNCHANGED <<pubsub, subscriptions, idx, wire>>
             /\ \/ chTodo[h] = {} /\ pc'[h] = "uUntrack" /\ toUnsub'[h] = toUnsub[h]
                \/ \E ch \in chTodo[h] :
                     /\ pc'[h] = "uCount" /\ chTodo'[h] = chTodo[h] \ {ch}
                     /\ toUnsub'[h] = IF LastOnChannel(h, ch) THEN toUnsub[h] \cup {ch} ELSE toUnsub[h]
      BY <1>0, <1>3 DEF UnsubCount, CallTypes
<1>4. ASSUME pc'[h] = "uCount" PROVE toUnsub'[h] \cap chTodo'[h] = {}
  <2>1. pc[h] = "uCount" => toUnsub[h] \cap chTodo[h] = {}
        BY <1>0 DEF Decided
  <2>2. CASE UnsubCount(h)
        BY <1>3, <1>4, <2>1, <2>2
  <2>3. CASE UnsubCheck(h)
    <3>1. pc[h] = "uCheck" /\ ~UnsubCount(h)
          BY <2>3 DEF UnsubCheck, UnsubCount
    <3>2. toUnsub[h] = {}
          BY <1>0, <3>1 DEF Decided, Counting
    <3> QED BY <1>1, <3>1, <3>2
  <2>4. CASE ~UnsubCount(h) /\ ~UnsubCheck(h)
    <3>1. pc[h] = "uCount" /\ chTodo'[h] = chTodo[h]
      <4>1. CASE Leaves(h)
            BY <1>0, <1>4, <2>4, <4>1 DEF CallTypes, Leaves, Unsubscribe, UnsubUntrack,
               UnsubPhase1, UnsubQueues, UnsubSendFails, UnsubClean, UnsubWait, UnsubRemove, Ended
      <4>2. CASE Arrives(h)
        <5>1. pc[h] \in Counting
              BY <1>0, <1>4, <2>4, CountingFrom DEF Counting, UnsubPcs
        <5> QED BY <4>2, <5>1 DEF Counting, UnsubPcs, Arrives, Subscribe, Lookup, Create, List,
               CreateFails, MetadataGone, Track, Register, SendQueues, SendFails, Confirm,
               WaitActive, CheckPending, CheckState, Activate, SendCleanup, Untrack, Unregister,
               Abort
      <4>3. CASE ~CallerStep(h)
            BY <1>0, <1>4, <4>3, IdleStays
      <4> QED BY <1>0, <4>1, <4>2, <4>3, CallerIs
    <3> QED BY <1>1, <2>1, <2>4, <3>1
  <2> QED BY <2>2, <2>3, <2>4
\* How it comes to a channel, with an UNSUBSCRIBE or without.
<1>5. ASSUME pc'[h] \in {"uSend", "uClean"}
      PROVE  \/ UnsubPhase1(h) /\ (pc'[h] = "uSend" <=> curCh'[h] \in toUnsub[h])
             \/ UnsubSendFails(h) /\ pc[h] = "uSend" /\ pc'[h] = "uClean" /\ Stopped(UnsubConn(h))
             \/ ~CallerStep(h)
  <2>1. CASE Leaves(h)
        BY <1>0, <1>5, <2>1 DEF CallTypes, Leaves, Unsubscribe, UnsubCheck, UnsubCount,
           UnsubUntrack, UnsubPhase1, UnsubQueues, UnsubSendFails, UnsubClean, UnsubWait,
           UnsubRemove, Ended
  <2>2. CASE Arrives(h)
    <3>1. pc[h] \in Counting \/ UnsubCheck(h)
          BY <1>0, <1>5, CountingFrom DEF Counting, UnsubPcs
    <3> QED BY <2>2, <3>1 DEF Counting, UnsubPcs, UnsubCheck, Arrives, Subscribe, Lookup, Create,
           List, CreateFails, MetadataGone, Track, Register, SendQueues, SendFails, Confirm,
           WaitActive, CheckPending, CheckState, Activate, SendCleanup, Untrack, Unregister, Abort
  <2> QED BY <1>0, <2>1, <2>2, CallerIs
<1>6. ASSUME pc'[h] = "uSend" PROVE curCh'[h] \in toUnsub'[h]
  <2>1. ~UnsubCount(h)
        BY <1>3, <1>6
  <2>2. CASE UnsubPhase1(h)
    <3>1. pc[h] = "uPhase1"
          BY <2>2 DEF UnsubPhase1
    <3>2. ~UnsubSendFails(h) /\ CallerStep(h)
          BY <2>2, <3>1 DEF UnsubSendFails, CallerStep, CallStep
    <3> QED BY <1>1, <1>5, <1>6, <2>1, <3>2
  <2>3. CASE ~CallerStep(h)
    <3>1. pc'[h] = pc[h] /\ curCh'[h] = curCh[h]
          BY <1>0, <2>3, IdleStays
    <3> QED BY <1>0, <1>1, <1>6, <2>1, <3>1 DEF Decided
  <2> QED BY <1>5, <1>6, <2>2, <2>3
<1>7. ASSUME pc'[h] = "uClean" PROVE curCh'[h] \notin toUnsub'[h] \/ wire'[UnsubConn(h)'] = "lost"
  <2>1. ~UnsubCount(h)
        BY <1>3, <1>7
  <2>2. CASE UnsubPhase1(h)
    <3>1. pc[h] = "uPhase1"
          BY <2>2 DEF UnsubPhase1
    <3>2. ~UnsubSendFails(h) /\ CallerStep(h)
          BY <2>2, <3>1 DEF UnsubSendFails, CallerStep, CallStep
    <3> QED BY <1>1, <1>5, <1>7, <2>1, <3>2
  <2>3. ASSUME pc[h] \in {"uSend", "uClean"}, idx'[h] = idx[h], curCh'[h] = curCh[h]
        PROVE  UnsubConn(h)' = UnsubConn(h) /\ UnsubConn(h) \in Conns
    <3>1. curCh[h] \in AppendedChannels(h)
          BY <1>0, <2>3 DEF PlacedAt
    <3>2. FirstSub(h, curCh[h])' = FirstSub(h, curCh[h])
          BY <2>3 DEF FirstSub
    <3>3. /\ pubsub'[FirstSub(h, curCh[h])] = pubsub[FirstSub(h, curCh[h])]
          /\ pubsub[FirstSub(h, curCh[h])] \in Conns
          BY <1>0, <2>3, <3>1, AppendedStays
    <3> QED BY <3>2, <3>3 DEF UnsubConn
  <2>4. CASE UnsubSendFails(h) /\ pc[h] = "uSend" /\ Stopped(UnsubConn(h))
    <3>1. UNCHANGED <<idx, curCh>>
          BY <2>4 DEF UnsubSendFails
    <3>2. UnsubConn(h)' = UnsubConn(h) /\ UnsubConn(h) \in Conns
          BY <2>3, <2>4, <3>1
    <3>3. wire[UnsubConn(h)] = "lost"
      <4>1. LostOnly(UnsubConn(h)) /\ Dying(UnsubConn(h))
            BY <1>0, <2>4, <3>2 DEF Stopped, Dying
      <4> QED BY <4>1 DEF LostOnly
    <3> QED BY <1>0, <3>2, <3>3, LostStays
  <2>5. CASE ~CallerStep(h)
    <3>1. pc'[h] = pc[h] /\ idx'[h] = idx[h] /\ curCh'[h] = curCh[h]
          BY <1>0, <2>5, IdleStays
    <3>2. UnsubConn(h)' = UnsubConn(h) /\ UnsubConn(h) \in Conns
          BY <1>7, <2>3, <3>1
    <3>3. curCh[h] \notin toUnsub[h] \/ wire[UnsubConn(h)] = "lost"
          BY <1>0, <1>7, <3>1 DEF Decided
    <3> QED BY <1>0, <1>1, <2>1, <3>1, <3>2, <3>3, LostStays
  <2> QED BY <1>5, <1>7, <2>2, <2>4, <2>5
\* What was counted still is what was counted.
<1>8. ASSUME pc'[h] \in Counting, NEW ch \in AppendedChannels(h)', NEW c,
             c = pubsub'[FirstSub(h, ch)'], wire'[c] = "up", ~(pc'[h] = "uCount" /\ ch \in chTodo'[h])
      PROVE  ch \in toUnsub'[h] <=> OnChannel(subscriptions'[c], ch) \subseteq Appended(h)'
  <2>1. idx'[h] = idx[h] /\ (UnsubCheck(h) \/ pc[h] \in Counting)
        BY <1>0, <1>8, CountingFrom
  <2>2. /\ Appended(h)' = Appended(h) /\ ch \in AppendedChannels(h)
        /\ c = pubsub[FirstSub(h, ch)] /\ c \in Conns
        BY <1>0, <1>8, <2>1, AppendedStays
  <2>3. wire[c] = "up"
    <3>1. wire[c] \in {"up", "lost"} /\ wire[c] # "lost"
          BY <1>0, <1>8, <2>2, LostStays DEF TypeOK, ServerTypes
    <3> QED BY <3>1
  <2>4. ASSUME pc[h] \in Counting, ~(pc[h] = "uCount" /\ ch \in chTodo[h])
        PROVE  ch \in toUnsub[h] <=> OnChannel(subscriptions[c], ch) \subseteq Appended(h)
        BY <1>0, <2>2, <2>3, <2>4 DEF Decided
  <2>5. CASE UnsubCheck(h)
    <3>1. pc'[h] = "uCount" /\ chTodo'[h] = AppendedChannels(h)
          BY <1>0, <2>5 DEF UnsubCheck, AppendedChannels, CallTypes
    <3> QED BY <1>8, <2>2, <3>1
  <2>6. CASE UnsubCount(h)
    <3>1. pc[h] = "uCount" /\ UNCHANGED subscriptions
          BY <1>3, <2>6
    <3>2. CASE ch \in chTodo[h]
      <4>1. ch \notin toUnsub[h]
            BY <1>0, <3>1, <3>2 DEF Decided
      <4>2. toUnsub'[h] = IF LastOnChannel(h, ch) THEN toUnsub[h] \cup {ch} ELSE toUnsub[h]
            BY <1>3, <1>8, <2>6, <3>2
      <4>3. LastOnChannel(h, ch) <=> OnChannel(subscriptions[c], ch) \subseteq Appended(h)
            BY <2>2, <2>3, CountIsRight
      <4> QED BY <2>2, <3>1, <4>1, <4>2, <4>3
    <3>3. CASE ch \notin chTodo[h]
      <4>1. ch \in toUnsub'[h] <=> ch \in toUnsub[h]
            BY <1>3, <2>6, <3>3
      <4>2. ch \in toUnsub[h] <=> OnChannel(subscriptions[c], ch) \subseteq Appended(h)
            BY <2>4, <3>1, <3>3 DEF Counting, UnsubPcs
      <4> QED BY <2>2, <3>1, <4>1, <4>2
    <3> QED BY <3>2, <3>3
  <2>7. CASE ~UnsubCheck(h) /\ ~UnsubCount(h)
    <3>1. pc[h] \in Counting /\ toUnsub'[h] = toUnsub[h]
          BY <1>1, <2>1, <2>7
    <3>2. ~(pc[h] = "uCount" /\ ch \in chTodo[h])
      <4> SUFFICES ASSUME pc[h] = "uCount" PROVE ch \notin chTodo[h]
          OBVIOUS
      <4>1. ~CallerStep(h)
        <5>1. ~Arrives(h)
              BY DEF Arrives, Subscribe, Lookup, Create, List, CreateFails, MetadataGone, Track,
                 Register, SendQueues, SendFails, Confirm, WaitActive, CheckPending, CheckState,
                 Activate, SendCleanup, Untrack, Unregister, Abort
        <5>2. ~Leaves(h)
              BY <2>7 DEF Leaves, Unsubscribe, UnsubUntrack, UnsubPhase1, UnsubQueues,
                 UnsubSendFails, UnsubClean, UnsubWait, UnsubRemove
        <5> QED BY <1>0, <5>1, <5>2, CallerIs
      <4>2. pc'[h] = pc[h] /\ chTodo'[h] = chTodo[h]
            BY <1>0, <4>1, IdleStays
      <4> QED BY <1>8, <4>2
    <3>3. ch \in toUnsub[h] <=> OnChannel(subscriptions[c], ch) \subseteq Appended(h)
          BY <2>4, <3>1, <3>2
    <3>4. /\ subscriptions'[c] \subseteq subscriptions[c]
          /\ subscriptions[c] \ Appended(h) \subseteq subscriptions'[c]
          BY <2>2, <3>1, OnlyMineGo DEF Counting
    <3>5. OnChannel(subscriptions[c], ch) \subseteq Appended(h)
            <=> OnChannel(subscriptions'[c], ch) \subseteq Appended(h)
          BY <3>4 DEF OnChannel
    <3> QED BY <2>2, <3>1, <3>3, <3>5
  <2> QED BY <2>5, <2>6, <2>7
<1> QED BY <1>2, <1>4, <1>6, <1>7, <1>8 DEF Decided

-----------------------------------------------------------------------------
(* Subscribers and topics *)

\* A queued command stays queued until it is sent.
LEMMA CommandStays ==
  ASSUME TypeOK, Placed, AllAlive, Homes, CloseFlag, Orderly, Orderly', [Next]_vars,
         NEW c \in Conns, LostOnly(c), wire'[c] = "up", NEW i \in 1..Len(cmdCh[c])
  PROVE  \/ \E j \in 1..Len(cmdCh'[c]) : cmdCh'[c][j] = cmdCh[c][i]
         \/ LoopSends(c) /\ i = 1
<1>1. CASE cmdCh'[c] = cmdCh[c]
      BY <1>1
<1>2. CASE LoopSends(c)
      BY <1>2, SendsEffect
<1>3. ASSUME NEW op, NEW s, NEW h, cmdCh'[c] = Append(cmdCh[c], Command(op, s, h))
      PROVE  \E j \in 1..Len(cmdCh'[c]) : cmdCh'[c][j] = cmdCh[c][i]
  <2>1. i \in 1..Len(cmdCh'[c]) /\ cmdCh'[c][i] = cmdCh[c][i]
        BY <1>3, QueueEffect
  <2> QED BY <2>1
<1> QED BY <1>1, <1>2, <1>3, QueueMoves

\* A channel awaits its UNSUBSCRIBE from UnsubQueues to UnsubRemove.
LEMMA GoingMoves ==
  ASSUME TypeOK, Placed, AllAlive, Orderly, Orderly', [Next]_vars, NEW h \in Handles, Phases(h)
  PROVE  /\ \A ch \in Going(h)' : ch \in Going(h) \/ (UnsubQueues(h) /\ ch = curCh[h])
         /\ \A ch \in Going(h) : ch \in Going(h)' \/ (UnsubRemove(h) /\ ch = curCh[h])
         /\ (Going(h) # {} \/ UnsubQueues(h)) => idx'[h] = idx[h] /\ ~UnsubCount(h)
<1> USE DEF Go, Goto
<1>0. CallTypes /\ awaiting \in [Handles -> SUBSET Channels]
      BY DEF TypeOK, CallTypes
<1>1. CASE ~CallerStep(h)
  <2>1. /\ pc'[h] = pc[h] /\ idx'[h] = idx[h] /\ awaiting'[h] = awaiting[h] /\ curCh'[h] = curCh[h]
        BY <1>1, IdleStays
  <2>2. ~UnsubCount(h)
        BY <1>1 DEF CallerStep, CallStep
  <2> QED BY <2>1, <2>2 DEF Going
<1>2. CASE Arrives(h)
  <2>1. UNCHANGED awaiting /\ pc'[h] # "uRemove"
        BY <1>0, <1>2 DEF CallTypes, Arrives, Subscribe, Lookup, Create, List, CreateFails,
           MetadataGone, Track, Register, RegisterDecision, SendQueues, SendFails, Confirm,
           WaitActive, CheckPending, CheckState, Activate, Advance, SendCleanup, Untrack,
           Unregister, Abort
  <2>2. pc[h] \notin UnsubPcs
        BY <1>2 DEF UnsubPcs, Arrives, Subscribe, Lookup, Create, List, CreateFails, MetadataGone,
           Track, Register, SendQueues, SendFails, Confirm, WaitActive, CheckPending, CheckState,
           Activate, SendCleanup, Untrack, Unregister, Abort
  <2>3. awaiting[h] = {} /\ Going(h) = {} /\ ~UnsubQueues(h) /\ Going(h)' = {}
        BY <2>1, <2>2 DEF Phases, Going, UnsubPcs, UnsubQueues
  <2> QED BY <2>3
<1>3. CASE UnsubWait(h)
  <2>1. /\ pc[h] = "uWait" /\ UNCHANGED idx
        /\ \/ awaiting'[h] = awaiting[h] /\ pc'[h] # "uRemove"
           \/ \E ch \in awaiting[h] : /\ awaiting'[h] = awaiting[h] \ {ch} /\ curCh'[h] = ch
                                      /\ pc'[h] = "uRemove"
        BY <1>0, <1>3 DEF UnsubWait, CallTypes, Ended
  <2>2. ~UnsubCount(h)
        BY <2>1 DEF UnsubCount
  <2> QED BY <2>1, <2>2 DEF Going
<1>4. CASE UnsubRemove(h)
  <2>1. pc[h] = "uRemove" /\ pc'[h] = "uWait" /\ UNCHANGED <<idx, awaiting>>
        BY <1>0, <1>4 DEF UnsubRemove, CallTypes
  <2>2. ~UnsubCount(h)
        BY <2>1 DEF UnsubCount
  <2> QED BY <1>4, <2>1, <2>2 DEF Going
<1>5. CASE UnsubQueues(h)
  <2>1. /\ pc[h] = "uSend" /\ pc'[h] = "uPhase1" /\ UNCHANGED idx
        /\ awaiting'[h] = awaiting[h] \cup {curCh[h]}
        BY <1>0, <1>5 DEF UnsubQueues, CallTypes
  <2>2. ~UnsubCount(h)
        BY <2>1 DEF UnsubCount
  <2> QED BY <1>5, <2>1, <2>2 DEF Going
<1>6. CASE UnsubPhase1(h) \/ UnsubSendFails(h) \/ UnsubClean(h)
  <2>1. /\ pc[h] \in {"uPhase1", "uSend", "uClean"} /\ pc'[h] # "uRemove" /\ pc[h] # "uRemove"
        /\ UNCHANGED <<idx, awaiting>>
        BY <1>0, <1>6 DEF UnsubPhase1, UnsubSendFails, UnsubClean, CallTypes
  <2>2. ~UnsubCount(h)
        BY <2>1 DEF UnsubCount
  <2> QED BY <2>1, <2>2 DEF Going
<1>7. CASE Unsubscribe(h) \/ UnsubCheck(h) \/ UnsubCount(h) \/ UnsubUntrack(h)
  <2>1. /\ pc[h] \in {"subscribed", "uCheck", "uCount", "uUntrack"} /\ pc'[h] # "uRemove"
        /\ UNCHANGED awaiting
        BY <1>0, <1>7 DEF Unsubscribe, UnsubCheck, UnsubCount, UnsubUntrack, CallTypes, Ended
  <2>2. awaiting[h] = {} /\ Going(h) = {} /\ ~UnsubQueues(h) /\ Going(h)' = {}
        BY <2>1 DEF Phases, Going, UnsubQueues
  <2> QED BY <2>2
<1> QED BY <1>1, <1>2, <1>3, <1>4, <1>5, <1>6, <1>7, CallerIs DEF Leaves

\* What Unsubscribe waits for is queued or done.
LEMMA AwaitedStep ==
  ASSUME IInv, SafeInv, Orderly, Orderly', Settled, [Next]_vars, NEW h \in Handles
  PROVE  Awaited(h)'
<1>0. /\ TypeOK /\ Placed /\ AllAlive /\ CloseFlag /\ NotYet /\ Homes /\ Awaited(h) /\ Decided(h)
      /\ OneCall /\ (\A c \in Conns : LostOnly(c) /\ Wanted(c) /\ OnItsWay(c))
      /\ Phases(h) /\ PlacedAt(h)
      BY OrderlyParts DEF Placed
<1> SUFFICES ASSUME NEW ch \in Going(h)', NEW c, c = pubsub'[FirstSub(h, ch)'], wire'[c] = "up"
             PROVE  /\ ch \in toUnsub'[h]
                    /\ UnsubQueued(c, ch)' \/ \A t \in topics'[c] : t[2] # ch
    BY DEF Awaited
<1>1. ch \in Going(h) \/ (UnsubQueues(h) /\ ch = curCh[h])
      BY <1>0, GoingMoves
<1>2. idx'[h] = idx[h] /\ toUnsub'[h] = toUnsub[h]
      BY <1>0, <1>1, GoingMoves, ToUnsubMoves
<1>3. ch \in AppendedChannels(h)
      BY <1>0, <1>1 DEF PlacedAt, Going, UnsubQueues
<1>4. c = pubsub[FirstSub(h, ch)] /\ c \in Conns
      BY <1>0, <1>2, <1>3, AppendedStays
<1>5. wire[c] = "up"
  <2>1. wire[c] \in {"up", "lost"} /\ wire[c] # "lost"
        BY <1>0, <1>4, LostStays DEF TypeOK, ServerTypes
  <2> QED BY <2>1
<1>6. CASE UnsubQueues(h) /\ ch = curCh[h]
  <2>1. pc[h] = "uSend" /\ UnsubConn(h) = c /\ ChannelOf[FirstSub(h, ch)] = ch
        BY <1>0, <1>4, <1>6, UnsubCommand
  <2>2. cmdCh'[c] = Append(cmdCh[c], Command("unsubscribe", FirstSub(h, ch), h))
        BY <1>0, <1>4, <1>6, <2>1 DEF UnsubQueues, Queue, TypeOK, MetaTypes
  <2>3. /\ Len(cmdCh'[c]) \in 1..Len(cmdCh'[c])
        /\ cmdCh'[c][Len(cmdCh'[c])].op = "unsubscribe"
        /\ cmdCh'[c][Len(cmdCh'[c])].sub = FirstSub(h, ch)
        BY <1>0, <1>4, <2>2, QueueEffect
  <2>4. UnsubQueued(c, ch)'
        BY <2>1, <2>3 DEF UnsubQueued
  <2>5. ch \in toUnsub[h]
        BY <1>0, <1>6, <2>1 DEF Decided
  <2> QED BY <1>2, <2>4, <2>5
<1>7. CASE ch \in Going(h)
  <2>1. ch \in toUnsub[h] /\ (UnsubQueued(c, ch) \/ \A t \in topics[c] : t[2] # ch)
        BY <1>0, <1>4, <1>5, <1>7 DEF Awaited
  <2>2. InCall(h) /\ pc[h] # "confirm"
        BY <1>0, <1>7, GoingInCall
  <2>3. LoopSends(c) => cmdCh[c][1].op # "subscribe"
    <3> SUFFICES ASSUME LoopSends(c), cmdCh[c][1].op = "subscribe" PROVE FALSE
        OBVIOUS
    <3>1. 1 \in 1..Len(cmdCh[c])
          BY <1>0, <1>4, SendsEffect
    <3>2. Asked(c, ChannelOf[cmdCh[c][1].sub])
          BY <1>0, <1>4, <1>5, <3>1 DEF OnItsWay, SubscribeQueued
    <3>3. PICK g \in Handles : pc[g] = "confirm"
          BY <3>2 DEF Asked, Asks
    <3> QED BY <1>0, <2>2, <3>3 DEF OneCall, InCall
  <2>4. topics'[c] \subseteq topics[c]
    <3>1. CASE LoopSends(c)
      <4>1. cmdCh[c][1].op = "unsubscribe" /\ topics'[c] = topics[c] \ {Topic(cmdCh[c][1].sub)}
            BY <1>0, <1>4, <2>3, <3>1, SendsEffect
      <4> QED BY <4>1
    <3>2. CASE ~LoopSends(c)
          BY <1>0, <1>4, <3>2, TopicsMove
    <3> QED BY <3>1, <3>2
  <2>5. CASE \A t \in topics[c] : t[2] # ch
        BY <1>2, <2>1, <2>4, <2>5
  <2>6. CASE UnsubQueued(c, ch)
    <3>1. PICK i \in 1..Len(cmdCh[c]) :
            cmdCh[c][i].op = "unsubscribe" /\ ChannelOf[cmdCh[c][i].sub] = ch
          BY <2>6 DEF UnsubQueued
    <3>2. CASE \E j \in 1..Len(cmdCh'[c]) : cmdCh'[c][j] = cmdCh[c][i]
      <4>1. UnsubQueued(c, ch)'
            BY <3>1, <3>2 DEF UnsubQueued
      <4> QED BY <1>2, <2>1, <4>1
    <3>3. CASE LoopSends(c) /\ i = 1
      <4>1. topics'[c] = topics[c] \ {Topic(cmdCh[c][1].sub)} /\ cmdCh[c][1].sub \in Subs
            BY <1>0, <1>4, <3>1, <3>3, SendsEffect
      <4>2. ASSUME NEW t \in topics'[c], t[2] = ch PROVE FALSE
        <5>1. \E s \in Subs : Topic(s) = t
          <6>1. \/ \E s \in subscriptions[c] : Topic(s) = t
                \/ \E k \in 1..Len(cmdCh[c]) : Topic(cmdCh[c][k].sub) = t
                BY <1>0, <1>4, <1>5, <4>1, <4>2 DEF Wanted
          <6>2. subscriptions[c] \subseteq Subs /\ \A k \in 1..Len(cmdCh[c]) : cmdCh[c][k].sub \in Subs
                BY <1>0, <1>4 DEF AllAlive, ConnAlive, Alive
          <6> QED BY <6>1, <6>2
        <5>2. PICK s \in Subs : Topic(s) = t
              BY <5>1
        <5>3. ChannelOf[s] = ch
              BY <4>2, <5>2 DEF Topic
        <5>4. TypeOf[s] = TypeOf[cmdCh[c][1].sub] /\ ChannelOf[s] = ChannelOf[cmdCh[c][1].sub]
              BY <3>1, <3>3, <4>1, <5>3 DEF Orderly, OneTypePerName
        <5>5. t = Topic(cmdCh[c][1].sub)
              BY <5>2, <5>4 DEF Topic
        <5> QED BY <4>1, <4>2, <5>5
      <4> QED BY <1>2, <2>1, <4>2
    <3> QED BY <1>0, <1>4, <3>2, <3>3, CommandStays
  <2> QED BY <2>1, <2>5, <2>6
<1> QED BY <1>1, <1>6, <1>7

\* Whoever is registered is served, waits to be, or leaves.
LEMMA ServedStep ==
  ASSUME IInv, SafeInv, Unannounced, Orderly, Orderly', Settled, [Next]_vars, NEW c \in Conns
  PROVE  Served(c)'
<1>0. /\ TypeOK /\ Placed /\ AllAlive /\ CloseFlag /\ NotYet /\ Homes /\ OneCall /\ Served(c)
      /\ LostOnly(c) /\ \A h \in Handles : Decided(h) /\ Phases(h) /\ PlacedAt(h)
      BY OrderlyParts DEF Placed
<1> SUFFICES ASSUME NEW s \in subscriptions'[c]
             PROVE  \/ Sure(c, ChannelOf[s])'
                    \/ \E h \in Handles :
                         \/ pc'[h] \in {"send", "confirm"} /\ Cur(h)' = s
                         \/ /\ s \in Appended(h)' /\ ChannelOf[s] \in Going(h)'
                            /\ pubsub'[FirstSub(h, ChannelOf[s])'] = c
    BY DEF Served
\* What a caller concludes about the subscription.
<1>1. ASSUME NEW h \in Handles, Cur(h)' = s, CurConn(h)' = c,
             pc'[h] \in {"dropPending", "untrack", "unregister", "waitActive", "checkPending",
                         "activate", "checkState"}
      PROVE  Sure(c, ChannelOf[s])'
  <2>1. Concluded(h)'
        BY ConcludedStep
  <2>2. wire'[CurConn(h)'] = "lost" \/ Sure(CurConn(h), CurChannel(h))'
        BY <1>1, <2>1 DEF Concluded
  <2>3. CurChannel(h)' = ChannelOf[s]
        BY <1>1 DEF CurChannel
  <2> QED BY <1>1, <2>2, <2>3 DEF Sure, Firm, HasTopic, UnsubQueued
<1>2. CASE s \notin subscriptions[c]
  <2>1. PICK g \in Handles : Register(g) /\ c = CurConn(g) /\ s = Cur(g)
    <3>1. \A g \in Handles : CallerStep(g) => Register(g) /\ c = CurConn(g) /\ s = Cur(g)
          BY <1>0, <1>2, CallerRegisters
    <3>2. \E g \in Handles : Register(g)
          BY <1>0, <1>2, RegisteredFrom
    <3> QED BY <3>1, <3>2 DEF CallerStep, CallStep
  <2>2. UNCHANGED <<idx, pubsub>> /\ pc'[g] = RegisterDecision(CurConn(g), CurChannel(g))
        BY <1>0, <2>1, RegisterEffect
  <2>3. Cur(g)' = s /\ CurConn(g)' = c
        BY <2>1, <2>2 DEF Cur, CurConn
  <2>4. pc'[g] \in {"send", "waitActive", "activate"}
        BY <2>2 DEF RegisterDecision
  <2> QED BY <1>1, <2>3, <2>4
<1>3. CASE s \in subscriptions[c] /\ Sure(c, ChannelOf[s])
  <2>1. CASE \A h \in Handles : ~(UnsubQueues(h) /\ UnsubConn(h) = c /\ curCh[h] = ChannelOf[s])
        BY <1>0, <1>3, <2>1, SureStays
  <2>2. ASSUME NEW h \in Handles, UnsubQueues(h), UnsubConn(h) = c, curCh[h] = ChannelOf[s],
               wire[c] = "up"
        PROVE  /\ s \in Appended(h)' /\ ChannelOf[s] \in Going(h)'
               /\ pubsub'[FirstSub(h, ChannelOf[s])'] = c
    <3>1. /\ pc[h] = "uSend" /\ UNCHANGED <<idx, pubsub>> /\ curCh[h] \in AppendedChannels(h)
          /\ UnsubConn(h) = pubsub[FirstSub(h, curCh[h])]
          /\ awaiting'[h] = awaiting[h] \cup {curCh[h]}
          BY <1>0, <2>2, UnsubCommand
    <3>2. curCh[h] \in toUnsub[h]
          BY <1>0, <3>1 DEF Decided
    <3>3. OnChannel(subscriptions[c], curCh[h]) \subseteq Appended(h)
          BY <1>0, <2>2, <3>1, <3>2 DEF Decided, Counting, UnsubPcs
    <3>4. s \in Appended(h)'
          BY <1>3, <2>2, <3>1, <3>3 DEF OnChannel, Appended
    <3>5. ChannelOf[s] \in Going(h)'
          BY <2>2, <3>1 DEF Going
    <3>6. FirstSub(h, ChannelOf[s])' = FirstSub(h, ChannelOf[s])
          BY <3>1 DEF FirstSub
    <3> QED BY <2>2, <3>1, <3>4, <3>5, <3>6
  <2>3. CASE wire[c] # "up"
    <3>1. wire[c] = "lost"
          BY <1>0, <2>3 DEF TypeOK, ServerTypes
    <3> QED BY <1>0, <3>1, LostStays DEF Sure
  <2> QED BY <2>1, <2>2, <2>3
<1>4. ASSUME s \in subscriptions[c], NEW h \in Handles, pc[h] \in {"send", "confirm"}, Cur(h) = s
      PROVE  Sure(c, ChannelOf[s])' \/ (pc'[h] \in {"send", "confirm"} /\ Cur(h)' = s)
  <2>1. /\ idx'[h] = idx[h]
        /\ pc'[h] \in {"send", "confirm", "dropPending", "untrack", "checkState"}
    <3>1. CASE Arrives(h)
          BY <1>0, <1>4, <3>1 DEF TypeOK, CallTypes, Go, Goto, Arrives, Subscribe, Lookup, Create,
             List, CreateFails, MetadataGone, Track, Register, SendQueues, SendFails, Confirm,
             WaitActive, CheckPending, CheckState, Activate, SendCleanup, Untrack, Unregister,
             Abort
    <3>2. ~Leaves(h)
          BY <1>4 DEF Leaves, Unsubscribe, UnsubCheck, UnsubCount, UnsubUntrack, UnsubPhase1,
             UnsubQueues, UnsubSendFails, UnsubClean, UnsubWait, UnsubRemove
    <3>3. CASE ~CallerStep(h)
          BY <1>0, <1>4, <3>3, IdleStays
    <3> QED BY <1>0, <3>1, <3>2, <3>3, CallerIs
  <2>2. UNCHANGED <<Cur(h), CurConn(h)>>
        BY <1>0, <1>4, <2>1, CurStays DEF CreatedPcs
  <2>3. CurConn(h) = c
        BY <1>0, <1>4 DEF Homes, CurConn
  <2> QED BY <1>1, <1>4, <2>1, <2>2, <2>3
<1>5. ASSUME s \in subscriptions[c], NEW h \in Handles, s \in Appended(h),
             ChannelOf[s] \in Going(h), pubsub[FirstSub(h, ChannelOf[s])] = c
      PROVE  /\ s \in Appended(h)' /\ ChannelOf[s] \in Going(h)'
             /\ pubsub'[FirstSub(h, ChannelOf[s])'] = c
  <2>1. idx'[h] = idx[h]
        BY <1>0, <1>5, GoingMoves
  <2>2. ChannelOf[s] \in AppendedChannels(h)
        BY <1>5 DEF AppendedChannels
  <2>3. Appended(h)' = Appended(h) /\ pubsub'[FirstSub(h, ChannelOf[s])'] = c
        BY <1>0, <1>5, <2>1, <2>2, AppendedStays
  <2>4. ~(UnsubRemove(h) /\ curCh[h] = ChannelOf[s])
    <3> SUFFICES ASSUME UnsubRemove(h), curCh[h] = ChannelOf[s] PROVE FALSE
        OBVIOUS
    <3>1. UnsubConn(h) = c /\ s \in UnsubSubs(h)
          BY <1>5 DEF UnsubConn, UnsubSubs, OnChannel
    <3>2. s \notin subscriptions'[c]
          BY <1>0, <3>1 DEF UnsubRemove, RemoveFromMeta, TypeOK, MetaTypes
    <3> QED BY <3>2
  <2>5. ChannelOf[s] \in Going(h)'
        BY <1>0, <1>5, <2>4, GoingMoves
  <2> QED BY <1>5, <2>3, <2>5
<1> QED BY <1>0, <1>2, <1>3, <1>4, <1>5 DEF Served

\* A topic is somebody's, or its UNSUBSCRIBE is queued.
LEMMA WantedStep ==
  ASSUME IInv, SafeInv, Orderly, Orderly', Settled, [Next]_vars, NEW c \in Conns
  PROVE  Wanted(c)'
<1>0. /\ TypeOK /\ Placed /\ AllAlive /\ CloseFlag /\ NotYet /\ Homes /\ Wanted(c) /\ OnItsWay(c)
      /\ LostOnly(c)
      /\ \A h \in Handles : Decided(h) /\ Phases(h) /\ PlacedAt(h) /\ Concluded(h) /\ Kept(h) /\ Awaited(h)
      /\ \A s, t \in Subs : ChannelOf[s] = ChannelOf[t] => Topic(s) = Topic(t)
      BY OrderlyParts DEF Placed, Orderly, OneTypePerName, Topic
<1>1. wire'[c] \in {"up", "lost"} /\ wire[c] \in {"up", "lost"} /\ subscriptions[c] \subseteq Subs
      BY <1>0, TypeStep DEF TypeOK, ServerTypes, MetaTypes
<1> SUFFICES ASSUME wire'[c] = "up", NEW t \in topics'[c]
             PROVE  \/ \E s \in subscriptions'[c] : Topic(s) = t
                    \/ \E i \in 1..Len(cmdCh'[c]) :
                         cmdCh'[c][i].op = "unsubscribe" /\ Topic(cmdCh'[c][i].sub) = t
    BY <1>1 DEF Wanted
<1>2. wire[c] = "up"
      BY <1>0, <1>1, LostStays
<1>3. CASE t \notin topics[c]
  <2>1. LoopSends(c)
        BY <1>0, <1>3, TopicsMove
  <2>2. /\ 1 \in 1..Len(cmdCh[c]) /\ cmdCh[c][1].sub \in Subs /\ cmdCh[c][1].op = "subscribe"
        /\ t = Topic(cmdCh[c][1].sub) /\ UNCHANGED subscriptions
        BY <1>0, <1>3, <2>1, SendsEffect
  <2>3. Asked(c, ChannelOf[cmdCh[c][1].sub])
        BY <1>0, <1>2, <2>2 DEF OnItsWay, SubscribeQueued
  <2>4. PICK h \in Handles : /\ pc[h] = "confirm" /\ CurConn(h) = c
                             /\ CurChannel(h) = ChannelOf[cmdCh[c][1].sub]
        BY <2>3 DEF Asked, Asks
  <2>5. Cur(h) \in subscriptions[c]
        BY <1>0, <2>4 DEF Kept
  <2>6. Topic(Cur(h)) = t
        BY <1>0, <1>1, <2>2, <2>4, <2>5 DEF CurChannel
  <2> QED BY <2>2, <2>5, <2>6
<1>4. ASSUME NEW i \in 1..Len(cmdCh[c]), cmdCh[c][i].op = "unsubscribe", Topic(cmdCh[c][i].sub) = t
      PROVE  \E j \in 1..Len(cmdCh'[c]) :
               cmdCh'[c][j].op = "unsubscribe" /\ Topic(cmdCh'[c][j].sub) = t
  <2>1. ~(LoopSends(c) /\ i = 1)
        BY <1>0, <1>4, SendsEffect
  <2>2. PICK j \in 1..Len(cmdCh'[c]) : cmdCh'[c][j] = cmdCh[c][i]
        BY <1>0, <2>1, CommandStays
  <2> QED BY <1>4, <2>2
<1>5. ASSUME t \in topics[c], NEW s \in subscriptions[c], Topic(s) = t, s \notin subscriptions'[c]
      PROVE  \/ \E r \in subscriptions'[c] : Topic(r) = t
             \/ \E i \in 1..Len(cmdCh'[c]) :
                  cmdCh'[c][i].op = "unsubscribe" /\ Topic(cmdCh'[c][i].sub) = t
  <2>1. PICK h \in Handles :
           \/ Unregister(h) /\ pc[h] = "unregister" /\ s = Cur(h) /\ c = CurConn(h)
           \/ /\ UnsubClean(h) \/ UnsubRemove(h)
              /\ pc[h] \in {"uClean", "uRemove"} /\ c = UnsubConn(h) /\ s \in UnsubSubs(h)
        BY <1>0, <1>5, RemovedBy
  <2>2. ~(pc[h] = "unregister" /\ c = CurConn(h))
        BY <1>0, <1>2 DEF Concluded
  <2>3. /\ c = UnsubConn(h) /\ curCh[h] = ChannelOf[s] /\ c = pubsub[FirstSub(h, curCh[h])]
        /\ curCh[h] \in AppendedChannels(h)
        BY <1>0, <2>1, <2>2 DEF UnsubSubs, OnChannel, UnsubConn, PlacedAt
  <2>4. CASE UnsubClean(h)
    <3>1. pc[h] = "uClean" /\ subscriptions'[c] = subscriptions[c] \ UnsubSubs(h)
          BY <1>0, <2>3, <2>4 DEF UnsubClean, RemoveFromMeta, TypeOK, MetaTypes
    <3>2. curCh[h] \notin toUnsub[h]
          BY <1>0, <1>2, <2>3, <3>1 DEF Decided
    <3>3. ~(OnChannel(subscriptions[c], curCh[h]) \subseteq Appended(h))
          BY <1>0, <1>2, <2>3, <3>1, <3>2 DEF Decided, Counting, UnsubPcs
    <3>4. PICK r \in subscriptions[c] : ChannelOf[r] = curCh[h] /\ r \notin Appended(h)
          BY <3>3 DEF OnChannel
    <3>5. r \in subscriptions'[c] /\ Topic(r) = t
          BY <1>0, <1>1, <1>5, <2>3, <3>1, <3>4 DEF UnsubSubs, OnChannel
    <3> QED BY <3>5
  <2>5. CASE UnsubRemove(h)
    <3>1. pc[h] = "uRemove" /\ UNCHANGED cmdCh
          BY <2>5 DEF UnsubRemove
    <3>2. UnsubQueued(c, curCh[h]) \/ \A x \in topics[c] : x[2] # curCh[h]
          BY <1>0, <1>2, <2>3, <3>1 DEF Awaited, Going
    <3>3. t[2] = curCh[h]
          BY <1>5, <2>3 DEF Topic
    <3>4. PICK i \in 1..Len(cmdCh[c]) :
            cmdCh[c][i].op = "unsubscribe" /\ ChannelOf[cmdCh[c][i].sub] = curCh[h]
          BY <1>5, <3>2, <3>3 DEF UnsubQueued
    <3>5. cmdCh[c][i].sub \in Subs
          BY <1>0 DEF AllAlive, ConnAlive, Alive
    <3>6. Topic(cmdCh[c][i].sub) = t
          BY <1>0, <1>1, <1>5, <2>3, <3>4, <3>5
    <3> QED BY <3>1, <3>4, <3>6
  <2> QED BY <2>1, <2>2, <2>4, <2>5
<1> QED BY <1>0, <1>2, <1>3, <1>4, <1>5 DEF Wanted

-----------------------------------------------------------------------------
(* Redis has what the subscribers rely on, and nothing else *)

\* At first there is nothing to settle.
LEMMA SerialInit == Init => SerialInv
<1> SUFFICES ASSUME Init PROVE SerialInv
    OBVIOUS
<1>1. Alive = {} /\ Usable = {}
      BY DEF Init, Alive, Usable
<1>2. ASSUME NEW c \in Conns
      PROVE  /\ IsFiniteSet(subscriptions[c]) /\ cmdCh[c] = <<>>
             /\ LostOnly(c) /\ Served(c) /\ Wanted(c) /\ OnItsWay(c)
  <2>1. /\ cmdCh[c] = <<>> /\ inbox[c] = <<>> /\ loop[c] = "off" /\ subscriptions[c] = {}
        /\ connState[c] = "none" /\ done[c] = "open" /\ loopDone[c] = "open" /\ topics[c] = {}
        BY DEF Init
  <2>2. IsFiniteSet(subscriptions[c])
        BY <2>1, FS_EmptySet
  <2>3. LostOnly(c) /\ Served(c) /\ Wanted(c)
        BY <2>1 DEF LostOnly, Dying, Served, Wanted
  <2>4. OnItsWay(c)
        BY <2>1 DEF OnItsWay, SubscribeQueued, SubscribeAnswered, SubscribeHandled
  <2> QED BY <2>1, <2>2, <2>3, <2>4
<1>3. ASSUME NEW h \in Handles
      PROVE  Concluded(h) /\ Kept(h) /\ Together(h) /\ Decided(h) /\ Awaited(h) /\ ~InCall(h)
  <2>1. /\ pc[h] = "new" /\ idx[h] = 1 /\ toUnsub[h] = {} /\ awaiting[h] = {}
        BY DEF Init
  <2>2. Appended(h) = {} /\ Going(h) = {}
        BY <2>1 DEF Appended, Going
  <2>3. Concluded(h) /\ Kept(h) /\ Awaited(h) /\ ~InCall(h)
        BY <2>1, <2>2 DEF Concluded, Kept, Awaited, InCall
  <2>4. Together(h)
        BY <2>1 DEF Together, CreatedPcs
  <2>5. Decided(h)
        BY <2>1 DEF Decided, Counting, UnsubPcs
  <2> QED BY <2>3, <2>4, <2>5
<1>4. OneCall /\ Single
      BY <1>1, <1>3 DEF OneCall, Single
<1>5. Addressed
      BY <1>2 DEF Addressed
<1>6. Settled
      BY <1>1, <1>2, <1>3, <1>4 DEF Settled
<1> QED BY <1>2, <1>5, <1>6 DEF SerialInv

\* Every orderly step leaves everything settled.
LEMMA SerialStep ==
  ASSUME IInv, SafeInv, Unannounced, SerialInv, [Next]_vars PROVE SerialInv'
<1>0. /\ TypeOK /\ Placed /\ AllAlive /\ CloseFlag /\ NotYet /\ Homes /\ PendingRegistered
      /\ (\A c \in Conns : IsFiniteSet(subscriptions[c])) /\ Addressed
      BY DEF IInv, SafeInv, Registry, SerialInv
<1>1. (\A c \in Conns : IsFiniteSet(subscriptions'[c])) /\ Addressed'
      BY <1>0, FiniteStep, AddressedStep
<1>2. ASSUME Orderly' PROVE Settled'
  <2>1. Orderly /\ Settled
        BY <1>0, <1>2, OrderlyBefore DEF SerialInv
  <2>2. /\ OneCall /\ Single
        /\ \A c \in Conns : LostOnly(c) /\ OnItsWay(c)
        /\ \A s \in Alive : BadNews(s)
        /\ \A h \in Handles : Concluded(h)
        BY <2>1 DEF Settled
  <2>3. OneCall' /\ Single'
        BY <1>0, <1>2, <2>1, <2>2, OneCallStep, SingleStep
  <2>4. \A s \in Alive' : BadNews(s)'
        BY <1>0, <1>2, <2>1, <2>2, BadNewsStep
  <2>5. ASSUME NEW c \in Conns PROVE LostOnly(c)' /\ Served(c)' /\ Wanted(c)' /\ OnItsWay(c)'
    <3>1. LostOnly(c)'
          BY <1>0, <1>2, <2>1, <2>2, OrderlyLostOnly
    <3>2. Served(c)' /\ Wanted(c)'
          BY <1>2, <2>1, ServedStep, WantedStep
    <3>3. OnItsWay(c)'
          BY <1>0, <1>2, <2>1, <2>2, OnItsWayStep
    <3> QED BY <3>1, <3>2, <3>3
  <2>6. \A h \in Handles : Concluded(h)' /\ Kept(h)' /\ Together(h)' /\ Decided(h)' /\ Awaited(h)'
        BY <1>2, <2>1, ConcludedStep, KeptStep, TogetherStep, DecidedStep, AwaitedStep
  <2> QED BY <2>3, <2>4, <2>5, <2>6 DEF Settled
<1> QED BY <1>1, <1>2 DEF SerialInv

\* What is settled is what the subscribers and Redis have of each other.
LEMMA SettledMatches ==
  ASSUME IInv, SafeInv, Orderly, Settled PROVE TopicsMatchSubscribers
<1>0. /\ TypeOK /\ Placed /\ AllAlive /\ Homes
      /\ (\A h \in Handles : Phases(h) /\ Kept(h)) /\ \A c \in Conns : Served(c) /\ Wanted(c)
      BY OrderlyParts
<1>1. ASSUME NEW h \in Handles, pc[h] = "subscribed", NEW s \in Own(h), wire[pubsub[s]] = "up"
      PROVE  Topic(s) \in topics[pubsub[s]]
  <2>1. s \in Appended(h) /\ s \in Subs
    <3>1. PICK i \in 1..Len(SubsOf[h]) : s = SubsOf[h][i]
          BY DEF Own
    <3>2. idx[h] > Len(SubsOf[h]) /\ idx[h] \in Nat /\ Len(SubsOf[h]) \in Nat
          BY <1>0, <1>1, SubMuxAssumption DEF Phases, TypeOK, CallTypes
    <3>3. i \in 1..(idx[h] - 1)
          BY <3>2
    <3> QED BY <3>1, <3>3, SubMuxAssumption DEF Appended
  <2>2. s \in subscriptions[pubsub[s]]
        BY <1>0, <1>1, <2>1 DEF Kept, UnsubPcs
  <2>3. pubsub[s] \in Conns
        BY <1>0, <2>1 DEF AllAlive, CallAlive, Homes
  <2>4. ASSUME NEW g \in Handles, pc[g] \in {"send", "confirm"}, Cur(g) = s PROVE FALSE
    <3>1. idx[g] <= Len(SubsOf[g])
          BY <1>0, <2>4 DEF Placed, PlacedAt, CreatedPcs
    <3> QED BY <1>0, <2>1, <2>4, <3>1, CurNotAppended
  <2>5. ASSUME NEW g \in Handles, s \in Appended(g), ChannelOf[s] \in Going(g) PROVE FALSE
    <3>1. g = h
          BY <1>0, <2>1, <2>5, AppendedDisjoint
    <3>2. pc[g] \in {"uPhase1", "uSend", "uClean", "uWait", "uRemove"}
          BY <1>0, <2>5, GoingInCall
    <3> QED BY <1>1, <3>1, <3>2
  <2>6. Sure(pubsub[s], ChannelOf[s])
        BY <1>0, <2>2, <2>3, <2>4, <2>5 DEF Served
  <2> QED BY <1>1, <2>1, <2>6 DEF Sure, Firm, HasTopic
<1>2. ASSUME NEW c \in inPool, wire[c] = "up", cmdCh[c] = <<>>, NEW t \in topics[c]
      PROVE  t \in {Topic(s) : s \in subscriptions[c]}
  <2>1. c \in Conns
        BY <1>0 DEF TypeOK, MuxTypes
  <2>2. ~\E i \in 1..Len(cmdCh[c]) : TRUE
        BY <1>2
  <2> QED BY <1>0, <1>2, <2>1, <2>2 DEF Wanted
<1> QED BY <1>1, <1>2 DEF TopicsMatchSubscribers, NoDeafSubscriber, NoOrphan

\* As long as the application makes one call at a time, subscribes to no name in
\* two ways and has neither closed the SubMux nor let a Subscribe time out, every
\* subscriber on a connection that is up has its topic at Redis and Redis has no
\* topic that nobody wants, whatever connections are lost and however the event
\* loops interleave with the calls (submux.go:396-475, 500-654, pool.go:169-195,
\* eventloop.go:83-199).
THEOREM SerialTheorem == Spec => [](Orderly => TopicsMatchSubscribers)
<1>1. IInv /\ SafeInv /\ SerialInv => (Orderly => TopicsMatchSubscribers)
      BY SettledMatches DEF SerialInv
<1>2. ConfirmInv => Unannounced
      BY DEF ConfirmInv
<1>3. ConfirmInv /\ [](IInv /\ SafeInv) /\ [][Next]_vars => []ConfirmInv
      BY ConfirmStep, PTL
<1>4. IInv /\ SafeInv /\ Unannounced /\ SerialInv /\ [Next]_vars => SerialInv'
      BY SerialStep
<1>5. SerialInv /\ [](IInv /\ SafeInv) /\ []Unannounced /\ [][Next]_vars => []SerialInv
      BY <1>4, PTL
<1> QED BY <1>1, <1>2, <1>3, <1>5, ConfirmInit, SerialInit, SafeInvariance, PTL DEF Spec

\* An application that makes one call at a time, without deadlines and without
\* Close, never has a deaf subscriber or an orphaned topic (submux.go:396-475,
\* 500-654).
THEOREM TopicsTheorem ==
  ASSUME Serial, OneTypePerName, ~MayClose, Deadlined = {}
  PROVE  Spec => []TopicsMatchSubscribers
<1> DEFINE Live == ~closed /\ \A h \in Handles : ctx[h] = "live"
<1>1. Init => Live
      BY DEF Init
<1>2. TypeOK /\ Live /\ [Next]_vars => Live'
  <2> SUFFICES ASSUME TypeOK, Live, [Next]_vars PROVE Live'
      OBVIOUS
  <2>1. ASSUME NEW h \in Handles, CallerStep(h) PROVE UNCHANGED <<closed, ctx>>
    <3>1. ~Expire(h)
          BY DEF Expire
    <3>2. UNCHANGED ctx
          BY <2>1, <3>1 DEF CallerStep, CallStep, Goto, Subscribe, Unsubscribe, Lookup, Create,
             List, CreateFails, MetadataGone, Track, Register, SendQueues, SendFails, Confirm,
             WaitActive, WaitExpires, CheckPending, CheckState, Activate, SendCleanup, Untrack,
             Unregister, Abort, UnsubCheck, UnsubCount, UnsubUntrack, UnsubPhase1, UnsubQueues,
             UnsubSendFails, UnsubClean, UnsubWait, UnsubRemove
    <3> QED BY <2>1, <3>2, CallerOthers
  <2>2. ~CloseBegins
        BY DEF CloseBegins
  <2>3. CloseStep => UNCHANGED <<closed, ctx>>
        BY DEF CloseStep, CloseMarks, CloseTakesPool, CloseConnection, CloseJoins, CloseClears
  <2>4. UNCHANGED <<closed, ctx>>
        BY <2>1, <2>2, <2>3, LoopOthers, PublishOthers DEF Next, CallerStep, vars
  <2> QED BY <2>4
<1>3. IInv => TypeOK
      BY DEF IInv
<1>4. Live => Orderly
      BY DEF Orderly
<1> HIDE DEF Live
<1>5. Live /\ []TypeOK /\ [][Next]_vars => []Live
      BY <1>2, PTL
<1> QED BY <1>1, <1>3, <1>4, <1>5, SafeInvariance, SerialTheorem, PTL DEF Spec

=============================================================================
