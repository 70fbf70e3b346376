------------------------------- MODULE SubMux -------------------------------
(***************************************************************************)
(* The core of submux: SubscribeSync / PSubscribeSync / SSubscribeSync,    *)
(* Unsubscribe and Close (submux.go) running against the event loops of    *)
(* the connections (eventloop.go), with the state of each connection       *)
(* (pubSubMetadata, pool.go) and of each subscription (subscription.go).   *)
(*                                                                         *)
(* A step is what one goroutine does between two points where another one  *)
(* can interfere: a critical section of sm.mu, pool.mu, meta.mu or sub.mu, *)
(* or one channel operation.                                               *)
(*                                                                         *)
(* All channels hash to one slot of one node.  The pool is abstracted to   *)
(* its connections with metadata and those it lists; the choice of a node, *)
(* and migrations, are outside this module.  Redis is external: a          *)
(* connection keeps the set of topics the server has for it and delivers   *)
(* confirmations and messages in order; it may break at any time.          *)
(***************************************************************************)
EXTENDS Naturals, Sequences, FiniteSets

CONSTANTS
  Handles,          \* the callers; each makes one Subscribe and one Unsubscribe
  Subs,             \* the subscriptions they create
  Channels,         \* channel and pattern names
  Types,            \* SUBSCRIBE, PSUBSCRIBE, SSUBSCRIBE
  Conns,            \* the connections that may be opened
  SubsOf,           \* the subscriptions of each handle, in the order of its channels
  ChannelOf,        \* the channel of each subscription
  TypeOf,           \* and its type
  CmdCap,           \* capacity of cmdCh (100 in the code)
  MaxPublish,       \* bound on the messages published
  MaxBreaks,        \* bound on the connections that break
  Deadlined,        \* handles whose Subscribe has a deadline
  UnsubDeadlined,   \* handles whose Unsubscribe may be cancelled
  Unsubscribers,    \* handles that unsubscribe
  Serial,           \* TRUE if the application makes one call at a time
  MayClose,         \* TRUE if the application calls Close
  AutoResubscribe,  \* config.autoResubscribe
  NoSub, NoConn, NoChannel

ASSUME SubMuxAssumption ==
  /\ SubsOf \in [Handles -> Seq(Subs)]
  /\ \A h \in Handles : SubsOf[h] # <<>>
  /\ \A g, h \in Handles : \A i \in 1..Len(SubsOf[g]), j \in 1..Len(SubsOf[h]) :
       SubsOf[g][i] = SubsOf[h][j] => g = h /\ i = j
  /\ ChannelOf \in [Subs -> Channels] /\ TypeOf \in [Subs -> Types]
  /\ Deadlined \subseteq Handles /\ UnsubDeadlined \subseteq Handles
  /\ Unsubscribers \subseteq Handles
  /\ CmdCap \in Nat \ {0} /\ MaxPublish \in Nat /\ MaxBreaks \in Nat
  /\ Serial \in BOOLEAN /\ MayClose \in BOOLEAN /\ AutoResubscribe \in BOOLEAN
  /\ NoSub \notin Subs /\ NoConn \notin Conns /\ NoChannel \notin Channels

VARIABLES
  \* SubMux
  closed,         \* sm.closed
  global,         \* sm.subscriptions
  inPool,         \* the pool's connections with metadata (pubSubMetadata)
  listed,         \* those that it lists (nodePubSubs, hashslotPubSubs)
  \* subscription
  state,          \* subscriptionState, "none" before the subscription exists
  confirmCh,      \* the buffered confirmation: "empty", or the error it holds
  doneCh,         \* "open", or closed with the confirmErr stored then
  pubsub,         \* the connection of each subscription
  \* pubSubMetadata
  connState,      \* connectionState, "none" before the connection exists
  subscriptions,  \* meta.subscriptions
  pending,        \* meta.pendingSubscriptions, per channel
  cmdCh,          \* the commands queued for the event loop
  response,       \* the response channel of each UNSUBSCRIBE, by its subscription
  done, loopDone, \* channels that are "open" or "closed"; closing twice is a "panic"
  \* the event loop of each connection
  loop, loopSub, loopTodo, loopMsg,
  \* Redis, per connection
  topics,         \* the topics the server has for the connection
  inbox,          \* what the server sent and the loop has not received
  wire,           \* "up", or "lost" for good
  published,      \* messages published so far
  \* the callers
  pc, idx,        \* where each handle is, and in which of its subscriptions
  waitOn,         \* existingPending
  ctx,            \* the context of Subscribe
  toUnsub,        \* channelsToUnsub
  chTodo, curCh,  \* phase 1 of unsubscribe: channels left, channel at hand
  awaiting,       \* the pending list of phases 2 and 3
  \* Close
  closePc, closeSubs, closeConns, closeConn,
  \* history
  delivered       \* the messages and the signal handed to each subscription's sequencer

muxVars  == <<closed, global, inPool, listed>>
subVars  == <<state, confirmCh, doneCh, pubsub>>
metaVars == <<connState, subscriptions, pending, cmdCh, response, done, loopDone>>
loopVars == <<loop, loopSub, loopTodo, loopMsg>>
srvVars  == <<topics, inbox, wire, published>>
callVars == <<pc, idx, waitOn, ctx, toUnsub, chTodo, curCh, awaiting>>
endVars  == <<closePc, closeSubs, closeConns, closeConn>>
\* What a caller's step leaves alone unless it says otherwise.
callRest == <<waitOn, ctx, toUnsub, chTodo, curCh, awaiting>>
envVars  == <<loopVars, srvVars, endVars, delivered>>
metaEnd  == <<connState, response, done, loopDone>>
vars == <<muxVars, subVars, metaVars, loopVars, srvVars, callVars, endVars, delivered>>

-----------------------------------------------------------------------------

Topic(s)       == <<TypeOf[s], ChannelOf[s]>>
OnChannel(S, ch) == {s \in S : ChannelOf[s] = ch}
Own(h)         == {SubsOf[h][i] : i \in 1..Len(SubsOf[h])}
Cur(h)         == SubsOf[h][idx[h]]
CurChannel(h)  == ChannelOf[Cur(h)]
CurConn(h)     == pubsub[Cur(h)]

\* The subscriptions appended to the handle so far (sub.subs).
Appended(h)    == {SubsOf[h][i] : i \in 1..(idx[h] - 1)}

Init ==
  /\ closed = FALSE /\ global = {} /\ inPool = {} /\ listed = {}
  /\ state = [s \in Subs |-> "none"]
  /\ confirmCh = [s \in Subs |-> "empty"]
  /\ doneCh = [s \in Subs |-> "open"]
  /\ pubsub = [s \in Subs |-> NoConn]
  /\ connState = [c \in Conns |-> "none"]
  /\ subscriptions = [c \in Conns |-> {}]
  /\ pending = [c \in Conns |-> [ch \in Channels |-> NoSub]]
  /\ cmdCh = [c \in Conns |-> <<>>]
  /\ response = [s \in Subs |-> "empty"]
  /\ done = [c \in Conns |-> "open"]
  /\ loopDone = [c \in Conns |-> "open"]
  /\ loop = [c \in Conns |-> "off"]
  /\ loopSub = [c \in Conns |-> NoSub]
  /\ loopTodo = [c \in Conns |-> {}]
  /\ loopMsg = [c \in Conns |-> 0]
  /\ topics = [c \in Conns |-> {}]
  /\ inbox = [c \in Conns |-> <<>>]
  /\ wire = [c \in Conns |-> "up"]
  /\ published = 0
  /\ pc = [h \in Handles |-> "new"]
  /\ idx = [h \in Handles |-> 1]
  /\ waitOn = [h \in Handles |-> NoSub]
  /\ ctx = [h \in Handles |-> "live"]
  /\ toUnsub = [h \in Handles |-> {}]
  /\ chTodo = [h \in Handles |-> {}]
  /\ curCh = [h \in Handles |-> NoChannel]
  /\ awaiting = [h \in Handles |-> {}]
  /\ closePc = "open" /\ closeSubs = {} /\ closeConns = {} /\ closeConn = NoConn
  /\ delivered = [s \in Subs |-> <<>>]

-----------------------------------------------------------------------------
(* subscription.setState *)

\* Mutant: only a successful confirmation is signalled.
Confirmed_SuccessOnly(s, err) ==
  IF state[s] = "pending" /\ confirmCh[s] = "empty" /\ err = "nil"
    THEN [confirmCh EXCEPT ![s] = err] ELSE confirmCh

\* Leaving Pending fills the empty confirmation buffer and closes doneCh once.
Confirmed(s, err) ==
  IF state[s] = "pending" /\ confirmCh[s] = "empty"
    THEN [confirmCh EXCEPT ![s] = err] ELSE confirmCh

Announced(s, new, err) ==
  IF state[s] = "pending" /\ new # "pending" /\ doneCh[s] = "open"
    THEN [doneCh EXCEPT ![s] = err] ELSE doneCh

SetState(s, new, err) ==
  /\ state' = [state EXCEPT ![s] = new]
  /\ confirmCh' = Confirmed(s, err)
  /\ doneCh' = Announced(s, new, err)
  /\ UNCHANGED pubsub

\* setState(Closed, nil) for several subscriptions in a row.
SetClosed(S) ==
  /\ state' = [s \in Subs |-> IF s \in S THEN "closed" ELSE state[s]]
  /\ confirmCh' = [s \in Subs |-> IF s \in S THEN Confirmed(s, "nil")[s] ELSE confirmCh[s]]
  /\ doneCh' = [s \in Subs |-> IF s \in S THEN Announced(s, "closed", "nil")[s] ELSE doneCh[s]]
  /\ UNCHANGED pubsub

-----------------------------------------------------------------------------
(* pubSubMetadata *)

\* Mutant: the pending entry stays.
RemoveFromMeta_KeepsPending(c, S) ==
  /\ subscriptions' = [subscriptions EXCEPT ![c] = @ \ S]
  /\ UNCHANGED pending

\* removeSubscription: the entry, and the pending entry only if it is this one.
RemoveFromMeta(c, S) ==
  /\ subscriptions' = [subscriptions EXCEPT ![c] = @ \ S]
  /\ pending' = [pending EXCEPT ![c] =
                   [ch \in Channels |-> IF @[ch] \in S THEN NoSub ELSE @[ch]]]

\* removePendingSubscription: whoever it is.
DropPending(c, ch) == pending' = [pending EXCEPT ![c][ch] = NoSub]

Command(op, s, h) == [op |-> op, sub |-> s, handle |-> h]

\* Mutant: one command more than the capacity.
CanQueue_OffByOne(c) == Len(cmdCh[c]) <= CmdCap

CanQueue(c) == Len(cmdCh[c]) < CmdCap

Stopped(c)  == loopDone[c] = "closed" \/ done[c] = "closed"

Queue(c, cmd) == cmdCh' = [cmdCh EXCEPT ![c] = Append(@, cmd)]

-----------------------------------------------------------------------------
(* subscribe and subscribeToChannel *)

Go(h, p) == pc' = [pc EXCEPT ![h] = p]

\* A step that only looks and decides where to go on.
Goto(h, p) ==
  /\ Go(h, p)
  /\ UNCHANGED <<muxVars, subVars, metaVars, idx, callRest, envVars>>

InCall(h) == pc[h] \notin {"new", "subscribed", "failed", "gone"}

MayCall == Serial => \A h \in Handles : ~InCall(h)

\* subscribe: the closed check.
Subscribe(h) ==
  /\ pc[h] = "new" /\ MayCall
  /\ Goto(h, IF closed THEN "failed" ELSE "lookup")

\* getPubSubForHashslot: an active connection with the fewest subscriptions.
LeastLoaded ==
  LET usable == {c \in listed \cap inPool : connState[c] = "active"}
  IN  {c \in usable : \A d \in usable :
         Cardinality(subscriptions[c]) <= Cardinality(subscriptions[d])}

Lookup(h) ==
  /\ pc[h] = "lookup"
  /\ IF LeastLoaded = {}
       THEN Go(h, "create") /\ UNCHANGED pubsub
       ELSE \E c \in LeastLoaded : /\ pubsub' = [pubsub EXCEPT ![Cur(h)] = c]
                                   /\ Go(h, "track")
  /\ UNCHANGED <<muxVars, state, confirmCh, doneCh, metaVars, idx, callRest, envVars>>

\* createPubSubToNode registers the metadata of a new connection and starts its
\* event loop ...
Create(h) ==
  /\ pc[h] = "create"
  /\ \E c \in Conns :
       /\ connState[c] = "none"
       /\ connState' = [connState EXCEPT ![c] = "active"]
       /\ loop' = [loop EXCEPT ![c] = "select"]
       /\ inPool' = inPool \cup {c}
       /\ pubsub' = [pubsub EXCEPT ![Cur(h)] = c]
  /\ Go(h, "list")
  /\ UNCHANGED <<closed, global, listed, state, confirmCh, doneCh, subscriptions, pending, cmdCh,
                 response, done, loopDone, loopSub, loopTodo, loopMsg, srvVars, idx,
                 callRest, endVars, delivered>>

\* ... and its caller lists it, although the connection may be gone by then.
List(h) ==
  /\ pc[h] = "list"
  /\ listed' = listed \cup {CurConn(h)}
  /\ Go(h, "track")
  /\ UNCHANGED <<closed, global, inPool, subVars, metaVars, idx, callRest, envVars>>

\* No node could be found for the hashslot.
CreateFails(h) ==
  /\ pc[h] = "create"
  /\ Goto(h, "abort")

\* getMetadata: the connection has already left the pool.
MetadataGone(h) ==
  /\ pc[h] = "track" /\ CurConn(h) \notin inPool
  /\ Goto(h, "abort")

\* addSubscriptionToMapLocked: also drops failed and closed entries of the channel.
Track(h) ==
  /\ pc[h] = "track"
  /\ state' = [state EXCEPT ![Cur(h)] = "pending"]
  /\ global' = {s \in global : ChannelOf[s] = CurChannel(h)
                                 => state[s] \notin {"failed", "closed"}} \cup {Cur(h)}
  /\ Go(h, "register")
  /\ UNCHANGED <<closed, inPool, listed, confirmCh, doneCh, pubsub, metaVars, idx, callRest,
                 envVars>>

\* Mutant: the pending subscription is not looked for.
RegisterDecision_IgnoresPending(c, ch) ==
  IF OnChannel(subscriptions[c], ch) = {} THEN "send" ELSE "activate"

\* What addSubscriptionAndCheckFirst decides: wait for the pending one, be the
\* first and send SUBSCRIBE, or rely on the others.
RegisterDecision(c, ch) ==
  IF pending[c][ch] # NoSub THEN "waitActive"
  ELSE IF OnChannel(subscriptions[c], ch) = {} THEN "send"
  ELSE "activate"

Register(h) ==
  LET s == Cur(h)  c == CurConn(h)  ch == CurChannel(h)  next == RegisterDecision(c, ch)
  IN  /\ pc[h] = "register"
      /\ subscriptions' = [subscriptions EXCEPT ![c] = @ \cup {s}]
      /\ pending' = IF next = "send" THEN [pending EXCEPT ![c][ch] = s] ELSE pending
      /\ waitOn' = [waitOn EXCEPT ![h] = pending[c][ch]]
      /\ Go(h, next)
      /\ UNCHANGED <<muxVars, subVars, cmdCh, metaEnd, idx, ctx, toUnsub, chTodo, curCh,
                     awaiting, envVars>>

\* sendCommand: any ready case of the select.
SendQueues(h) ==
  /\ pc[h] = "send" /\ CanQueue(CurConn(h))
  /\ Queue(CurConn(h), Command("subscribe", Cur(h), h))
  /\ Go(h, "confirm")
  /\ UNCHANGED <<muxVars, subVars, subscriptions, pending, metaEnd, idx, callRest, envVars>>

SendFails(h) ==
  /\ pc[h] = "send" /\ (Stopped(CurConn(h)) \/ ctx[h] = "done")
  /\ Goto(h, "dropPending")

\* waitForConfirmation receives from confirmCh.
Confirm(h) ==
  /\ pc[h] = "confirm" /\ confirmCh[Cur(h)] # "empty"
  /\ confirmCh' = [confirmCh EXCEPT ![Cur(h)] = "empty"]
  /\ Go(h, IF confirmCh[Cur(h)] = "nil" THEN "checkState" ELSE "untrack")
  /\ UNCHANGED <<muxVars, state, doneCh, pubsub, metaVars, idx, callRest, envVars>>

\* waitForActive on the subscription another caller is confirming.
WaitActive(h) ==
  /\ pc[h] = "waitActive" /\ doneCh[waitOn[h]] # "open"
  /\ Goto(h, IF doneCh[waitOn[h]] = "nil" THEN "checkPending" ELSE "untrack")

\* Mutant: waitForActive ignores the context.
WaitExpires_OnlyConfirm(h) ==
  /\ pc[h] = "confirm" /\ ctx[h] = "done"
  /\ Goto(h, "untrack")

\* Either wait ends with the caller's context.
WaitExpires(h) ==
  /\ pc[h] \in {"confirm", "waitActive"} /\ ctx[h] = "done"
  /\ Goto(h, "untrack")

CheckPending(h) ==
  /\ pc[h] = "checkPending"
  /\ Goto(h, IF state[waitOn[h]] = "failed" THEN "untrack" ELSE "activate")

\* subscribeToChannel returns: next channel, or the handle is complete.
Advance(h) ==
  /\ idx' = [idx EXCEPT ![h] = @ + 1]
  /\ Go(h, IF idx[h] = Len(SubsOf[h]) THEN "subscribed" ELSE "lookup")

CheckState(h) ==
  /\ pc[h] = "checkState"
  /\ IF state[Cur(h)] = "failed" THEN Go(h, "untrack") /\ UNCHANGED idx ELSE Advance(h)
  /\ UNCHANGED <<muxVars, subVars, metaVars, callRest, envVars>>

Activate(h) ==
  /\ pc[h] = "activate"
  /\ SetState(Cur(h), "active", "nil")
  /\ Advance(h)
  /\ UNCHANGED <<muxVars, metaVars, callRest, envVars>>

\* The error paths of subscribeToChannel.
SendCleanup(h) ==
  /\ pc[h] = "dropPending"
  /\ DropPending(CurConn(h), CurChannel(h))
  /\ Go(h, "untrack")
  /\ UNCHANGED <<muxVars, subVars, subscriptions, cmdCh, metaEnd, idx, callRest, envVars>>

Untrack(h) ==
  /\ pc[h] = "untrack"
  /\ global' = global \ {Cur(h)}
  /\ Go(h, "unregister")
  /\ UNCHANGED <<closed, inPool, listed, subVars, metaVars, idx, callRest, envVars>>

Unregister(h) ==
  /\ pc[h] = "unregister"
  /\ RemoveFromMeta(CurConn(h), {Cur(h)})
  /\ Go(h, "abort")
  /\ UNCHANGED <<muxVars, subVars, cmdCh, metaEnd, idx, callRest, envVars>>

\* Mutant: no rollback of the channels before the failed one.
Abort_NoRollback(h) == pc[h] = "abort" /\ Goto(h, "failed")

\* subscribe unsubscribes what it had subscribed to, then returns the error.
Abort(h) ==
  /\ pc[h] = "abort"
  /\ Goto(h, IF idx[h] = 1 THEN "failed" ELSE "uCheck")

\* The deadline of Subscribe's context passes during the call.
Expire(h) ==
  /\ h \in Deadlined /\ ctx[h] = "live"
  /\ pc[h] \in {"lookup", "create", "list", "track", "register", "send", "confirm", "waitActive"}
  /\ ctx' = [ctx EXCEPT ![h] = "done"]
  /\ UNCHANGED <<muxVars, subVars, metaVars, pc, idx, waitOn, toUnsub, chTodo, curCh, awaiting,
                 envVars>>

-----------------------------------------------------------------------------
(* unsubscribeSubscription, for Unsubscribe and for the rollback of subscribe *)

Unsubscribe(h) ==
  /\ h \in Unsubscribers /\ pc[h] = "subscribed" /\ MayCall
  /\ Goto(h, "uCheck")

\* Where unsubscribeSubscription returns to.
Ended(h) == IF idx[h] > Len(SubsOf[h]) THEN "gone" ELSE "failed"

UnsubCheck(h) ==
  /\ pc[h] = "uCheck"
  /\ IF closed THEN Go(h, Ended(h)) /\ UNCHANGED chTodo
       ELSE /\ Go(h, "uCount")
            /\ chTodo' = [chTodo EXCEPT ![h] = {ChannelOf[s] : s \in Appended(h)}]
  /\ UNCHANGED <<muxVars, subVars, metaVars, idx, waitOn, ctx, toUnsub, curCh, awaiting, envVars>>

\* Mutant: the other handles' subscriptions are not counted.
LastOnChannel_IgnoresOthers(h, ch) ==
  \E s \in OnChannel(Appended(h), ch) : pubsub[s] \in inPool

\* No subscription but this handle's remains on the channel.
LastOnChannel(h, ch) ==
  \E s \in OnChannel(Appended(h), ch) :
     /\ pubsub[s] \in inPool
     /\ OnChannel(subscriptions[pubsub[s]], ch) \subseteq Appended(h)

UnsubCount(h) ==
  /\ pc[h] = "uCount"
  /\ IF chTodo[h] = {}
       THEN /\ Go(h, "uUntrack")
            /\ chTodo' = [chTodo EXCEPT ![h] = {ChannelOf[s] : s \in Appended(h)}]
            /\ UNCHANGED toUnsub
       ELSE \E ch \in chTodo[h] :
              /\ chTodo' = [chTodo EXCEPT ![h] = @ \ {ch}]
              /\ toUnsub' = IF LastOnChannel(h, ch)
                              THEN [toUnsub EXCEPT ![h] = @ \cup {ch}] ELSE toUnsub
              /\ UNCHANGED pc
  /\ UNCHANGED <<muxVars, subVars, metaVars, idx, waitOn, ctx, curCh, awaiting, envVars>>

UnsubUntrack(h) ==
  /\ pc[h] = "uUntrack"
  /\ global' = global \ Appended(h)
  /\ Go(h, "uPhase1")
  /\ UNCHANGED <<closed, inPool, listed, subVars, metaVars, idx, callRest, envVars>>

\* The handle's subscriptions of the channel at hand, and their connection
\* (that of the first of them).
UnsubSubs(h) == OnChannel(Appended(h), curCh[h])
FirstSub(h, ch) ==
  SubsOf[h][CHOOSE i \in 1..(idx[h] - 1) :
              /\ ChannelOf[SubsOf[h][i]] = ch
              /\ \A j \in 1..(i - 1) : ChannelOf[SubsOf[h][j]] # ch]

\* Phase 1: the channels in the order of a Go map.  A channel whose connection
\* has left the pool is skipped.
UnsubPhase1(h) ==
  /\ pc[h] = "uPhase1"
  /\ IF chTodo[h] = {}
       THEN Go(h, "uWait") /\ UNCHANGED <<subVars, chTodo, curCh>>
       ELSE \E ch \in chTodo[h] :
              /\ chTodo' = [chTodo EXCEPT ![h] = @ \ {ch}]
              /\ IF pubsub[FirstSub(h, ch)] \notin inPool
                   THEN UNCHANGED <<pc, subVars, curCh>>
                   ELSE /\ curCh' = [curCh EXCEPT ![h] = ch]
                        /\ SetClosed(OnChannel(Appended(h), ch))
                        /\ Go(h, IF ch \in toUnsub[h] THEN "uSend" ELSE "uClean")
  /\ UNCHANGED <<muxVars, metaVars, idx, waitOn, ctx, toUnsub, awaiting, envVars>>

UnsubConn(h) == pubsub[FirstSub(h, curCh[h])]

\* sendCommand with context.Background().
UnsubQueues(h) ==
  /\ pc[h] = "uSend" /\ CanQueue(UnsubConn(h))
  /\ Queue(UnsubConn(h), Command("unsubscribe", FirstSub(h, curCh[h]), h))
  /\ awaiting' = [awaiting EXCEPT ![h] = @ \cup {curCh[h]}]
  /\ Go(h, "uPhase1")
  /\ UNCHANGED <<muxVars, subVars, subscriptions, pending, metaEnd, idx, waitOn, ctx, toUnsub,
                 chTodo, curCh, envVars>>

UnsubSendFails(h) ==
  pc[h] = "uSend" /\ Stopped(UnsubConn(h)) /\ Goto(h, "uClean")

UnsubClean(h) ==
  /\ pc[h] = "uClean"
  /\ RemoveFromMeta(UnsubConn(h), UnsubSubs(h))
  /\ Go(h, "uPhase1")
  /\ UNCHANGED <<muxVars, subVars, cmdCh, metaEnd, idx, callRest, envVars>>

\* Mutant: the wait does not select on loopDone.
UnsubWait_NoLoopDone(h) ==
  /\ pc[h] = "uWait"
  /\ IF awaiting[h] = {}
       THEN Go(h, Ended(h)) /\ UNCHANGED <<curCh, awaiting>>
       ELSE \E ch \in awaiting[h] :
              /\ \/ response[FirstSub(h, ch)] # "empty"
                 \/ h \in UnsubDeadlined /\ Ended(h) = "gone"
              /\ curCh' = [curCh EXCEPT ![h] = ch]
              /\ awaiting' = [awaiting EXCEPT ![h] = @ \ {ch}]
              /\ Go(h, "uRemove")
  /\ UNCHANGED <<muxVars, subVars, metaVars, idx, waitOn, ctx, toUnsub, chTodo, envVars>>

\* Phase 2: the response, the end of the loop, or the caller's context (the
\* rollback of subscribe passes context.Background()).
UnsubWait(h) ==
  /\ pc[h] = "uWait"
  /\ IF awaiting[h] = {}
       THEN Go(h, Ended(h)) /\ UNCHANGED <<curCh, awaiting>>
       ELSE \E ch \in awaiting[h] :
              /\ \/ response[FirstSub(h, ch)] # "empty"
                 \/ loopDone[pubsub[FirstSub(h, ch)]] = "closed"
                 \/ h \in UnsubDeadlined /\ Ended(h) = "gone"
              /\ curCh' = [curCh EXCEPT ![h] = ch]
              /\ awaiting' = [awaiting EXCEPT ![h] = @ \ {ch}]
              /\ Go(h, "uRemove")
  /\ UNCHANGED <<muxVars, subVars, metaVars, idx, waitOn, ctx, toUnsub, chTodo, envVars>>

\* Phase 3.
UnsubRemove(h) ==
  /\ pc[h] = "uRemove"
  /\ RemoveFromMeta(UnsubConn(h), UnsubSubs(h))
  /\ Go(h, "uWait")
  /\ UNCHANGED <<muxVars, subVars, cmdCh, metaEnd, idx, callRest, envVars>>

-----------------------------------------------------------------------------
(* The event loop of connection c *)

LoopTo(c, p) == loop' = [loop EXCEPT ![c] = p]

\* What a step of the loop leaves alone unless it says otherwise.
loopFrame == <<callVars, endVars>>

\* The command reached Redis, which registers it and confirms it in order.
LoopSends(c) ==
  /\ loop[c] = "select" /\ cmdCh[c] # <<>> /\ wire[c] = "up"
  /\ LET cmd == Head(cmdCh[c])  s == cmd.sub
     IN  /\ topics' = [topics EXCEPT ![c] =
              IF cmd.op = "subscribe" THEN @ \cup {Topic(s)} ELSE @ \ {Topic(s)}]
         /\ inbox' = [inbox EXCEPT ![c] =
              IF cmd.op = "subscribe"
                THEN Append(@, [kind |-> "confirm", channel |-> ChannelOf[s], id |-> 0])
                ELSE @]
         /\ response' = IF cmd.op = "unsubscribe" THEN [response EXCEPT ![s] = "nil"]
                                                  ELSE response
  /\ cmdCh' = [cmdCh EXCEPT ![c] = Tail(@)]
  /\ UNCHANGED <<muxVars, subVars, connState, subscriptions, pending, done, loopDone, loopVars,
                 wire, published, loopFrame, delivered>>

\* The send failed, because the caller's context is done or because the
\* connection is lost.  A SUBSCRIBE's pending entry goes first.
LoopSendFails(c) ==
  /\ loop[c] = "select" /\ cmdCh[c] # <<>>
  /\ LET cmd == Head(cmdCh[c])  s == cmd.sub
     IN  \/ /\ cmd.op = "subscribe"
            /\ \/ ctx[cmd.handle] = "done" /\ LoopTo(c, "expired")
               \/ wire[c] = "lost" /\ LoopTo(c, "rejected")
            /\ DropPending(c, ChannelOf[s])
            /\ loopSub' = [loopSub EXCEPT ![c] = s]
            /\ UNCHANGED response
         \/ /\ cmd.op = "unsubscribe" /\ wire[c] = "lost"
            /\ response' = [response EXCEPT ![s] = "err"]
            /\ LoopTo(c, "fail")
            /\ UNCHANGED <<pending, loopSub>>
  /\ cmdCh' = [cmdCh EXCEPT ![c] = Tail(@)]
  /\ UNCHANGED <<muxVars, subVars, connState, subscriptions, done, loopDone, loopTodo, loopMsg,
                 srvVars, loopFrame, delivered>>

\* setState(Failed, err); only a lost connection ends the loop.
LoopFailsSub(c) ==
  /\ loop[c] \in {"expired", "rejected"}
  /\ SetState(loopSub[c], "failed", "err")
  /\ LoopTo(c, IF loop[c] = "expired" THEN "select" ELSE "fail")
  /\ UNCHANGED <<muxVars, metaVars, loopSub, loopTodo, loopMsg, srvVars, loopFrame, delivered>>

\* msgCh is closed.
LoopLosesChannel(c) ==
  /\ loop[c] = "select" /\ wire[c] = "lost" /\ inbox[c] = <<>>
  /\ LoopTo(c, "fail")
  /\ UNCHANGED <<muxVars, subVars, metaVars, loopSub, loopTodo, loopMsg, srvVars, loopFrame,
                 delivered>>

\* Mutant: the connection keeps its state.
LoopMarksFailed_KeepsState(c) ==
  /\ loop[c] = "fail"
  /\ LoopTo(c, "snapshot")
  /\ UNCHANGED <<muxVars, subVars, metaVars, loopSub, loopTodo, loopMsg, srvVars, loopFrame,
                 delivered>>

\* meta.setState(Failed).
LoopMarksFailed(c) ==
  /\ loop[c] = "fail"
  /\ connState' = [connState EXCEPT ![c] = "failed"]
  /\ LoopTo(c, "snapshot")
  /\ UNCHANGED <<muxVars, subVars, subscriptions, pending, cmdCh, response, done, loopDone,
                 loopSub, loopTodo, loopMsg, srvVars, loopFrame, delivered>>

\* notifySubscriptionsOfFailure works on a snapshot.
LoopSnapshots(c) ==
  /\ loop[c] = "snapshot"
  /\ loopTodo' = [loopTodo EXCEPT ![c] = subscriptions[c]]
  /\ LoopTo(c, "notify")
  /\ UNCHANGED <<muxVars, subVars, metaVars, loopSub, loopMsg, srvVars, loopFrame, delivered>>

\* The signal of the failure, numbered after every message.
Signal == MaxPublish + 1

LoopNotifies(c) ==
  /\ loop[c] = "notify"
  /\ IF loopTodo[c] = {}
       THEN LoopTo(c, "drain") /\ UNCHANGED <<subVars, loopSub, loopTodo>>
       ELSE \E s \in loopTodo[c] : /\ SetState(s, "failed", "err")
                                   /\ loopTodo' = [loopTodo EXCEPT ![c] = @ \ {s}]
                                   /\ loopSub' = [loopSub EXCEPT ![c] = s]
                                   /\ LoopTo(c, "signal")
  /\ UNCHANGED <<muxVars, metaVars, loopMsg, srvVars, loopFrame, delivered>>

\* Each of the snapshot gets the signal, whatever has become of it.
LoopSignals(c) ==
  /\ loop[c] = "signal"
  /\ delivered' = [delivered EXCEPT ![loopSub[c]] = Append(@, Signal)]
  /\ LoopTo(c, "notify")
  /\ UNCHANGED <<muxVars, subVars, metaVars, loopSub, loopTodo, loopMsg, srvVars, loopFrame>>

\* handleSubscriptionConfirmation: three critical sections.
LoopReceivesConfirmation(c) ==
  /\ loop[c] = "select" /\ inbox[c] # <<>> /\ Head(inbox[c]).kind = "confirm"
  /\ inbox' = [inbox EXCEPT ![c] = Tail(@)]
  /\ LET s == pending[c][Head(inbox[c]).channel]
     IN  /\ loopSub' = [loopSub EXCEPT ![c] = s]
         /\ LoopTo(c, IF s = NoSub THEN "select" ELSE "confirm")
  /\ UNCHANGED <<muxVars, subVars, metaVars, loopTodo, loopMsg, topics, wire, published,
                 loopFrame, delivered>>

LoopConfirms(c) ==
  /\ loop[c] = "confirm"
  /\ SetState(loopSub[c], "active", "nil")
  /\ LoopTo(c, "unpend")
  /\ UNCHANGED <<muxVars, metaVars, loopSub, loopTodo, loopMsg, srvVars, loopFrame, delivered>>

LoopUnpends(c) ==
  /\ loop[c] = "unpend"
  /\ DropPending(c, ChannelOf[loopSub[c]])
  /\ LoopTo(c, "select")
  /\ UNCHANGED <<muxVars, subVars, connState, subscriptions, cmdCh, response, done, loopDone,
                 loopSub, loopTodo, loopMsg, srvVars, loopFrame, delivered>>

\* dispatchMessage: a snapshot of the channel's subscriptions, then each one
\* that is neither closed nor failed, whatever its type.
LoopReceivesMessage(c) ==
  /\ loop[c] = "select" /\ inbox[c] # <<>> /\ Head(inbox[c]).kind = "message"
  /\ inbox' = [inbox EXCEPT ![c] = Tail(@)]
  /\ loopMsg' = [loopMsg EXCEPT ![c] = Head(inbox[c]).id]
  /\ loopTodo' = [loopTodo EXCEPT ![c] =
                    OnChannel(subscriptions[c], Head(inbox[c]).channel)]
  /\ LoopTo(c, "dispatch")
  /\ UNCHANGED <<muxVars, subVars, metaVars, loopSub, topics, wire, published, loopFrame,
                 delivered>>

\* Mutant: the state of the subscription is not looked at.
LoopDispatches_IgnoresState(c) ==
  /\ loop[c] = "dispatch"
  /\ IF loopTodo[c] = {}
       THEN LoopTo(c, "select") /\ UNCHANGED <<loopSub, loopTodo>>
       ELSE \E s \in loopTodo[c] :
              /\ loopTodo' = [loopTodo EXCEPT ![c] = @ \ {s}]
              /\ loopSub' = [loopSub EXCEPT ![c] = s]
              /\ LoopTo(c, "handOver")
  /\ UNCHANGED <<muxVars, subVars, metaVars, loopMsg, srvVars, loopFrame, delivered>>

LoopDispatches(c) ==
  /\ loop[c] = "dispatch"
  /\ IF loopTodo[c] = {}
       THEN LoopTo(c, "select") /\ UNCHANGED <<loopSub, loopTodo>>
       ELSE \E s \in loopTodo[c] :
              /\ loopTodo' = [loopTodo EXCEPT ![c] = @ \ {s}]
              /\ IF state[s] \in {"closed", "failed"}
                   THEN UNCHANGED <<loop, loopSub>>
                   ELSE loopSub' = [loopSub EXCEPT ![c] = s] /\ LoopTo(c, "handOver")
  /\ UNCHANGED <<muxVars, subVars, metaVars, loopMsg, srvVars, loopFrame, delivered>>

\* Mutant: the callback is invoked twice.
LoopHandsOver_Twice(c) ==
  /\ loop[c] = "handOver"
  /\ delivered' = [delivered EXCEPT ![loopSub[c]] = @ \o <<loopMsg[c], loopMsg[c]>>]
  /\ LoopTo(c, "dispatch")
  /\ UNCHANGED <<muxVars, subVars, metaVars, loopSub, loopTodo, loopMsg, srvVars, loopFrame>>

\* invokeCallbackOrdered, although the state may have changed since it was looked at.
LoopHandsOver(c) ==
  /\ loop[c] = "handOver"
  /\ delivered' = [delivered EXCEPT ![loopSub[c]] = Append(@, loopMsg[c])]
  /\ LoopTo(c, "dispatch")
  /\ UNCHANGED <<muxVars, subVars, metaVars, loopSub, loopTodo, loopMsg, srvVars, loopFrame>>

\* Mutant: the loop waits for the connection to end, not for done.
LoopStops_OnlyIfLost(c) ==
  /\ loop[c] = "select" /\ done[c] # "open" /\ wire[c] = "lost"
  /\ LoopTo(c, "drain")
  /\ UNCHANGED <<muxVars, subVars, metaVars, loopSub, loopTodo, loopMsg, srvVars, loopFrame,
                 delivered>>

\* <-meta.done.
LoopStops(c) ==
  /\ loop[c] = "select" /\ done[c] # "open"
  /\ LoopTo(c, "drain")
  /\ UNCHANGED <<muxVars, subVars, metaVars, loopSub, loopTodo, loopMsg, srvVars, loopFrame,
                 delivered>>

\* The deferred calls: drainCmdCh answers what is queued, then loopDone closes.
LoopDrains(c) ==
  /\ loop[c] = "drain"
  /\ LET waiting == {cmdCh[c][i].sub : i \in {j \in 1..Len(cmdCh[c]) :
                                                cmdCh[c][j].op = "unsubscribe"}}
     IN  response' = [s \in Subs |-> IF s \in waiting THEN "err" ELSE response[s]]
  /\ cmdCh' = [cmdCh EXCEPT ![c] = <<>>]
  /\ LoopTo(c, "closeLoopDone")
  /\ UNCHANGED <<muxVars, subVars, connState, subscriptions, pending, done, loopDone, loopSub,
                 loopTodo, loopMsg, srvVars, loopFrame, delivered>>

LoopClosesLoopDone(c) ==
  /\ loop[c] = "closeLoopDone"
  /\ loopDone' = [loopDone EXCEPT ![c] = "closed"]
  /\ LoopTo(c, "exit")
  /\ UNCHANGED <<muxVars, subVars, connState, subscriptions, pending, cmdCh, response, done,
                 loopSub, loopTodo, loopMsg, srvVars, loopFrame, delivered>>

\* onEventLoopExit, after wg.Done: only for a failed connection.
LoopExits(c) ==
  /\ loop[c] = "exit"
  /\ LoopTo(c, IF connState[c] = "failed" THEN "retire" ELSE "ended")
  /\ UNCHANGED <<muxVars, subVars, metaVars, loopSub, loopTodo, loopMsg, srvVars, loopFrame,
                 delivered>>

\* meta.close up to wg.Wait.
CloseMeta(c) ==
  IF connState[c] = "closed"
    THEN UNCHANGED <<connState, done>>
    ELSE /\ connState' = [connState EXCEPT ![c] = "closed"]
         /\ done' = [done EXCEPT ![c] = IF @ = "open" THEN "closed" ELSE "panic"]

LoopRetires(c) ==
  /\ loop[c] = "retire"
  /\ CloseMeta(c)
  /\ LoopTo(c, "remove")
  /\ UNCHANGED <<muxVars, subVars, subscriptions, pending, cmdCh, response, loopDone, loopSub,
                 loopTodo, loopMsg, srvVars, loopFrame, delivered>>

LoopRemovesConn(c) ==
  /\ loop[c] = "remove"
  /\ inPool' = inPool \ {c}
  /\ listed' = IF c \in inPool THEN listed \ {c} ELSE listed
  /\ LoopTo(c, IF AutoResubscribe THEN "ended" ELSE "zombies")
  /\ UNCHANGED <<closed, global, subVars, metaVars, loopSub, loopTodo, loopMsg, srvVars,
                 loopFrame, delivered>>

LoopCleansZombies(c) ==
  /\ loop[c] = "zombies"
  /\ global' = global \ subscriptions[c]
  /\ LoopTo(c, "ended")
  /\ UNCHANGED <<closed, inPool, listed, subVars, metaVars, loopSub, loopTodo, loopMsg, srvVars,
                 loopFrame, delivered>>
-----------------------------------------------------------------------------
(* Close *)

\* Past wg.Done of the event loop.
LoopOver(c) == loop[c] \in {"exit", "retire", "remove", "zombies", "ended"}

closeFrame == <<loopVars, srvVars, callVars, delivered>>

CloseBegins ==
  /\ MayClose /\ closePc = "open"
  /\ closed' = TRUE
  /\ closeSubs' = global
  /\ closePc' = "subs"
  /\ UNCHANGED <<global, inPool, listed, subVars, metaVars, closeConns, closeConn, closeFrame>>

CloseMarks ==
  /\ closePc = "subs"
  /\ IF closeSubs = {}
       THEN closePc' = "pool" /\ UNCHANGED <<subVars, closeSubs>>
       ELSE \E s \in closeSubs : /\ SetState(s, "closed", "nil")
                                 /\ closeSubs' = closeSubs \ {s}
                                 /\ UNCHANGED closePc
  /\ UNCHANGED <<muxVars, metaVars, closeConns, closeConn, closeFrame>>

\* closeAll empties the pool under its lock, then closes what was listed, with its
\* metadata, one by one.
CloseTakesPool ==
  /\ closePc = "pool"
  /\ closeConns' = listed \cap inPool
  /\ inPool' = {} /\ listed' = {}
  /\ closePc' = "conns"
  /\ UNCHANGED <<closed, global, subVars, metaVars, closeSubs, closeConn, closeFrame>>

CloseConnection ==
  /\ closePc = "conns"
  /\ IF closeConns = {}
       THEN closePc' = "clear" /\ UNCHANGED <<connState, done, closeConns, closeConn>>
       ELSE \E c \in closeConns :
              /\ closeConns' = closeConns \ {c}
              /\ closeConn' = c
              /\ CloseMeta(c)
              /\ closePc' = IF connState[c] = "closed" THEN "conns" ELSE "join"
  /\ UNCHANGED <<muxVars, subVars, subscriptions, pending, cmdCh, response, loopDone, closeSubs,
                 closeFrame>>

\* wg.Wait in meta.close.
CloseJoins ==
  /\ closePc = "join" /\ LoopOver(closeConn)
  /\ closePc' = "conns"
  /\ UNCHANGED <<muxVars, subVars, metaVars, closeSubs, closeConns, closeConn, closeFrame>>

\* The worker pool and the callbacks are stopped before this (see WorkerPool
\* and CallbackSequencer).
CloseClears ==
  /\ closePc = "clear"
  /\ global' = {}
  /\ closePc' = "returned"
  /\ UNCHANGED <<closed, inPool, listed, subVars, metaVars, closeSubs, closeConns, closeConn,
                 closeFrame>>

-----------------------------------------------------------------------------
(* Redis *)

\* The connection is lost, with any part of what was on the way.
Break(c) ==
  /\ connState[c] # "none" /\ wire[c] = "up"
  /\ Cardinality({d \in Conns : wire[d] = "lost"}) < MaxBreaks
  /\ wire' = [wire EXCEPT ![c] = "lost"]
  /\ \E n \in 0..Len(inbox[c]) : inbox' = [inbox EXCEPT ![c] = SubSeq(@, 1, n)]
  /\ topics' = [topics EXCEPT ![c] = {}]
  /\ UNCHANGED <<muxVars, subVars, metaVars, loopVars, published, callVars, endVars, delivered>>

Publish(type, ch) ==
  /\ published < MaxPublish
  /\ published' = published + 1
  /\ inbox' = [c \in Conns |->
       IF <<type, ch>> \in topics[c]
         THEN Append(inbox[c], [kind |-> "message", channel |-> ch, id |-> published + 1])
         ELSE inbox[c]]
  /\ UNCHANGED <<muxVars, subVars, metaVars, loopVars, topics, wire, callVars, endVars, delivered>>

-----------------------------------------------------------------------------

CallStep(h) ==
  \/ Lookup(h) \/ Create(h) \/ List(h) \/ CreateFails(h) \/ MetadataGone(h) \/ Track(h)
  \/ Register(h) \/ SendQueues(h) \/ SendFails(h) \/ Confirm(h) \/ WaitActive(h) \/ WaitExpires(h)
  \/ CheckPending(h) \/ CheckState(h) \/ Activate(h)
  \/ SendCleanup(h) \/ Untrack(h) \/ Unregister(h) \/ Abort(h)
  \/ UnsubCheck(h) \/ UnsubCount(h) \/ UnsubUntrack(h) \/ UnsubPhase1(h) \/ UnsubQueues(h)
  \/ UnsubSendFails(h) \/ UnsubClean(h) \/ UnsubWait(h) \/ UnsubRemove(h)

LoopStep(c) ==
  \/ LoopSends(c) \/ LoopSendFails(c) \/ LoopFailsSub(c) \/ LoopLosesChannel(c)
  \/ LoopMarksFailed(c) \/ LoopSnapshots(c) \/ LoopNotifies(c) \/ LoopSignals(c)
  \/ LoopReceivesConfirmation(c) \/ LoopConfirms(c) \/ LoopUnpends(c)
  \/ LoopReceivesMessage(c) \/ LoopDispatches(c) \/ LoopHandsOver(c)
  \/ LoopStops(c) \/ LoopDrains(c) \/ LoopClosesLoopDone(c) \/ LoopExits(c) \/ LoopRetires(c)
  \/ LoopRemovesConn(c) \/ LoopCleansZombies(c)

CloseStep ==
  CloseMarks \/ CloseTakesPool \/ CloseConnection \/ CloseJoins \/ CloseClears

Next ==
  \/ \E h \in Handles : Subscribe(h) \/ Unsubscribe(h) \/ Expire(h) \/ CallStep(h)
  \/ \E c \in Conns : LoopStep(c) \/ Break(c)
  \/ CloseBegins \/ CloseStep
  \/ \E type \in Types, ch \in Channels : Publish(type, ch)

\* A step of a goroutine that is running, or a deadline that passes.
Proceed ==
  \/ \E h \in Handles : CallStep(h) \/ Expire(h)
  \/ \E c \in Conns : LoopStep(c)
  \/ CloseStep

\* The processors do not idle while a goroutine can run, and deadlines pass.  Nobody
\* has to call Subscribe, Unsubscribe or Close, no connection has to break and
\* nothing has to be published.
Fairness == WF_vars(Proceed)

Spec == Init /\ [][Next]_vars /\ Fairness

-----------------------------------------------------------------------------
(* Properties *)

UnsubPcs ==
  {"uCheck", "uCount", "uUntrack", "uPhase1", "uSend", "uClean", "uWait", "uRemove"}
ClientPcs == UnsubPcs \cup
  {"new", "lookup", "create", "list", "track", "register", "send", "confirm", "waitActive",
   "checkState", "checkPending", "activate", "dropPending", "untrack", "unregister", "abort",
   "subscribed", "failed", "gone"}
LoopPcs ==
  {"off", "select", "expired", "rejected", "fail", "snapshot", "notify", "signal", "confirm",
   "unpend", "dispatch", "handOver", "drain", "closeLoopDone", "exit", "retire", "remove",
   "zombies", "ended"}

Commands == [op : {"subscribe", "unsubscribe"}, sub : Subs, handle : Handles]
Incoming == [kind : {"confirm", "message"}, channel : Channels, id : Nat]

MuxTypes ==
  /\ closed \in BOOLEAN /\ global \subseteq Subs
  /\ inPool \subseteq Conns /\ listed \subseteq Conns
SubTypes ==
  /\ state \in [Subs -> {"none", "pending", "active", "failed", "closed"}]
  /\ confirmCh \in [Subs -> {"empty", "nil", "err"}]
  /\ doneCh \in [Subs -> {"open", "nil", "err"}]
  /\ pubsub \in [Subs -> Conns \cup {NoConn}]
MetaTypes ==
  /\ connState \in [Conns -> {"none", "active", "failed", "closed"}]
  /\ subscriptions \in [Conns -> SUBSET Subs]
  /\ pending \in [Conns -> [Channels -> Subs \cup {NoSub}]]
  /\ cmdCh \in [Conns -> Seq(Commands)] /\ \A c \in Conns : Len(cmdCh[c]) <= CmdCap
  /\ response \in [Subs -> {"empty", "nil", "err"}]
  /\ done \in [Conns -> {"open", "closed", "panic"}]
  /\ loopDone \in [Conns -> {"open", "closed"}]
LoopTypes ==
  /\ loop \in [Conns -> LoopPcs]
  /\ loopSub \in [Conns -> Subs \cup {NoSub}]
  /\ loopTodo \in [Conns -> SUBSET Subs]
  /\ loopMsg \in [Conns -> Nat]
ServerTypes ==
  /\ topics \in [Conns -> SUBSET (Types \X Channels)]
  /\ inbox \in [Conns -> Seq(Incoming)]
  /\ wire \in [Conns -> {"up", "lost"}]
  /\ published \in 0..MaxPublish
CallTypes ==
  /\ pc \in [Handles -> ClientPcs]
  /\ idx \in [Handles -> Nat \ {0}]
  /\ waitOn \in [Handles -> Subs \cup {NoSub}]
  /\ ctx \in [Handles -> {"live", "done"}]
  /\ toUnsub \in [Handles -> SUBSET Channels] /\ chTodo \in [Handles -> SUBSET Channels]
  /\ curCh \in [Handles -> Channels \cup {NoChannel}]
  /\ awaiting \in [Handles -> SUBSET Channels]
EndTypes ==
  /\ closePc \in {"open", "subs", "pool", "conns", "join", "clear", "returned"}
  /\ closeSubs \subseteq Subs /\ closeConns \subseteq Conns
  /\ closeConn \in Conns \cup {NoConn}

\* The types of the program's fields and the places each goroutine can be in;
\* no command channel holds more than its capacity (pool.go:691).
TypeOK ==
  /\ MuxTypes /\ SubTypes /\ MetaTypes /\ LoopTypes /\ ServerTypes /\ CallTypes /\ EndTypes
  /\ delivered \in [Subs -> Seq(Nat)]

\* Every entry of pendingSubscriptions belongs to a registered subscription
\* whose caller is still inside subscribeToChannel, or is about to be removed by
\* the event loop that just confirmed it (eventloop.go:196-199).  A stale entry
\* would make every later subscriber of the channel wait for nothing.
PendingHasOwner ==
  ~closed => \A c \in Conns, ch \in Channels :
    LET s == pending[c][ch]
    IN  s # NoSub =>
          /\ s \in subscriptions[c] /\ ChannelOf[s] = ch
          /\ \/ loop[c] = "unpend" /\ loopSub[c] = s
             \/ \E h \in Handles :
                  /\ pc[h] \in {"send", "confirm", "checkState", "dropPending", "untrack",
                                "unregister"}
                  /\ Cur(h) = s

\* A caller blocked on a subscription that has left Pending has its wake-up
\* waiting: the error in confirmCh for the one that sent SUBSCRIBE, the closed
\* doneCh for the ones that wait for it (subscription.go:165-190).
NoLostWakeup ==
  \A h \in Handles :
    /\ pc[h] = "confirm" /\ state[Cur(h)] # "pending" => confirmCh[Cur(h)] # "empty"
    /\ pc[h] = "waitActive" /\ state[waitOn[h]] # "pending" => doneCh[waitOn[h]] # "open"

\* The call names no channel twice.  Unsubscribe groups a handle's subscriptions
\* by channel and works on the connection of the first of each group
\* (submux.go:572-613), which need not be the others'.
DistinctChannels(h) == \A s, t \in Own(h) : ChannelOf[s] = ChannelOf[t] => s = t

\* A Subscribe that returns an error leaves none of its subscriptions behind, in
\* the global map or, if it names no channel twice, on a connection of the pool,
\* whichever of its channels failed and why (submux.go:334-343 and the error
\* paths of subscribeToChannel).
FailedLeavesNothing ==
  ~closed => \A h \in Handles : pc[h] = "failed" =>
    /\ Own(h) \cap global = {}
    /\ DistinctChannels(h) => \A c \in inPool :
         /\ Own(h) \cap subscriptions[c] = {}
         /\ \A ch \in Channels : pending[c][ch] \notin Own(h)

\* A subscription is handed each message at most once and in the order Redis
\* published them, and the signal of a lost connection once, after all of them
\* (dispatchMessage and notifySubscriptionsOfFailure work on snapshots,
\* eventloop.go:212-227, 285-308).
DeliveryInOrder ==
  \A s \in Subs : \A i, j \in DOMAIN delivered[s] : i < j => delivered[s][i] < delivered[s][j]

\* The event loop has decided to hand the subscription a message or the signal.
InHand(s) ==
  LET c == pubsub[s]
  IN  c # NoConn /\ loop[c] \in {"handOver", "signal"} /\ loopSub[c] = s

\* Once Unsubscribe has returned, the event loop takes the subscription into no
\* snapshot and decides on no further message for it, even when it is dispatching
\* from an older snapshot (eventloop.go:221-223, submux.go:585-588).  What can still
\* reach it is the one message that was decided on before, and, when the connection
\* is lost, the signal to an older snapshot, which asks for no state
\* (eventloop.go:291-306).  An Unsubscribe that finds the SubMux closed returns at
\* once and leaves the rest to Close (submux.go:493-499).
QuietAfterUnsubscribe ==
  [][\A h \in Handles : pc[h] = "gone" /\ ~closed /\ DistinctChannels(h) =>
       \A s \in Own(h) :
         LET c == pubsub[s]
         IN  /\ c # NoConn /\ s \in loopTodo'[c] => s \in loopTodo[c]
             /\ InHand(s)' => InHand(s) \/ (loop[c] = "notify" /\ s \in loopTodo[c])
             /\ delivered'[s] # delivered[s] => InHand(s)]_vars

\* A subscriber whose Subscribe returned and whose connection is up has its topic
\* registered at Redis: nothing it relies on was taken away by another caller
\* (pool.go:169-195, submux.go:500-525).
NoDeafSubscriber ==
  \A h \in Handles : pc[h] = "subscribed" =>
    \A s \in Own(h) : state[s] = "active" /\ wire[pubsub[s]] = "up"
                        => Topic(s) \in topics[pubsub[s]]

\* No name is subscribed to in two ways: the registries of a connection are keyed
\* by the name alone (pool.go:169-195).
OneTypePerName == \A s, t \in Subs : ChannelOf[s] = ChannelOf[t] => TypeOf[s] = TypeOf[t]

\* Nobody has begun to unsubscribe, to roll back or to close, and no deadline has
\* passed.  (One that passes drops the pending entry before the subscription, and
\* whoever registers in between is told that the channel is active.)
Undisturbed ==
  /\ OneTypePerName /\ ~closed
  /\ \A h \in Handles : /\ ctx[h] = "live" /\ pc[h] \notin UnsubPcs \cup {"gone"}
                        /\ pc[h] = "failed" => idx[h] = 1

\* A Subscribe returns success only once Redis has the topic, whoever of the
\* concurrent subscribers of the channel sent SUBSCRIBE and whatever connections
\* are lost, as long as nobody takes anything away (pool.go:180-195,
\* submux.go:396-475).
ConfirmedBeforeReturn == Undisturbed => NoDeafSubscriber

\* When no call is running and no command is queued, Redis has no topic for a
\* connection that no subscription wants (submux.go:592-594).
NoOrphan ==
  (\A h \in Handles : ~InCall(h)) =>
    \A c \in inPool : wire[c] = "up" /\ cmdCh[c] = <<>>
      => topics[c] \subseteq {Topic(s) : s \in subscriptions[c]}

\* What Redis has for a connection and what its subscribers rely on are the same:
\* nobody is deaf and nothing is orphaned.
TopicsMatchSubscribers == NoDeafSubscriber /\ NoOrphan

\* The done channel of a connection is closed once, by Close or by the cleanup of
\* a failed connection (pool.go:299-323, 703-712).
\* Closing it again is a panic that ends the process: what the model does after
\* that is not the program's.
ClosedOnce == \A c \in Conns : done[c] # "panic"

\* Unsubscribe returns: what it queued is executed, answered by the drain of a
\* dying event loop, or given up when the loop is gone (submux.go:620-654).
UnsubscribeReturns ==
  \A h \in Handles : pc[h] = "uCheck" ~> pc[h] \in {"gone", "failed"}

\* A Subscribe with a deadline returns, whatever its connection and the other
\* callers do (submux.go:354-476).  One without may wait forever for a first
\* subscriber whose context ended (submux.go:445-458).
SubscribeReturns ==
  \A h \in Deadlined : pc[h] = "lookup" ~> pc[h] \in {"subscribed", "failed"}

\* A lost connection leaves the pool's metadata for good, so that no lookup chooses it
\* again and whoever has chosen it is told (eventloop.go:71-80, pool.go:703-712, 529-560).
\* Its place on the pool's lists is another matter: a connection that is lost before its
\* caller lists it (pool.go:521-524) stays there, without metadata.
LostConnLeavesPool ==
  []<>(\A c \in Conns : wire[c] = "lost" => c \notin inPool)

\* Close returns (submux.go:707-754).
CloseReturns == closed ~> closePc = "returned"

=============================================================================
