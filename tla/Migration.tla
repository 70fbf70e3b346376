------------------------------ MODULE Migration ------------------------------
(***************************************************************************)
(* The migration goroutines of topologyMonitor for one hashslot            *)
(* (resubscribeOnNewNodeWithMonitoring, resubscribeOnNewNode): how they    *)
(* move the subscriptions to a connection to the new owner, or give failed *)
(* ones a new connection, while event loops confirm, time out and die, and *)
(* while later migrations cancel and replace them.                         *)
(*                                                                         *)
(* The refresh that launches a migration is one step here; its own steps   *)
(* are in TopologyMonitor.  Choosing a connection is one step; the ones of *)
(* the pool are in ConnPool.  The subscriptions were made earlier and are  *)
(* not unsubscribed meanwhile; that is in SubMux.  autoResubscribe is on.  *)
(***************************************************************************)
EXTENDS Integers, FiniteSets, Sequences, SequencesExt

CONSTANTS
  Subs, Channels, ChannelOf,
  Starts,         \* the sets of subscriptions there may be; the others have been unsubscribed
  Nodes, Conns, Handles,
  MaxEvents,      \* bound on the changes, losses, delays, errors and redirects
  NoSub, NoConn, NoNode, NoHandle

ASSUME MigrationAssumption ==
  /\ ChannelOf \in [Subs -> Channels] /\ Starts \subseteq SUBSET Subs
  /\ MaxEvents \in Nat
  /\ NoSub \notin Subs /\ NoConn \notin Conns /\ NoNode \notin Nodes /\ NoHandle \notin Handles

VARIABLES
  owner,                       \* of the hashslot, in currentState
  \* the subscriptions
  made,                        \* those that have not been unsubscribed
  state, pubsub, confirmCh,
  \* the connections
  conn,                        \* "none" (not in the pool), "active", "failed" or "notifying"
  nodeOf, subscriptions, pending, cmds,
  topics,                      \* the channels that Redis has for the connection
  replies,                     \* confirmations on their way
  toNotify,                    \* what is left of notifySubscriptionsOfFailure
  \* the migrations
  active,                      \* activeMigrations, for this hashslot
  pc, subs, todo, sub, old, dest,
  ctx,                         \* "live", "cancelled" or "expired"
  late,                        \* migrationTimeout has passed
  sender,                      \* the goroutines that send and wait, by subscription
  processed,                   \* processedCount, as the set of what was counted
  watcher,                     \* the progress goroutine: "on", "off", or "told" (signal sent)
  \* bounds and history
  events,                      \* how many of them so far
  cut                          \* a migration was overtaken by a change, a loss or a timeout

subVars  == <<state, pubsub, confirmCh>>
connVars == <<conn, nodeOf, subscriptions, pending, cmds, topics, replies, toNotify>>
goVars   == <<active, pc, subs, todo, sub, old, dest, ctx, late, sender, processed, watcher>>
vars == <<owner, made, subVars, connVars, goVars, events, cut>>

\* The subscriptions are active on one connection to the owner.
Init ==
  \E n \in Nodes, c \in Conns :
    /\ made \in Starts
    /\ n = CHOOSE x \in Nodes : TRUE
    /\ c = CHOOSE x \in Conns : TRUE
    /\ owner = n
    /\ state = [s \in Subs |-> IF s \in made THEN "active" ELSE "closed"]
    /\ pubsub = [s \in Subs |-> c]
    /\ confirmCh = [s \in Subs |-> "empty"]
    /\ conn = [x \in Conns |-> IF x = c THEN "active" ELSE "none"]
    /\ nodeOf = [x \in Conns |-> IF x = c THEN n ELSE NoNode]
    /\ subscriptions = [x \in Conns |-> IF x = c THEN made ELSE {}]
    /\ pending = [x \in Conns |-> [ch \in Channels |-> NoSub]]
    /\ cmds = [x \in Conns |-> <<>>]
    /\ topics = [x \in Conns |-> IF x = c THEN {ChannelOf[s] : s \in made} ELSE {}]
    /\ replies = [x \in Conns |-> <<>>] /\ toNotify = [x \in Conns |-> {}]
    /\ active = NoHandle /\ pc = [h \in Handles |-> "free"]
    /\ subs = [h \in Handles |-> {}] /\ todo = [h \in Handles |-> {}]
    /\ sub = [h \in Handles |-> NoSub] /\ old = [h \in Handles |-> NoConn]
    /\ dest = [h \in Handles |-> [s \in Subs |-> NoConn]]
    /\ ctx = [h \in Handles |-> "live"] /\ late = [h \in Handles |-> FALSE]
    /\ sender = [h \in Handles |-> [s \in Subs |-> "none"]]
    /\ processed = [h \in Handles |-> {}]
    /\ watcher = [h \in Handles |-> "off"]
    /\ events = 0 /\ cut = FALSE

-----------------------------------------------------------------------------
(* Subscriptions and metadata *)

\* setState; leaving or re-entering Pending puts a value in confirmCh unless one
\* is there.
SetState(s, new, val) ==
  /\ state' = [state EXCEPT ![s] = new]
  /\ confirmCh' = [confirmCh EXCEPT ![s] = IF state[s] = "pending" /\ @ = "empty" THEN val ELSE @]

\* resetConfirmation drains confirmCh; setState(Pending) fills it again if the
\* subscription was pending already.
ResetToPending(s) ==
  /\ state' = [state EXCEPT ![s] = "pending"]
  /\ confirmCh' = [confirmCh EXCEPT ![s] = IF state[s] = "pending" THEN "ok" ELSE "empty"]

OnChannel(c, ch) == {s \in subscriptions[c] : ChannelOf[s] = ch}

\* removeSubscription
RemoveSubscription(c, s) ==
  /\ subscriptions' = [subscriptions EXCEPT ![c] = @ \ {s}]
  /\ pending' = [pending EXCEPT ![c][ChannelOf[s]] = IF @ = s THEN NoSub ELSE @]

-----------------------------------------------------------------------------
(* The refreshes that launch migrations *)

\* Something that need not happen.
Event == events < MaxEvents /\ events' = events + 1

Go(h, p) == pc' = [pc EXCEPT ![h] = p]

Busy(h) == pc[h] # "free"

\* The goroutines and the commands of the handle are all gone.
Unused(h) ==
  /\ ~Busy(h) /\ watcher[h] # "on"
  /\ \A c \in Conns : \A i \in 1..Len(cmds[c]) : cmds[c][i][1] # h

\* Launch a migration of the subscriptions in place of the active one.
Launch(what) ==
  LET h == CHOOSE x \in Handles : Unused(x)
  IN  /\ \E x \in Handles : Unused(x)
      /\ active' = h
      /\ Go(h, "get")
      /\ subs' = [subs EXCEPT ![h] = what] /\ todo' = [todo EXCEPT ![h] = what]
      /\ ctx' = [x \in Handles |-> CASE x = h -> "live"
                                     [] x = active /\ ctx[x] = "live" -> "cancelled"
                                     [] OTHER -> ctx[x]]
      /\ watcher' = [watcher EXCEPT ![h] = "on"]
      /\ UNCHANGED <<sub, old, dest, late, sender, processed>>

Lost(c) == conn[c] \in {"failed", "notifying"}

\* What happens now happens in the middle of something else.
Overtaken == (\E h \in Handles : Busy(h)) \/ \E c \in Conns : Lost(c)

\* A refresh finds the hashslot on another node.
HandleMigration(n) ==
  LET affected == {s \in Subs : state[s] \in {"active", "pending"}}
  IN  /\ Event /\ n # owner
      /\ owner' = n /\ cut' = (cut \/ Overtaken)
      /\ IF affected # {} THEN Launch(affected) ELSE UNCHANGED goVars
      /\ UNCHANGED <<made, subVars, connVars>>

FailedSubs == {s \in Subs : state[s] = "failed"}

\* Mutant: only when all have failed.
RecoverFailed_AllOnly ==
  /\ FailedSubs = Subs
  /\ Launch(FailedSubs) /\ cut' = (cut \/ Overtaken)
  /\ UNCHANGED <<owner, made, subVars, connVars>>

\* recoverFailedSubscriptions
RecoverFailed ==
  /\ FailedSubs # {}
  /\ Launch(FailedSubs) /\ cut' = (cut \/ Overtaken)
  /\ UNCHANGED <<owner, made, subVars, connVars>>

\* Nothing runs: at most, a goroutine waits for a confirmation.
AtRest ==
  /\ \A h \in Handles :
       \/ pc[h] = "free"
       \/ pc[h] = "join" /\ ctx[h] = "live" /\ \E s \in Subs : sender[h][s] = "wait"
  /\ \A h \in Handles, s \in Subs :
       sender[h][s] # "none" => sender[h][s] = "wait" /\ confirmCh[s] = "empty"
  /\ \A c \in Conns : cmds[c] = <<>> /\ replies[c] = <<>> /\ ~Lost(c)

\* The monitor polls.  The interval is long: everything that can run has run when it
\* ends, unless one of the events prevents it.
Poll == AtRest /\ RecoverFailed /\ UNCHANGED events

\* A refresh at any other time: a redirect, or a poll that comes early.
Redirect ==
  /\ Event
  /\ RecoverFailed

-----------------------------------------------------------------------------
(* resubscribeOnNewNode *)

\* What getPubSubForHashslot returns: a connection to the owner that is in use, or
\* else a new one.
Gettable ==
  LET used == {c \in Conns : conn[c] = "active" /\ nodeOf[c] = owner}
      new  == {c \in Conns : /\ conn[c] = "none"
                             /\ \A s \in Subs : pubsub[s] # c
                             /\ \A h \in Handles : old[h] # c /\ \A s \in Subs : dest[h][s] # c}
  IN  IF used # {} THEN used ELSE IF new = {} THEN {} ELSE {CHOOSE c \in new : TRUE}

Open(c) ==
  IF conn[c] = "active" THEN UNCHANGED <<conn, nodeOf, subscriptions, pending>>
  ELSE /\ conn' = [conn EXCEPT ![c] = "active"] /\ nodeOf' = [nodeOf EXCEPT ![c] = owner]
       /\ subscriptions' = [subscriptions EXCEPT ![c] = {}]
       /\ pending' = [pending EXCEPT ![c] = [ch \in Channels |-> NoSub]]

\* channelsByType: the subscriptions of a channel that are to be moved.
Group(h, ch) == {s \in todo[h] : ChannelOf[s] = ch}

\* A channel is left and the context is live: getPubSubForHashslot is called, and may
\* dial.  Which channel it is does not matter before it returns.
NextChannel(h) ==
  /\ pc[h] = "get" /\ todo[h] # {} /\ ctx[h] = "live"
  /\ Go(h, "dial")
  /\ UNCHANGED <<owner, made, subVars, connVars, active, subs, todo, sub, old, dest, ctx, late, sender,
                 processed, watcher, events, cut>>

\* It returns a connection, for all the subscriptions of the channel.
GetPubSub(h, ch) ==
  /\ pc[h] = "dial" /\ Group(h, ch) # {}
  /\ \E c \in Gettable :
       /\ Open(c)
       /\ dest' = [dest EXCEPT ![h] = [s \in Subs |-> IF s \in Group(h, ch) THEN c ELSE @[s]]]
  /\ Go(h, "take")
  /\ UNCHANGED <<owner, made, subVars, cmds, topics, replies, toNotify, active, subs, todo, sub, old,
                 ctx, late, sender, processed, watcher, events, cut>>

\* The context is done: the channel is skipped, its subscriptions left as they are.
SkipChannel(h, ch) ==
  /\ pc[h] = "get" /\ Group(h, ch) # {} /\ ctx[h] # "live"
  /\ todo' = [todo EXCEPT ![h] = @ \ Group(h, ch)]
  /\ processed' = [processed EXCEPT ![h] = @ \cup Group(h, ch)]
  /\ UNCHANGED <<owner, made, subVars, connVars, active, pc, subs, sub, old, dest, ctx, late, sender,
                 watcher, events, cut>>

\* No node is known for the hashslot at the moment: likewise.
GetFails(h, ch) ==
  /\ pc[h] = "dial" /\ Group(h, ch) # {} /\ ctx[h] = "live"
  /\ Event /\ cut' = TRUE
  /\ todo' = [todo EXCEPT ![h] = @ \ Group(h, ch)]
  /\ processed' = [processed EXCEPT ![h] = @ \cup Group(h, ch)]
  /\ Go(h, "get")
  /\ UNCHANGED <<owner, made, subVars, connVars, active, subs, sub, old, dest, ctx, late, sender,
                 watcher>>

\* The context is done by the time getPubSubForHashslot returns an error: the channel is
\* counted and the loops end there, the channels that are left neither moved nor counted.
GetAborted(h, ch) ==
  /\ pc[h] = "dial" /\ Group(h, ch) # {} /\ ctx[h] # "live"
  /\ todo' = [todo EXCEPT ![h] = {}]
  /\ processed' = [processed EXCEPT ![h] = @ \cup Group(h, ch)]
  /\ Go(h, "join")
  /\ UNCHANGED <<owner, made, subVars, connVars, active, subs, sub, old, dest, ctx, late, sender,
                 watcher, events, cut>>

\* The loops are over; the goroutine waits for its senders.
AllStarted(h) ==
  /\ pc[h] = "get" /\ todo[h] = {}
  /\ Go(h, "join")
  /\ UNCHANGED <<owner, made, subVars, connVars, active, subs, todo, sub, old, dest, ctx, late, sender,
                 processed, watcher, events, cut>>

\* The next subscription of the channel leaves the connection it is on.
Take(h, s) ==
  LET c == pubsub[s]
  IN  /\ pc[h] = "take" /\ s \in todo[h] /\ dest[h][s] # NoConn
      /\ sub' = [sub EXCEPT ![h] = s] /\ todo' = [todo EXCEPT ![h] = @ \ {s}]
      /\ IF conn[c] # "none"
           THEN /\ RemoveSubscription(c, s)
                /\ old' = [old EXCEPT ![h] = c] /\ Go(h, "mark")
           ELSE Go(h, "move") /\ UNCHANGED <<subscriptions, pending, old>>
      /\ UNCHANGED <<owner, made, subVars, conn, nodeOf, cmds, topics, replies, toNotify, active, subs,
                     dest, ctx, late, sender, processed, watcher, events, cut>>

\* Closed for the time of the move, if the old connection is still active.
Mark(h) ==
  /\ pc[h] = "mark"
  /\ IF conn[old[h]] = "active" THEN SetState(sub[h], "closed", "ok")
                                ELSE UNCHANGED <<state, confirmCh>>
  /\ old' = [old EXCEPT ![h] = NoConn]
  /\ Go(h, "move")
  /\ UNCHANGED <<owner, made, pubsub, connVars, active, subs, todo, sub, dest, ctx, late, sender,
                 processed, watcher, events, cut>>

\* What comes after a subscription.
NextSub(h) == IF \E s \in todo[h] : dest[h][s] # NoConn THEN "take" ELSE "get"

\* setPubSub and addSubscription, unless the new connection has left the pool.
Move(h) ==
  LET s == sub[h]
      c == dest[h][s]
  IN  /\ pc[h] = "move"
      /\ pubsub' = [pubsub EXCEPT ![s] = c]
      /\ IF conn[c] # "none"
           THEN /\ subscriptions' = [subscriptions EXCEPT ![c] = @ \cup {s}]
                /\ Go(h, "decide") /\ UNCHANGED <<sub, processed>>
           ELSE /\ processed' = [processed EXCEPT ![h] = @ \cup {s}]
                /\ sub' = [sub EXCEPT ![h] = NoSub]
                /\ Go(h, NextSub(h)) /\ UNCHANGED subscriptions
      /\ UNCHANGED <<owner, made, state, confirmCh, conn, nodeOf, pending, cmds, topics, replies,
                     toNotify, active, subs, todo, old, dest, ctx, late, sender, watcher, events, cut>>

\* Mutant: counts as if the subscription had not been added yet.
IsFirst_CountsOthers(h) == OnChannel(dest[h][sub[h]], ChannelOf[sub[h]]) = {}

\* isFirstOnNewPubSub
IsFirst(h) == OnChannel(dest[h][sub[h]], ChannelOf[sub[h]]) = {sub[h]}

\* The first on the connection sends SUBSCRIBE from a goroutine of its own, unless
\* the context is done; the others are active at once.
Decide(h) ==
  LET s == sub[h]
      c == dest[h][s]
  IN  /\ pc[h] = "decide"
      /\ Go(h, NextSub(h)) /\ sub' = [sub EXCEPT ![h] = NoSub]
      /\ \/ /\ IsFirst(h) /\ ctx[h] = "live"
            /\ ResetToPending(s)
            /\ pending' = [pending EXCEPT ![c][ChannelOf[s]] = s]
            /\ sender' = [sender EXCEPT ![h][s] = "send"]
            /\ UNCHANGED processed
         \/ /\ IsFirst(h) /\ ctx[h] # "live"
            /\ processed' = [processed EXCEPT ![h] = @ \cup {s}]
            /\ UNCHANGED <<state, confirmCh, pending, sender>>
         \/ /\ ~IsFirst(h)
            /\ SetState(s, "active", "ok")
            /\ processed' = [processed EXCEPT ![h] = @ \cup {s}]
            /\ UNCHANGED <<pending, sender>>
      /\ UNCHANGED <<owner, made, pubsub, conn, nodeOf, subscriptions, cmds, topics, replies, toNotify,
                     active, subs, todo, old, dest, ctx, late, watcher, events, cut>>

-----------------------------------------------------------------------------
(* The goroutine that sends SUBSCRIBE and waits for the confirmation *)

\* The migration's context, or the ten seconds of the command.
CtxDone(h, s) == ctx[h] # "live" \/ sender[h][s] \in {"timeout", "none"}

\* processedCount and wg, and the context of the command.
SenderEnds(h, s) ==
  /\ sender' = [sender EXCEPT ![h][s] = "none"]
  /\ processed' = [processed EXCEPT ![h] = @ \cup {s}]

\* The command is queued; nobody takes it from the queue of a lost connection.
SendCommand(h, s) ==
  LET c == dest[h][s]
  IN  /\ sender[h][s] = "send"
      /\ cmds' = [cmds EXCEPT ![c] = IF conn[c] = "active" THEN Append(@, <<h, s>>) ELSE @]
      /\ sender' = [sender EXCEPT ![h][s] = "wait"]
      /\ UNCHANGED <<owner, made, subVars, conn, nodeOf, subscriptions, pending, topics, replies,
                     toNotify, active, pc, subs, todo, sub, old, dest, ctx, late, processed,
                     watcher, events, cut>>

\* The event loop of the connection has returned.
LoopDone(c) == conn[c] \in {"none", "notifying"} /\ toNotify[c] = {}

\* The event loop has stopped, or the context is done.
SendFails(h, s) ==
  LET c == dest[h][s]
  IN  /\ sender[h][s] = "send" /\ (LoopDone(c) \/ ctx[h] # "live")
      /\ pending' = [pending EXCEPT ![c][ChannelOf[s]] = NoSub]
      /\ SetState(s, "failed", "err")
      /\ SenderEnds(h, s)
      /\ UNCHANGED <<owner, made, pubsub, conn, nodeOf, subscriptions, cmds, topics, replies,
                     toNotify, active, pc, subs, todo, sub, old, dest, ctx, late, watcher, events, cut>>

\* waitForConfirmation takes the value, whoever it was meant for.
Confirmed(h, s) ==
  /\ sender[h][s] \in {"wait", "timeout"} /\ confirmCh[s] # "empty"
  /\ IF confirmCh[s] = "err"
       THEN /\ state' = [state EXCEPT ![s] = "failed"]
            /\ confirmCh' = [confirmCh EXCEPT ![s] = IF state[s] = "pending" THEN "err" ELSE "empty"]
       ELSE confirmCh' = [confirmCh EXCEPT ![s] = "empty"] /\ UNCHANGED state
  /\ SenderEnds(h, s)
  /\ UNCHANGED <<owner, made, pubsub, connVars, active, pc, subs, todo, sub, old, dest, ctx, late,
                 watcher, events, cut>>

\* No confirmation of the subscription has come or is on its way.
Hopeless(h, s) ==
  LET c == dest[h][s]
  IN  /\ confirmCh[s] = "empty" /\ ~Contains(cmds[c], <<h, s>>)
      /\ ~Contains(replies[c], ChannelOf[s]) \/ pending[c][ChannelOf[s]] # s

\* The ten seconds pass when nothing comes ...
CommandTimeout(h, s) ==
  /\ sender[h][s] = "wait" /\ Hopeless(h, s)
  /\ sender' = [sender EXCEPT ![h][s] = "timeout"]
  /\ UNCHANGED <<owner, made, subVars, connVars, active, pc, subs, todo, sub, old, dest, ctx, late,
                 processed, watcher, events, cut>>

\* ... and, sometimes, before it comes.
SlowCommand(h, s) ==
  /\ sender[h][s] = "wait" /\ ~Hopeless(h, s)
  /\ Event /\ cut' = TRUE
  /\ sender' = [sender EXCEPT ![h][s] = "timeout"]
  /\ UNCHANGED <<owner, made, subVars, connVars, active, pc, subs, todo, sub, old, dest, ctx, late,
                 processed, watcher>>

\* The context is done; the confirmation may have come as well.
GivesUp(h, s) ==
  /\ sender[h][s] \in {"wait", "timeout"} /\ CtxDone(h, s)
  /\ SetState(s, "failed", "err")
  /\ SenderEnds(h, s)
  /\ UNCHANGED <<owner, made, pubsub, connVars, active, pc, subs, todo, sub, old, dest, ctx, late,
                 watcher, events, cut>>

-----------------------------------------------------------------------------
(* resubscribeOnNewNodeWithMonitoring *)

\* migrationTimeout passes.
TimePasses(h) ==
  /\ watcher[h] = "on" /\ ~late[h] /\ Event
  /\ late' = [late EXCEPT ![h] = TRUE]
  /\ UNCHANGED <<owner, made, subVars, connVars, active, pc, subs, todo, sub, old, dest, ctx, sender,
                 processed, watcher, cut>>

\* The deadline of the context is later than that.
Expire(h) ==
  /\ Busy(h) /\ late[h] /\ ctx[h] = "live"
  /\ ctx' = [ctx EXCEPT ![h] = "expired"] /\ cut' = TRUE
  /\ UNCHANGED <<owner, made, subVars, connVars, active, pc, subs, todo, sub, old, dest, late, sender,
                 processed, watcher, events>>

\* When both of its goroutines have ended nothing is left of a migration.
Clear(h) ==
  /\ subs' = [subs EXCEPT ![h] = {}] /\ processed' = [processed EXCEPT ![h] = {}]
  /\ ctx' = [ctx EXCEPT ![h] = "live"] /\ late' = [late EXCEPT ![h] = FALSE]

\* Mutant: the progress goroutine does not stay for the final check.
Tick_AllProcessed(h) ==
  /\ watcher[h] = "on" /\ Busy(h) /\ late[h]
  /\ watcher' = [watcher EXCEPT ![h] = IF processed[h] = subs[h] THEN "off" ELSE "told"]
  /\ UNCHANGED <<owner, made, subVars, connVars, active, pc, subs, todo, sub, old, dest, ctx, late,
                 sender, processed, events, cut>>

\* A tick of the progress goroutine that finds the migration late, or stalled, with
\* something left to process: the signal is sent and the goroutine ends.
Tick(h) ==
  /\ watcher[h] = "on" /\ Busy(h) /\ late[h] /\ processed[h] # subs[h]
  /\ watcher' = [watcher EXCEPT ![h] = "told"]
  /\ UNCHANGED <<owner, made, subVars, connVars, active, pc, subs, todo, sub, old, dest, ctx, late,
                 sender, processed, events, cut>>

\* The senders have ended: doneCh is closed, and activeMigrations updated.  The
\* progress goroutine of a migration that was in time has nothing to send.
Join(h) ==
  /\ pc[h] = "join" /\ \A s \in Subs : sender[h][s] = "none"
  /\ Go(h, "free")
  /\ active' = IF active = h THEN NoHandle ELSE active
  /\ dest' = [dest EXCEPT ![h] = [s \in Subs |-> NoConn]]
  /\ IF watcher[h] = "on" /\ late[h] THEN UNCHANGED <<subs, processed, ctx, late, watcher>>
     ELSE Clear(h) /\ watcher' = [watcher EXCEPT ![h] = "off"]
  /\ UNCHANGED <<owner, made, subVars, connVars, todo, sub, old, sender, events, cut>>

\* doneCh is closed: the signal is sent if a subscription is not active and the
\* migration was late or stalled.
FinalCheck(h) ==
  LET anyFailed == \E s \in subs[h] : state[s] # "active"
  IN  /\ watcher[h] = "on" /\ ~Busy(h)
      /\ watcher' = [watcher EXCEPT ![h] = IF anyFailed THEN "told" ELSE "off"]
      /\ Clear(h)
      /\ UNCHANGED <<owner, made, subVars, connVars, active, pc, todo, sub, old, dest, sender, events,
                     cut>>

-----------------------------------------------------------------------------
(* The event loop of a connection *)

\* The command reaches Redis, also with a context that is done ...
Execute(c) ==
  /\ conn[c] = "active" /\ cmds[c] # <<>>
  /\ LET ch == ChannelOf[Head(cmds[c])[2]]
     IN  /\ topics' = [topics EXCEPT ![c] = @ \cup {ch}]
         /\ replies' = [replies EXCEPT ![c] = Append(@, ch)]
  /\ cmds' = [cmds EXCEPT ![c] = Tail(@)]
  /\ UNCHANGED <<owner, made, subVars, conn, nodeOf, subscriptions, pending, toNotify, goVars, events, cut>>

\* ... or fails because of it, which is not an error of the connection.
ExecuteFails(c) ==
  /\ conn[c] = "active" /\ cmds[c] # <<>>
  /\ LET h == Head(cmds[c])[1]
         s == Head(cmds[c])[2]
     IN  /\ CtxDone(h, s)
         /\ pending' = [pending EXCEPT ![c][ChannelOf[s]] = NoSub]
         /\ SetState(s, "failed", "err")
  /\ cmds' = [cmds EXCEPT ![c] = Tail(@)]
  /\ UNCHANGED <<owner, made, pubsub, conn, nodeOf, subscriptions, topics, replies, toNotify, goVars,
                 events, cut>>

\* handleSubscriptionConfirmation; its own steps are in SubMux.
Confirm(c) ==
  /\ conn[c] = "active" /\ replies[c] # <<>>
  /\ LET ch == Head(replies[c])
         s  == pending[c][ch]
     IN  IF s # NoSub THEN /\ SetState(s, "active", "ok")
                           /\ pending' = [pending EXCEPT ![c][ch] = NoSub]
                      ELSE UNCHANGED <<state, confirmCh, pending>>
  /\ replies' = [replies EXCEPT ![c] = Tail(@)]
  /\ UNCHANGED <<owner, made, pubsub, conn, nodeOf, subscriptions, cmds, topics, toNotify, goVars,
                 events, cut>>

\* setState(connStateFailed); the commands that are queued are drained.
Fail(c) ==
  /\ conn' = [conn EXCEPT ![c] = "failed"]
  /\ cmds' = [cmds EXCEPT ![c] = <<>>] /\ replies' = [replies EXCEPT ![c] = <<>>]
  /\ topics' = [topics EXCEPT ![c] = {}] /\ cut' = (cut \/ Overtaken)

\* The connection is lost ...
Break(c) ==
  /\ conn[c] = "active" /\ Event /\ Fail(c)
  /\ UNCHANGED <<owner, made, subVars, nodeOf, subscriptions, pending, toNotify, goVars>>

\* ... or an error shows it when a command is sent.
ExecuteBreaks(c) ==
  /\ conn[c] = "active" /\ cmds[c] # <<>> /\ Event /\ Fail(c)
  /\ LET s == Head(cmds[c])[2]
     IN  /\ pending' = [pending EXCEPT ![c][ChannelOf[s]] = NoSub]
         /\ SetState(s, "failed", "err")
  /\ UNCHANGED <<owner, made, pubsub, nodeOf, subscriptions, toNotify, goVars>>

\* notifySubscriptionsOfFailure goes by a copy of the list.
Snapshot(c) ==
  /\ conn[c] = "failed"
  /\ conn' = [conn EXCEPT ![c] = "notifying"]
  /\ toNotify' = [toNotify EXCEPT ![c] = subscriptions[c]]
  /\ UNCHANGED <<owner, made, subVars, nodeOf, subscriptions, pending, cmds, topics, replies, goVars,
                 events, cut>>

Notify(c, s) ==
  /\ s \in toNotify[c]
  /\ SetState(s, "failed", "err")
  /\ toNotify' = [toNotify EXCEPT ![c] = @ \ {s}]
  /\ UNCHANGED <<owner, made, pubsub, conn, nodeOf, subscriptions, pending, cmds, topics, replies,
                 goVars, events, cut>>

\* onEventLoopExit: the connection leaves the pool.  Its metadata stay for the
\* migrations that hold them.
Leave(c) ==
  LET held == \E h \in Handles, s \in Subs : dest[h][s] = c
  IN  /\ conn[c] = "notifying" /\ toNotify[c] = {}
      /\ conn' = [conn EXCEPT ![c] = "none"] /\ nodeOf' = [nodeOf EXCEPT ![c] = NoNode]
      /\ subscriptions' = [subscriptions EXCEPT ![c] = IF held THEN @ ELSE {}]
      /\ pending' = [pending EXCEPT ![c] = IF held THEN @ ELSE [ch \in Channels |-> NoSub]]
      /\ UNCHANGED <<owner, made, subVars, cmds, topics, replies, toNotify, goVars, events, cut>>

-----------------------------------------------------------------------------
Run(h) ==
  \/ NextChannel(h)
  \/ \E ch \in Channels : GetPubSub(h, ch) \/ SkipChannel(h, ch) \/ GetAborted(h, ch)
  \/ AllStarted(h) \/ \E s \in Subs : Take(h, s)
  \/ Mark(h) \/ Move(h) \/ Decide(h) \/ Join(h)

Send(h, s) ==
  \/ SendCommand(h, s) \/ SendFails(h, s) \/ Confirmed(h, s)
  \/ CommandTimeout(h, s) \/ GivesUp(h, s)

Watch(h) == Tick(h) \/ FinalCheck(h)

Loop(c) ==
  \/ Execute(c) \/ ExecuteFails(c) \/ Confirm(c)
  \/ Snapshot(c) \/ (\E s \in Subs : Notify(c, s)) \/ Leave(c)

System ==
  \/ Poll
  \/ \E h \in Handles : Run(h) \/ Watch(h)
  \/ \E h \in Handles, s \in Subs : Send(h, s)
  \/ \E c \in Conns : Loop(c)

\* The events, bounded by MaxEvents, and the context that expires after one.
Environment ==
  \/ \E n \in Nodes : HandleMigration(n)
  \/ Redirect
  \/ \E h \in Handles : TimePasses(h) \/ Expire(h)
  \/ \E h \in Handles, ch \in Channels : GetFails(h, ch)
  \/ \E h \in Handles, s \in Subs : SlowCommand(h, s)
  \/ \E c \in Conns : Break(c) \/ ExecuteBreaks(c)

Next == System \/ Environment

\* Goroutines and event loops run, the monitor polls, and a timeout comes when
\* nothing else does.  The events need not happen.
Fairness == WF_vars(System)

Spec == Init /\ [][Next]_vars /\ Fairness

-----------------------------------------------------------------------------
(* Properties *)

\* What the migration has still to count.
Left(h) == todo[h] \cup {s \in Subs : sender[h][s] # "none"} \cup ({sub[h]} \ {NoSub})

\* No subscription of a migration is counted in processedCount twice, whichever path it
\* takes (topology.go:902, 914, 920, 949, 968, 984, 1014): until it is counted it is in one
\* place only, to be taken, in hand or with a sender.  While the context is live none is
\* forgotten either; the return at topology.go:915 leaves the other channels uncounted.
Counted ==
  \A h \in Handles :
    /\ processed[h] \cup Left(h) \subseteq subs[h] /\ processed[h] \cap Left(h) = {}
    /\ ctx[h] = "live" => subs[h] = processed[h] \cup Left(h)
    /\ sub[h] \notin todo[h] /\ \A s \in Subs : sender[h][s] # "none" => s \notin todo[h] \cup {sub[h]}

\* The variables have their types, and processedCount is the number of those counted,
\* so that it never passes totalSubs (topology.go:839).
TypeOK ==
  /\ owner \in Nodes /\ made \subseteq Subs
  /\ state \in [Subs -> {"pending", "active", "failed", "closed"}]
  /\ pubsub \in [Subs -> Conns] /\ confirmCh \in [Subs -> {"empty", "ok", "err"}]
  /\ conn \in [Conns -> {"none", "active", "failed", "notifying"}]
  /\ nodeOf \in [Conns -> Nodes \cup {NoNode}]
  /\ subscriptions \in [Conns -> SUBSET Subs]
  /\ pending \in [Conns -> [Channels -> Subs \cup {NoSub}]]
  /\ DOMAIN cmds = Conns /\ \A c \in Conns : cmds[c] \in Seq(Handles \X Subs)
  /\ DOMAIN replies = Conns /\ \A c \in Conns : replies[c] \in Seq(Channels)
  /\ topics \in [Conns -> SUBSET Channels] /\ toNotify \in [Conns -> SUBSET Subs]
  /\ pc \in [Handles -> {"free", "get", "dial", "take", "mark", "move", "decide", "join"}]
  /\ active \in Handles \cup {NoHandle} /\ sub \in [Handles -> Subs \cup {NoSub}]
  /\ subs \in [Handles -> SUBSET Subs] /\ old \in [Handles -> Conns \cup {NoConn}]
  /\ todo \in [Handles -> SUBSET Subs] /\ processed \in [Handles -> SUBSET Subs] /\ Counted
  /\ dest \in [Handles -> [Subs -> Conns \cup {NoConn}]]
  /\ ctx \in [Handles -> {"live", "cancelled", "expired"}] /\ late \in [Handles -> BOOLEAN]
  /\ sender \in [Handles -> [Subs -> {"none", "send", "wait", "timeout"}]]
  /\ watcher \in [Handles -> {"on", "off", "told"}]
  /\ events \in 0..MaxEvents /\ cut \in BOOLEAN

\* Nothing is left to do but to poll.
Quiet == AtRest /\ \A h \in Handles : ~Busy(h)

\* Messages of the channel reach the subscription, from the owner.
Served(s) ==
  LET c == pubsub[s]
  IN  /\ state[s] = "active" /\ conn[c] = "active" /\ nodeOf[c] = owner
      /\ s \in subscriptions[c] /\ ChannelOf[s] \in topics[c]

\* A change of owner or a loss that nothing interferes with is repaired in full:
\* when the migration and the event loops are done, every subscription is on a
\* connection to the owner that Redis sends the channel to, whether it was the
\* first on that connection or not (topology.go:956-1015). TypeOK is a conjunct:
\* it also bounds what processedCount counts.
RepairedUnlessCut ==
  /\ TypeOK
  /\ Quiet /\ FailedSubs = {} /\ ~cut => \A s \in made : Served(s)

\* Whatever happens to migrations, connections and commands, in whatever order
\* goroutines write states over each other's, no subscription stays pending or
\* failed: each SUBSCRIBE is confirmed or times out, and the polls take up what
\* failed until it no longer is (topology.go:531-533, 644-696).
Settles == <>[](\A s \in Subs : state[s] \notin {"pending", "failed"})

\* The progress goroutine of a late migration ends without a signal only when all
\* its subscriptions are active: also when every one was counted, as errors are,
\* before a tick saw that it is late (topology.go:808-848).
TimeoutIsTold ==
  [][\A h \in Handles : watcher[h] = "on" /\ watcher'[h] = "off" /\ late[h]
       => \A s \in subs[h] : state[s] = "active"]_vars

=============================================================================
