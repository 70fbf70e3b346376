-------------------------- MODULE Migration_proofs --------------------------
(***************************************************************************)
(* Migrations, for any number of subscriptions, channels, nodes,           *)
(* connections and overlapping migrations: no subscription is counted      *)
(* twice, a late migration does not end in silence, and what nothing       *)
(* interferes with is repaired in full.                                    *)
(***************************************************************************)
EXTENDS Migration, TLAPS

USE MigrationAssumption DEF subVars, connVars, goVars

-----------------------------------------------------------------------------
(* The inductive invariant *)

SubTypes ==
  /\ made \subseteq Subs
  /\ state \in [Subs -> {"pending", "active", "failed", "closed"}]
  /\ pubsub \in [Subs -> Conns] /\ confirmCh \in [Subs -> {"empty", "ok", "err"}]

ConnTypes ==
  /\ owner \in Nodes
  /\ conn \in [Conns -> {"none", "active", "failed", "notifying"}]
  /\ nodeOf \in [Conns -> Nodes \cup {NoNode}]
  /\ subscriptions \in [Conns -> SUBSET Subs]
  /\ pending \in [Conns -> [Channels -> Subs \cup {NoSub}]]
  /\ topics \in [Conns -> SUBSET Channels] /\ toNotify \in [Conns -> SUBSET Subs]
  /\ events \in 0..MaxEvents /\ cut \in BOOLEAN

QueueTypes ==
  /\ cmds \in [Conns -> Seq(Handles \X Subs)]
  /\ replies \in [Conns -> Seq(Channels)]

GoTypes ==
  /\ pc \in [Handles -> {"free", "get", "dial", "take", "mark", "move", "decide", "join"}]
  /\ active \in Handles \cup {NoHandle} /\ sub \in [Handles -> Subs \cup {NoSub}]
  /\ subs \in [Handles -> SUBSET Subs] /\ old \in [Handles -> Conns \cup {NoConn}]
  /\ todo \in [Handles -> SUBSET Subs] /\ processed \in [Handles -> SUBSET Subs]
  /\ dest \in [Handles -> [Subs -> Conns \cup {NoConn}]]
  /\ ctx \in [Handles -> {"live", "cancelled", "expired"}] /\ late \in [Handles -> BOOLEAN]
  /\ sender \in [Handles -> [Subs -> {"none", "send", "wait", "timeout"}]]
  /\ watcher \in [Handles -> {"on", "off", "told"}]

\* What the goroutine holds at each point: the subscription in hand and the
\* connection it is for, senders only while it waits for them, and nothing once both
\* goroutines of the migration have ended.
Control ==
  \A h \in Handles :
    /\ pc[h] \in {"mark", "move", "decide"} => sub[h] \in Subs /\ dest[h][sub[h]] \in Conns
    /\ pc[h] \in {"free", "get", "dial", "take", "join"} => sub[h] = NoSub
    /\ pc[h] \in {"free", "join"} => todo[h] = {}
    /\ pc[h] = "free" /\ watcher[h] # "on" => subs[h] = {}
    /\ \A s \in Subs : sender[h][s] # "none" => dest[h][s] \in Conns /\ pc[h] # "free"

Inv == SubTypes /\ ConnTypes /\ QueueTypes /\ GoTypes /\ Control /\ Counted

\* The invariant gives the types and the count.
LEMMA InvTypes == ASSUME Inv PROVE TypeOK
BY DEF Inv, TypeOK, SubTypes, ConnTypes, QueueTypes, GoTypes

\* Where the subscriptions are in the beginning.
LEMMA InitPlaces ==
  ASSUME Init
  PROVE  \E n \in Nodes, c \in Conns :
           /\ owner = n /\ made \in Starts /\ pubsub = [s \in Subs |-> c]
           /\ conn = [x \in Conns |-> IF x = c THEN "active" ELSE "none"]
           /\ nodeOf = [x \in Conns |-> IF x = c THEN n ELSE NoNode]
           /\ subscriptions = [x \in Conns |-> IF x = c THEN made ELSE {}]
           /\ topics = [x \in Conns |-> IF x = c THEN {ChannelOf[s] : s \in made} ELSE {}]
<1>1. PICK n \in Nodes, c \in Conns :
      /\ made \in Starts
      /\ n = CHOOSE x \in Nodes : TRUE
      /\ c = CHOOSE x \in Conns : TRUE
      /\ owner = n
      /\ state = [s \in Subs |-> IF s \in made THEN "active" ELSE "closed"]
      /\ pubsub = [s \in Subs |-> c]
      /\ confirmCh = [s \in Subs |-> "empty"]
      /\ conn = [x \in Conns |-> IF x = c THEN "active" ELSE "none"]
      /\ nodeOf = [x \in Conns |-> IF x = c THEN n ELSE NoNode]
      /\ subscriptions = [x \in Conns |-> IF x = c THEN made ELSE {}]
      /\ pending = [x \in Conns |-> [ch \in Channels |-> NoSub]]
      /\ cmds = [x \in Conns |-> <<>>]
      /\ topics = [x \in Conns |-> IF x = c THEN {ChannelOf[s] : s \in made} ELSE {}]
      /\ replies = [x \in Conns |-> <<>>] /\ toNotify = [x \in Conns |-> {}]
      /\ active = NoHandle /\ pc = [h \in Handles |-> "free"]
      /\ subs = [h \in Handles |-> {}] /\ todo = [h \in Handles |-> {}]
      /\ sub = [h \in Handles |-> NoSub] /\ old = [h \in Handles |-> NoConn]
      /\ dest = [h \in Handles |-> [s \in Subs |-> NoConn]]
      /\ ctx = [h \in Handles |-> "live"] /\ late = [h \in Handles |-> FALSE]
      /\ sender = [h \in Handles |-> [s \in Subs |-> "none"]]
      /\ processed = [h \in Handles |-> {}]
      /\ watcher = [h \in Handles |-> "off"]
      /\ events = 0 /\ cut = FALSE
  BY Zenon DEF Init
<1> WITNESS n \in Nodes, c \in Conns
<1> QED BY <1>1

\* In the beginning no migration runs and nothing is to be counted.
LEMMA InitInv == ASSUME Init PROVE Inv
<1>1. PICK n \in Nodes, c \in Conns :
        /\ owner = n /\ made \in Starts /\ pubsub = [s \in Subs |-> c]
        /\ conn = [x \in Conns |-> IF x = c THEN "active" ELSE "none"]
        /\ nodeOf = [x \in Conns |-> IF x = c THEN n ELSE NoNode]
        /\ subscriptions = [x \in Conns |-> IF x = c THEN made ELSE {}]
        /\ topics = [x \in Conns |-> IF x = c THEN {ChannelOf[s] : s \in made} ELSE {}]
      BY InitPlaces
<1>2. SubTypes BY <1>1 DEF Init, SubTypes
<1>3. topics \in [Conns -> SUBSET Channels]
  <2> DEFINE T == {ChannelOf[s] : s \in made}
  <2>1. T \in SUBSET Channels BY <1>1
  <2>2. topics = [x \in Conns |-> IF x = c THEN T ELSE {}] BY <1>1
  <2> HIDE DEF T
  <2> QED BY <2>1, <2>2
<1>4. /\ owner = n /\ conn = [x \in Conns |-> IF x = c THEN "active" ELSE "none"]
      /\ nodeOf = [x \in Conns |-> IF x = c THEN n ELSE NoNode]
      /\ subscriptions = [x \in Conns |-> IF x = c THEN made ELSE {}]
      /\ pending = [x \in Conns |-> [ch \in Channels |-> NoSub]]
      /\ toNotify = [x \in Conns |-> {}] /\ events = 0 /\ cut = FALSE
      BY <1>1, Zenon DEF Init
<1>5. ConnTypes
  <2>1. events \in 0..MaxEvents BY <1>4
  <2>2. conn \in [Conns -> {"none", "active", "failed", "notifying"}] BY <1>4
  <2>3. nodeOf \in [Conns -> Nodes \cup {NoNode}] /\ owner \in Nodes BY <1>4
  <2>4. subscriptions \in [Conns -> SUBSET Subs] /\ toNotify \in [Conns -> SUBSET Subs]
        BY <1>2, <1>4 DEF SubTypes
  <2>5. pending \in [Conns -> [Channels -> Subs \cup {NoSub}]] BY <1>4
  <2>6. cut \in BOOLEAN BY <1>4, Zenon
  <2> QED BY <1>3, <2>1, <2>2, <2>3, <2>4, <2>5, <2>6 DEF ConnTypes
<1>6. QueueTypes BY DEF Init, QueueTypes
<1>7. GoTypes BY DEF Init, GoTypes
<1>8. Control BY DEF Init, Control
<1>9. Counted BY DEF Init, Counted, Left
<1> QED BY <1>2, <1>5, <1>6, <1>7, <1>8, <1>9 DEF Inv

-----------------------------------------------------------------------------
(* The event loops, which leave the migrations alone *)

\* A step that leaves the migrations alone keeps what is said of them.
LEMMA GoUnchanged ==
  ASSUME GoTypes, Control, Counted, UNCHANGED goVars
  PROVE  GoTypes' /\ Control' /\ Counted'
<1>1. GoTypes' BY DEF GoTypes
<1>2. Control' BY DEF Control
<1>3. Counted' BY DEF Counted, Left
<1> QED BY <1>1, <1>2, <1>3

\* What an event loop or the loss of a connection changes.
LEMMA LoopInv ==
  ASSUME Inv, NEW c \in Conns,
         \/ Execute(c) \/ ExecuteFails(c) \/ Confirm(c) \/ Break(c) \/ ExecuteBreaks(c)
         \/ Snapshot(c) \/ (\E s \in Subs : Notify(c, s)) \/ Leave(c)
  PROVE  Inv'
<1> USE DEF Inv
<1>1. UNCHANGED goVars
      BY DEF Execute, ExecuteFails, Confirm, Break, ExecuteBreaks, Snapshot, Notify, Leave
<1>2. GoTypes' /\ Control' /\ Counted' BY <1>1, GoUnchanged
<1>3. cmds[c] # <<>> => /\ Head(cmds[c]) \in Handles \X Subs /\ Head(cmds[c])[2] \in Subs
                        /\ Tail(cmds[c]) \in Seq(Handles \X Subs)
      BY DEF QueueTypes
<1>4. replies[c] # <<>> => Head(replies[c]) \in Channels /\ Tail(replies[c]) \in Seq(Channels)
      BY DEF QueueTypes
<1>5. events \in 0..MaxEvents => (Event => events' \in 0..MaxEvents) BY DEF Event
<1>6. CASE Execute(c)
  <2>1. SubTypes' BY <1>6 DEF Execute, SubTypes
  <2> DEFINE ch == ChannelOf[Head(cmds[c])[2]]
  <2>2. ch \in Channels BY <1>3, <1>6 DEF Execute
  <2>3. /\ topics' = [topics EXCEPT ![c] = @ \cup {ch}]
        /\ replies' = [replies EXCEPT ![c] = Append(@, ch)]
        /\ cmds' = [cmds EXCEPT ![c] = Tail(@)] /\ cmds[c] # <<>>
        BY <1>6 DEF Execute
  <2> HIDE DEF ch
  <2>4. ConnTypes' BY <1>6, <2>2, <2>3 DEF Execute, ConnTypes
  <2>5. QueueTypes' BY <1>3, <2>2, <2>3 DEF QueueTypes
  <2> QED BY <1>2, <2>1, <2>4, <2>5
<1>7. CASE ExecuteFails(c)
  <2> DEFINE s == Head(cmds[c])[2]
  <2>1. s \in Subs /\ ChannelOf[s] \in Channels BY <1>3, <1>7 DEF ExecuteFails
  <2>2. /\ pending' = [pending EXCEPT ![c][ChannelOf[s]] = NoSub] /\ SetState(s, "failed", "err")
        /\ cmds' = [cmds EXCEPT ![c] = Tail(@)] /\ cmds[c] # <<>>
        BY <1>7 DEF ExecuteFails
  <2> HIDE DEF s
  <2>3. SubTypes' BY <1>7, <2>1, <2>2 DEF ExecuteFails, SubTypes, SetState
  <2>4. pending' \in [Conns -> [Channels -> Subs \cup {NoSub}]] BY <2>1, <2>2 DEF ConnTypes
  <2>5. UNCHANGED <<owner, made, conn, nodeOf, subscriptions, topics, toNotify, events, cut>>
        BY <1>7 DEF ExecuteFails
  <2>6. ConnTypes' BY <2>4, <2>5 DEF ConnTypes
  <2>7. QueueTypes' BY <1>3, <1>7, <2>2 DEF QueueTypes, ExecuteFails
  <2> QED BY <1>2, <2>3, <2>6, <2>7
<1>8. CASE Confirm(c)
  <2> DEFINE ch == Head(replies[c])
             s  == pending[c][ch]
  <2>1. ch \in Channels BY <1>4, <1>8 DEF Confirm
  <2>2. s \in Subs \cup {NoSub} BY <2>1 DEF ConnTypes
  <2>3. /\ IF s # NoSub THEN /\ SetState(s, "active", "ok")
                             /\ pending' = [pending EXCEPT ![c][ch] = NoSub]
                        ELSE UNCHANGED <<state, confirmCh, pending>>
        /\ replies' = [replies EXCEPT ![c] = Tail(@)] /\ replies[c] # <<>>
        BY <1>8 DEF Confirm
  <2> HIDE DEF s, ch
  <2>4. SubTypes' BY <1>8, <2>2, <2>3 DEF Confirm, SubTypes, SetState
  <2>5. pending' = pending \/ pending' = [pending EXCEPT ![c][ch] = NoSub] BY <2>3
  <2>6. pending' \in [Conns -> [Channels -> Subs \cup {NoSub}]] BY <2>1, <2>5 DEF ConnTypes
  <2>7. UNCHANGED <<owner, made, conn, nodeOf, subscriptions, topics, toNotify, events, cut>>
        BY <1>8 DEF Confirm
  <2>8. ConnTypes' BY <2>6, <2>7 DEF ConnTypes
  <2>9. QueueTypes' BY <1>4, <1>8, <2>3 DEF QueueTypes, Confirm
  <2> QED BY <1>2, <2>4, <2>8, <2>9
<1>9. ASSUME Fail(c), SubTypes', pending' \in [Conns -> [Channels -> Subs \cup {NoSub}]], Event,
             UNCHANGED <<owner, made, nodeOf, subscriptions, toNotify>>
      PROVE  Inv'
  <2>1. QueueTypes' BY <1>9 DEF QueueTypes, Fail
  <2>2. cut' \in BOOLEAN BY <1>9, Zenon DEF Fail
  <2>3. events' \in 0..MaxEvents BY <1>5, <1>9 DEF ConnTypes
  <2>4. ConnTypes' BY <1>9, <2>2, <2>3 DEF ConnTypes, Fail
  <2> QED BY <1>2, <1>9, <2>1, <2>4
<1>10. CASE Break(c)
  <2>1. SubTypes' BY <1>10 DEF Break, SubTypes
  <2> QED BY <1>9, <1>10, <2>1 DEF Break, ConnTypes
<1>11. CASE ExecuteBreaks(c)
  <2> DEFINE s == Head(cmds[c])[2]
  <2>1. s \in Subs /\ ChannelOf[s] \in Channels BY <1>3, <1>11 DEF ExecuteBreaks
  <2>2. pending' = [pending EXCEPT ![c][ChannelOf[s]] = NoSub] /\ SetState(s, "failed", "err")
        BY <1>11 DEF ExecuteBreaks
  <2> HIDE DEF s
  <2>3. SubTypes' BY <1>11, <2>1, <2>2 DEF ExecuteBreaks, SubTypes, SetState
  <2>4. pending' \in [Conns -> [Channels -> Subs \cup {NoSub}]] BY <2>1, <2>2 DEF ConnTypes
  <2> QED BY <1>9, <1>11, <2>3, <2>4 DEF ExecuteBreaks
<1>12. CASE Snapshot(c)
  <2>1. SubTypes' /\ QueueTypes' BY <1>12 DEF Snapshot, SubTypes, QueueTypes
  <2>2. ConnTypes' BY <1>12 DEF Snapshot, ConnTypes
  <2> QED BY <1>2, <2>1, <2>2
<1>13. CASE \E s \in Subs : Notify(c, s)
  <2> PICK s \in Subs : Notify(c, s) BY <1>13
  <2>1. QueueTypes' BY DEF Notify, QueueTypes
  <2>2. SubTypes' BY DEF Notify, SubTypes, SetState
  <2>3. ConnTypes' BY DEF Notify, ConnTypes
  <2> QED BY <1>2, <2>1, <2>2, <2>3
<1>14. CASE Leave(c)
  <2>1. SubTypes' /\ QueueTypes' BY <1>14 DEF Leave, SubTypes, QueueTypes
  <2>2. ConnTypes' BY <1>14 DEF Leave, ConnTypes
  <2> QED BY <1>2, <2>1, <2>2
<1> QED BY <1>6, <1>7, <1>8, <1>10, <1>11, <1>12, <1>13, <1>14

-----------------------------------------------------------------------------
(* The goroutine of a migration *)

\* The connection for the subscriptions of a channel: they are counted if there is none.
LEMMA GetInv ==
  ASSUME Inv, NEW h \in Handles, NEW ch \in Channels,
         GetPubSub(h, ch) \/ SkipChannel(h, ch) \/ GetFails(h, ch) \/ GetAborted(h, ch)
  PROVE  Inv'
<1> USE DEF Inv
<1>1. Group(h, ch) \subseteq todo[h] BY DEF Group
<1>2. CASE GetPubSub(h, ch)
  <2>1. PICK c \in Gettable :
          /\ Open(c)
          /\ dest' = [dest EXCEPT ![h] = [s \in Subs |-> IF s \in Group(h, ch) THEN c ELSE @[s]]]
        BY <1>2 DEF GetPubSub
  <2>2. c \in Conns BY <2>1 DEF Gettable
  <2>3. pc[h] = "dial" /\ pc' = [pc EXCEPT ![h] = "take"] BY <1>2 DEF GetPubSub, Go
  <2>4. UNCHANGED <<owner, made, subVars, cmds, topics, replies, toNotify, active, subs, todo, sub,
                    old, ctx, late, sender, processed, watcher, events, cut>>
        BY <1>2 DEF GetPubSub
  <2>5. SubTypes' /\ QueueTypes' BY <2>4 DEF SubTypes, QueueTypes
  <2>6. ConnTypes'
    <3>1. /\ conn' \in [Conns -> {"none", "active", "failed", "notifying"}]
          /\ nodeOf' \in [Conns -> Nodes \cup {NoNode}]
          /\ subscriptions' \in [Conns -> SUBSET Subs]
      <4>1. CASE conn[c] = "active" BY <2>1, <4>1 DEF ConnTypes, Open
      <4>2. CASE conn[c] # "active"
        <5>1. /\ conn' = [conn EXCEPT ![c] = "active"] /\ nodeOf' = [nodeOf EXCEPT ![c] = owner]
              /\ subscriptions' = [subscriptions EXCEPT ![c] = {}]
              BY <2>1, <4>2 DEF Open
        <5> QED BY <2>2, <5>1 DEF ConnTypes
      <4> QED BY <4>1, <4>2
    <3>2. [ch1 \in Channels |-> NoSub] \in [Channels -> Subs \cup {NoSub}] OBVIOUS
    <3>3. \/ pending' = pending
          \/ pending' = [pending EXCEPT ![c] = [ch1 \in Channels |-> NoSub]]
          BY <2>1 DEF Open
    <3>4. pending' \in [Conns -> [Channels -> Subs \cup {NoSub}]]
          BY <2>2, <3>2, <3>3 DEF ConnTypes
    <3> QED BY <2>4, <3>1, <3>4 DEF ConnTypes
  <2>7. dest' \in [Handles -> [Subs -> Conns \cup {NoConn}]] BY <2>1, <2>2 DEF GoTypes
  <2>8. GoTypes' BY <2>3, <2>4, <2>7 DEF GoTypes
  <2>9. \A g \in Handles, s \in Subs : dest[g][s] \in Conns => dest'[g][s] \in Conns
        BY <2>1, <2>2 DEF GoTypes
  <2>10. Control' BY <2>3, <2>4, <2>9 DEF Control, GoTypes
  <2>11. Counted' BY <2>4 DEF Counted, Left
  <2> QED BY <2>5, <2>6, <2>8, <2>10, <2>11
<1>3. CASE SkipChannel(h, ch) \/ GetFails(h, ch) \/ GetAborted(h, ch)
  <2>1. /\ pc[h] \in {"get", "dial"}
        /\ processed' = [processed EXCEPT ![h] = @ \cup Group(h, ch)]
        /\ UNCHANGED <<owner, made, subVars, connVars, active, subs, sub, old, dest, ctx, late,
                       sender, watcher>>
        BY <1>3 DEF SkipChannel, GetFails, GetAborted
  <2>2. /\ pc' = [pc EXCEPT ![h] = "get"]
        /\ todo' = [todo EXCEPT ![h] = @ \ Group(h, ch)]
     \/ /\ pc' = [pc EXCEPT ![h] = "join"] /\ todo' = [todo EXCEPT ![h] = {}] /\ ctx[h] # "live"
        BY <1>3 DEF SkipChannel, GetFails, GetAborted, Go, GoTypes
  <2>3. events' \in 0..MaxEvents BY <1>3 DEF SkipChannel, GetFails, GetAborted, Event, ConnTypes
  <2>4. cut' \in BOOLEAN BY <1>3, Zenon DEF SkipChannel, GetFails, GetAborted, ConnTypes
  <2>5. SubTypes' /\ QueueTypes' BY <2>1 DEF SubTypes, QueueTypes
  <2>6. ConnTypes' BY <2>1, <2>3, <2>4 DEF ConnTypes
  <2>7. GoTypes'
    <3>1. todo' \in [Handles -> SUBSET Subs]
      <4>1. todo[h] \ Group(h, ch) \in SUBSET Subs /\ todo \in [Handles -> SUBSET Subs]
            BY DEF GoTypes
      <4> QED BY <2>2, <4>1
    <3>2. processed' \in [Handles -> SUBSET Subs] BY <1>1, <2>1 DEF GoTypes
    <3>3. pc' \in [Handles -> {"free", "get", "dial", "take", "mark", "move", "decide", "join"}]
          BY <2>2 DEF GoTypes
    <3> QED BY <2>1, <3>1, <3>2, <3>3 DEF GoTypes
  <2>8. Control' BY <2>1, <2>2 DEF Control, GoTypes
  <2>9. Counted'
    <3> HIDE DEF Inv
    <3> SUFFICES ASSUME NEW g \in Handles
                 PROVE  /\ processed'[g] \cup Left(g)' \subseteq subs'[g]
                        /\ processed'[g] \cap Left(g)' = {}
                        /\ ctx'[g] = "live" => subs'[g] = processed'[g] \cup Left(g)'
                        /\ sub'[g] \notin todo'[g]
                        /\ \A s \in Subs : sender'[g][s] # "none"
                                           => s \notin todo'[g] \cup {sub'[g]}
        BY DEF Counted
    <3>1. CASE g # h
      <4>1. todo'[g] = todo[g] /\ processed'[g] = processed[g]
            BY <2>1, <2>2, <3>1 DEF Inv, GoTypes
      <4> QED BY <2>1, <3>1, <4>1 DEF Inv, Counted, Left, GoTypes
    <3>2. CASE g = h
      <4>1. /\ processed'[h] = processed[h] \cup Group(h, ch)
            /\ todo'[h] = todo[h] \ Group(h, ch) \/ (todo'[h] = {} /\ ctx[h] # "live")
            BY <2>1, <2>2 DEF Inv, GoTypes
      <4> QED BY <1>1, <2>1, <3>2, <4>1 DEF Inv, Counted, Left, GoTypes, Control
    <3> QED BY <3>1, <3>2
  <2> QED BY <2>5, <2>6, <2>7, <2>8, <2>9
<1> QED BY <1>2, <1>3

\* A subscription moves from what is left to do into the hand of the goroutine.
LEMMA TakeInv ==
  ASSUME Inv, NEW h \in Handles,
         NextChannel(h) \/ AllStarted(h) \/ (\E s \in Subs : Take(h, s)) \/ Mark(h)
  PROVE  Inv'
<1> USE DEF Inv
<1>1. CASE NextChannel(h) \/ AllStarted(h)
  <2>1. SubTypes' /\ QueueTypes' /\ ConnTypes'
        BY <1>1 DEF NextChannel, AllStarted, SubTypes, QueueTypes, ConnTypes
  <2>2. GoTypes' BY <1>1 DEF NextChannel, AllStarted, GoTypes, Go
  <2>3. Control' BY <1>1 DEF NextChannel, AllStarted, Control, GoTypes, Go
  <2>4. Counted' BY <1>1 DEF NextChannel, AllStarted, Counted, Left
  <2> QED BY <2>1, <2>2, <2>3, <2>4
<1>2. CASE \E s \in Subs : Take(h, s)
  <2> PICK s \in Subs : Take(h, s) BY <1>2
  <2>1. SubTypes' /\ QueueTypes' BY DEF Take, SubTypes, QueueTypes
  <2>2. pubsub[s] \in Conns /\ ChannelOf[s] \in Channels BY DEF SubTypes
  <2>3. ConnTypes'
    <3> DEFINE c == pubsub[s]
               v == IF pending[c][ChannelOf[s]] = s THEN NoSub ELSE pending[c][ChannelOf[s]]
    <3>1. /\ \/ subscriptions' = subscriptions
             \/ subscriptions' = [subscriptions EXCEPT ![c] = @ \ {s}]
          /\ \/ pending' = pending
             \/ pending' = [pending EXCEPT ![c][ChannelOf[s]] = v]
          BY DEF Take, RemoveSubscription
    <3>2. v \in Subs \cup {NoSub} BY <2>2 DEF ConnTypes
    <3> HIDE DEF c, v
    <3>3. c \in Conns BY <2>2 DEF c
    <3>4. subscriptions' \in [Conns -> SUBSET Subs] BY <3>1, <3>3 DEF ConnTypes
    <3>5. pending' \in [Conns -> [Channels -> Subs \cup {NoSub}]]
      <4>1. pending \in [Conns -> [Channels -> Subs \cup {NoSub}]] BY DEF ConnTypes
      <4>2. CASE pending' = pending BY <4>1, <4>2
      <4>3. CASE pending' = [pending EXCEPT ![c][ChannelOf[s]] = v]
            BY <2>2, <3>2, <3>3, <4>1, <4>3
      <4> QED BY <3>1, <4>2, <4>3
    <3> QED BY <3>4, <3>5 DEF Take, ConnTypes
  <2>4. /\ pc[h] = "take" /\ s \in todo[h] /\ dest[h][s] \in Conns
        /\ sub' = [sub EXCEPT ![h] = s] /\ todo' = [todo EXCEPT ![h] = @ \ {s}]
        /\ \/ pc' = [pc EXCEPT ![h] = "mark"]
           \/ pc' = [pc EXCEPT ![h] = "move"]
        /\ UNCHANGED <<active, subs, dest, ctx, late, sender, processed, watcher>>
        BY DEF Take, Go, GoTypes
  <2>5. old' \in [Handles -> Conns \cup {NoConn}] BY <2>2 DEF Take, GoTypes
  <2>6. GoTypes' BY <2>4, <2>5 DEF GoTypes
  <2>7. Control' BY <2>4 DEF Control, GoTypes
  <2>8. Counted'
    <3>1. ASSUME NEW g \in Handles, g # h
          PROVE  UNCHANGED <<sub[g], todo[g], subs[g], sender[g], processed[g]>>
          BY <2>4, <3>1 DEF GoTypes
    <3>2. /\ sub'[h] = s /\ todo'[h] = todo[h] \ {s} /\ sub[h] = NoSub /\ s # NoSub
          /\ subs'[h] = subs[h] /\ sender'[h] = sender[h] /\ processed'[h] = processed[h]
          BY <2>4 DEF GoTypes, Control
    <3>3. Left(h)' = Left(h) BY <2>4, <3>2 DEF Left
    <3> QED BY <2>4, <3>1, <3>2, <3>3 DEF Counted, Left
  <2> QED BY <2>1, <2>3, <2>6, <2>7, <2>8
<1>3. CASE Mark(h)
  <2>1. sub[h] \in Subs BY <1>3 DEF Mark, Control
  <2>2. SubTypes' BY <1>3, <2>1 DEF Mark, SubTypes, SetState
  <2>3. QueueTypes' /\ ConnTypes' BY <1>3 DEF Mark, QueueTypes, ConnTypes
  <2>4. GoTypes' BY <1>3 DEF Mark, GoTypes, Go
  <2>5. Control' BY <1>3 DEF Mark, Control, GoTypes, Go
  <2>6. Counted' BY <1>3 DEF Mark, Counted, Left
  <2> QED BY <2>2, <2>3, <2>4, <2>5, <2>6
<1> QED BY <1>1, <1>2, <1>3

\* Closed, then registered on the new connection.
LEMMA MoveInv ==
  ASSUME Inv, NEW h \in Handles, Move(h)
  PROVE  Inv'
<1> USE DEF Inv
<1> DEFINE s == sub[h]
           c == dest[h][s]
<1>1. s \in Subs /\ c \in Conns /\ pc[h] = "move" BY DEF Move, Control
<1>2. /\ pubsub' = [pubsub EXCEPT ![s] = c]
      /\ \/ /\ subscriptions' = [subscriptions EXCEPT ![c] = @ \cup {s}]
            /\ pc' = [pc EXCEPT ![h] = "decide"] /\ UNCHANGED <<sub, processed>>
         \/ /\ processed' = [processed EXCEPT ![h] = @ \cup {s}]
            /\ sub' = [sub EXCEPT ![h] = NoSub] /\ UNCHANGED subscriptions
            /\ pc' = [pc EXCEPT ![h] = NextSub(h)]
      /\ UNCHANGED <<owner, made, state, confirmCh, conn, nodeOf, pending, cmds, topics, replies,
                     toNotify, active, subs, todo, old, dest, ctx, late, sender, watcher,
                     events, cut>>
      BY DEF Move, Go
<1>3. NextSub(h) \in {"take", "get"} BY DEF NextSub
<1> HIDE DEF s, c
<1>4. SubTypes' /\ QueueTypes' BY <1>1, <1>2 DEF SubTypes, QueueTypes
<1>5. ConnTypes'
  <2>1. subscriptions' = subscriptions \/ subscriptions' = [subscriptions EXCEPT ![c] = @ \cup {s}]
        BY <1>2
  <2>2. subscriptions' \in [Conns -> SUBSET Subs] BY <1>1, <2>1 DEF ConnTypes
  <2>3. UNCHANGED <<owner, made, conn, nodeOf, pending, topics, toNotify, events, cut>> BY <1>2
  <2> QED BY <2>2, <2>3 DEF ConnTypes
<1>6. GoTypes'
  <2>1. processed' = processed \/ processed' = [processed EXCEPT ![h] = @ \cup {s}] BY <1>2
  <2>2. processed' \in [Handles -> SUBSET Subs]
    <3>1. processed \in [Handles -> SUBSET Subs] BY DEF GoTypes
    <3>2. processed[h] \cup {s} \in SUBSET Subs BY <1>1, <3>1
    <3> QED BY <2>1, <3>1, <3>2
  <2>3. sub' \in [Handles -> Subs \cup {NoSub}] BY <1>2 DEF GoTypes
  <2>4. pc' \in [Handles -> {"free", "get", "dial", "take", "mark", "move", "decide", "join"}]
        BY <1>2, <1>3 DEF GoTypes
  <2>5. UNCHANGED <<active, subs, todo, old, dest, ctx, late, sender, watcher>> BY <1>2
  <2> QED BY <2>2, <2>3, <2>4, <2>5 DEF GoTypes
<1>7. Control' BY <1>1, <1>2, <1>3 DEF Control, GoTypes
<1>8. Counted'
  <2>1. CASE UNCHANGED <<sub, processed>> BY <1>2, <2>1 DEF Counted, Left
  <2>2. CASE processed' = [processed EXCEPT ![h] = @ \cup {s}] /\ sub' = [sub EXCEPT ![h] = NoSub]
    <3>1. ASSUME NEW g \in Handles, g # h
          PROVE  UNCHANGED <<sub[g], todo[g], subs[g], sender[g], processed[g]>>
          BY <1>2, <2>2, <3>1 DEF GoTypes
    <3>2. /\ sub'[h] = NoSub /\ sub[h] = s /\ processed'[h] = processed[h] \cup {s}
          /\ todo'[h] = todo[h] /\ subs'[h] = subs[h] /\ sender'[h] = sender[h]
          BY <1>2, <2>2 DEF GoTypes, s
    <3>3. NoSub \notin todo[h] /\ \A x \in Subs : x # NoSub BY DEF GoTypes
    <3>4. Left(h)' = Left(h) \ {s} /\ s \in Left(h) BY <1>1, <3>2, <3>3 DEF Counted, Left
    <3>5. \A g \in Handles : g # h => Left(g)' = Left(g) BY <3>1 DEF Left
    <3>6. ctx' = ctx BY <1>2
    <3> QED BY <1>1, <3>1, <3>2, <3>3, <3>4, <3>5, <3>6 DEF Counted
  <2> QED BY <1>2, <2>1, <2>2
<1> QED BY <1>4, <1>5, <1>6, <1>7, <1>8

\* The subscription in hand is counted, or handed to a sender of its own.
LEMMA DecideInv ==
  ASSUME Inv, NEW h \in Handles, Decide(h)
  PROVE  Inv'
<1> USE DEF Inv
<1> DEFINE s == sub[h]
           c == dest[h][s]
<1>1. s \in Subs /\ c \in Conns /\ pc[h] = "decide" /\ ChannelOf[s] \in Channels
      BY DEF Decide, Control
<1>2. /\ pc' = [pc EXCEPT ![h] = NextSub(h)] /\ sub' = [sub EXCEPT ![h] = NoSub]
      /\ \/ /\ sender' = [sender EXCEPT ![h][s] = "send"]
            /\ pending' = [pending EXCEPT ![c][ChannelOf[s]] = s]
            /\ UNCHANGED processed
         \/ /\ processed' = [processed EXCEPT ![h] = @ \cup {s}]
            /\ UNCHANGED <<pending, sender>>
      /\ UNCHANGED <<owner, made, pubsub, conn, nodeOf, subscriptions, cmds, topics, replies, toNotify,
                     active, subs, todo, old, dest, ctx, late, watcher, events, cut>>
      BY DEF Decide, Go
<1>3. \/ UNCHANGED <<state, confirmCh>>
      \/ SetState(s, "active", "ok") \/ ResetToPending(s)
      BY DEF Decide
<1>4. NextSub(h) \in {"take", "get"} BY DEF NextSub
<1>5. c = dest[h][s] OBVIOUS
<1> HIDE DEF s, c
<1>6. SubTypes' BY <1>1, <1>2, <1>3 DEF SubTypes, SetState, ResetToPending
<1>7. QueueTypes' BY <1>2 DEF QueueTypes
<1>8. ConnTypes'
  <2>1. pending' = pending \/ pending' = [pending EXCEPT ![c][ChannelOf[s]] = s] BY <1>2
  <2>2. pending' \in [Conns -> [Channels -> Subs \cup {NoSub}]]
    <3>1. pending \in [Conns -> [Channels -> Subs \cup {NoSub}]] BY DEF ConnTypes
    <3> HIDE DEF Inv
    <3>2. [pending[c] EXCEPT ![ChannelOf[s]] = s] \in [Channels -> Subs \cup {NoSub}]
          BY <1>1, <3>1
    <3>3. \/ pending' = pending
          \/ pending' = [pending EXCEPT ![c] = [pending[c] EXCEPT ![ChannelOf[s]] = s]]
          BY <2>1
    <3> QED BY <1>1, <3>1, <3>2, <3>3
  <2>3. UNCHANGED <<owner, conn, nodeOf, subscriptions, topics, toNotify, events, cut>> BY <1>2
  <2> QED BY <2>2, <2>3 DEF ConnTypes
<1>9. GoTypes'
  <2>1. /\ processed' = processed \/ processed' = [processed EXCEPT ![h] = @ \cup {s}]
        /\ sender' = sender \/ sender' = [sender EXCEPT ![h][s] = "send"]
        BY <1>2
  <2>2. processed' \in [Handles -> SUBSET Subs]
    <3>1. processed \in [Handles -> SUBSET Subs] BY DEF GoTypes
    <3>2. processed[h] \cup {s} \in SUBSET Subs BY <1>1, <3>1
    <3> QED BY <2>1, <3>1, <3>2
  <2>3. sender' \in [Handles -> [Subs -> {"none", "send", "wait", "timeout"}]]
    <3>1. sender \in [Handles -> [Subs -> {"none", "send", "wait", "timeout"}]] BY DEF GoTypes
    <3>2. [sender[h] EXCEPT ![s] = "send"] \in [Subs -> {"none", "send", "wait", "timeout"}]
          BY <1>1, <3>1
    <3>3. sender' = sender \/ sender' = [sender EXCEPT ![h] = [sender[h] EXCEPT ![s] = "send"]]
          BY <2>1
    <3> QED BY <3>1, <3>2, <3>3
  <2>4. sub' \in [Handles -> Subs \cup {NoSub}] BY <1>2 DEF GoTypes
  <2>5. pc' \in [Handles -> {"free", "get", "dial", "take", "mark", "move", "decide", "join"}]
        BY <1>2, <1>4 DEF GoTypes
  <2>6. UNCHANGED <<active, subs, todo, old, dest, ctx, late, watcher>> BY <1>2
  <2> QED BY <2>2, <2>3, <2>4, <2>5, <2>6 DEF GoTypes
<1>10. Control' BY <1>1, <1>2, <1>4, <1>5 DEF Control, GoTypes
<1>11. Counted'
  <2>1. ASSUME NEW g \in Handles, g # h
        PROVE  UNCHANGED <<sub[g], todo[g], subs[g], sender[g], processed[g]>>
        BY <1>2, <2>1 DEF GoTypes
  <2>2. /\ sub'[h] = NoSub /\ sub[h] = s /\ todo'[h] = todo[h] /\ subs'[h] = subs[h]
        /\ \/ /\ processed'[h] = processed[h]
              /\ sender'[h] = [sender[h] EXCEPT ![s] = "send"]
           \/ /\ processed'[h] = processed[h] \cup {s} /\ sender'[h] = sender[h]
        BY <1>2 DEF GoTypes, s
  <2>3. NoSub \notin todo[h] /\ \A x \in Subs : x # NoSub BY DEF GoTypes
  <2>4. sender[h] \in [Subs -> {"none", "send", "wait", "timeout"}] BY DEF GoTypes
  <2>5. \A g \in Handles : g # h => Left(g)' = Left(g) BY <2>1 DEF Left
  <2>6. /\ processed'[h] \cup Left(h)' = processed[h] \cup Left(h)
        /\ processed'[h] \cap Left(h)' = {}
        BY <1>1, <2>2, <2>3, <2>4 DEF Counted, Left
  <2>7. \A x \in Subs : sender'[h][x] # "none" => x \notin todo'[h] \cup {sub'[h]}
        BY <1>1, <2>2, <2>3, <2>4 DEF Counted
  <2>8. ctx' = ctx BY <1>2
  <2> QED BY <2>1, <2>2, <2>3, <2>5, <2>6, <2>7, <2>8 DEF Counted
<1> QED BY <1>6, <1>7, <1>8, <1>9, <1>10, <1>11

-----------------------------------------------------------------------------
(* The senders *)

\* A sender that changes what it does, but does not end.
LEMMA SenderGoes ==
  ASSUME GoTypes, Control, Counted, NEW h \in Handles, NEW s \in Subs, sender[h][s] # "none",
         NEW v \in {"wait", "timeout"}, sender' = [sender EXCEPT ![h][s] = v],
         UNCHANGED <<active, pc, subs, todo, sub, old, dest, ctx, late, processed, watcher>>
  PROVE  GoTypes' /\ Control' /\ Counted'
<1>1. GoTypes' BY DEF GoTypes
<1>2. \A g \in Handles, x \in Subs : sender'[g][x] # "none" <=> sender[g][x] # "none"
      BY DEF GoTypes
<1>3. Control' BY <1>2 DEF Control
<1>4. Counted' BY <1>2 DEF Counted, Left
<1> QED BY <1>1, <1>3, <1>4

\* A sender that ends counts its subscription, and only that one.
LEMMA SenderStops ==
  ASSUME GoTypes, Control, Counted, NEW h \in Handles, NEW s \in Subs, sender[h][s] # "none",
         SenderEnds(h, s),
         UNCHANGED <<active, pc, subs, todo, sub, old, dest, ctx, late, watcher>>
  PROVE  GoTypes' /\ Control' /\ Counted'
<1>1. GoTypes' BY DEF GoTypes, SenderEnds
<1>2. \A g \in Handles, x \in Subs :
        sender'[g][x] # "none" <=> sender[g][x] # "none" /\ ~(g = h /\ x = s)
      BY DEF GoTypes, SenderEnds
<1>3. Control' BY <1>2 DEF Control
<1>4. /\ \A g \in Handles : g # h => processed'[g] = processed[g]
      /\ processed'[h] = processed[h] \cup {s}
      BY DEF GoTypes, SenderEnds
<1>5. Counted' BY <1>2, <1>4 DEF Counted, Left
<1> QED BY <1>1, <1>3, <1>5

\* Each way a sender goes on or ends.
LEMMA SenderInv ==
  ASSUME Inv, NEW h \in Handles, NEW s \in Subs, Send(h, s) \/ SlowCommand(h, s)
  PROVE  Inv'
<1> USE DEF Inv
<1>1. ChannelOf[s] \in Channels OBVIOUS
<1>2. CASE SendCommand(h, s)
  <2>1. SubTypes' /\ ConnTypes' BY <1>2 DEF SendCommand, SubTypes, ConnTypes
  <2>2. <<h, s>> \in Handles \X Subs /\ dest[h][s] \in Conns BY <1>2 DEF SendCommand, Control
  <2>3. cmds[dest[h][s]] \in Seq(Handles \X Subs) BY <2>2 DEF QueueTypes
  <2>4. Append(cmds[dest[h][s]], <<h, s>>) \in Seq(Handles \X Subs) BY <2>2, <2>3
  <2>5. QueueTypes' BY <1>2, <2>2, <2>3, <2>4 DEF SendCommand, QueueTypes
  <2>6. GoTypes' /\ Control' /\ Counted' BY <1>2, SenderGoes DEF SendCommand
  <2> QED BY <2>1, <2>5, <2>6
<1>3. CASE SendFails(h, s)
  <2>1. dest[h][s] \in Conns BY <1>3 DEF SendFails, Control
  <2>2. SubTypes' BY <1>3 DEF SendFails, SubTypes, SetState
  <2>3. QueueTypes' BY <1>3 DEF SendFails, QueueTypes
  <2>4. pending' \in [Conns -> [Channels -> Subs \cup {NoSub}]]
        BY <1>1, <1>3, <2>1 DEF SendFails, ConnTypes
  <2>5. ConnTypes' BY <1>3, <2>4 DEF SendFails, ConnTypes
  <2>6. GoTypes' /\ Control' /\ Counted' BY <1>3, SenderStops DEF SendFails
  <2> QED BY <2>2, <2>3, <2>5, <2>6
<1>4. CASE Confirmed(h, s)
  <2>1. SubTypes' BY <1>4 DEF Confirmed, SubTypes
  <2>2. QueueTypes' /\ ConnTypes' BY <1>4 DEF Confirmed, QueueTypes, ConnTypes
  <2>3. GoTypes' /\ Control' /\ Counted' BY <1>4, SenderStops DEF Confirmed
  <2> QED BY <2>1, <2>2, <2>3
<1>5. CASE CommandTimeout(h, s)
  <2>1. SubTypes' /\ QueueTypes' /\ ConnTypes'
        BY <1>5 DEF CommandTimeout, SubTypes, QueueTypes, ConnTypes
  <2>2. GoTypes' /\ Control' /\ Counted' BY <1>5, SenderGoes DEF CommandTimeout
  <2> QED BY <2>1, <2>2
<1>6. CASE SlowCommand(h, s)
  <2>1. SubTypes' /\ QueueTypes' BY <1>6 DEF SlowCommand, SubTypes, QueueTypes
  <2>2. events' \in 0..MaxEvents BY <1>6 DEF SlowCommand, Event, ConnTypes
  <2>3. cut' \in BOOLEAN BY <1>6, Zenon DEF SlowCommand
  <2>4. ConnTypes' BY <1>6, <2>2, <2>3 DEF SlowCommand, ConnTypes
  <2>5. GoTypes' /\ Control' /\ Counted' BY <1>6, SenderGoes DEF SlowCommand
  <2> QED BY <2>1, <2>4, <2>5
<1>7. CASE GivesUp(h, s)
  <2>1. SubTypes' BY <1>7 DEF GivesUp, SubTypes, SetState
  <2>2. QueueTypes' /\ ConnTypes' BY <1>7 DEF GivesUp, QueueTypes, ConnTypes
  <2>3. GoTypes' /\ Control' /\ Counted' BY <1>7, SenderStops DEF GivesUp
  <2> QED BY <2>1, <2>2, <2>3
<1> QED BY <1>2, <1>3, <1>4, <1>5, <1>6, <1>7 DEF Send

-----------------------------------------------------------------------------
(* The progress goroutine, the end and the launch of a migration *)

\* The progress goroutine, the passing of time and the end of a migration count nothing.
LEMMA WatchInv ==
  ASSUME Inv, NEW h \in Handles, TimePasses(h) \/ Expire(h) \/ Tick(h) \/ Join(h) \/ FinalCheck(h)
  PROVE  Inv'
<1> USE DEF Inv
<1>1. SubTypes' /\ QueueTypes'
      BY DEF TimePasses, Expire, Tick, Join, FinalCheck, SubTypes, QueueTypes
<1>2. events' \in 0..MaxEvents
      BY DEF TimePasses, Expire, Tick, Join, FinalCheck, Event, ConnTypes
<1>3. cut' \in BOOLEAN
      BY Zenon DEF TimePasses, Expire, Tick, Join, FinalCheck, ConnTypes
<1>4. UNCHANGED <<owner, made, connVars>>
      BY DEF TimePasses, Expire, Tick, Join, FinalCheck
<1>5. ConnTypes' BY <1>2, <1>3, <1>4 DEF ConnTypes
<1>6. CASE TimePasses(h) \/ Expire(h) \/ Tick(h)
  <2>1. UNCHANGED <<active, pc, subs, todo, sub, old, dest, sender, processed>>
        BY <1>6 DEF TimePasses, Expire, Tick
  <2>2. GoTypes'
    <3>1. CASE TimePasses(h) BY <3>1 DEF TimePasses, GoTypes
    <3>2. CASE Expire(h) BY <3>2 DEF Expire, GoTypes
    <3>3. CASE Tick(h) BY <3>3 DEF Tick, GoTypes
    <3> QED BY <1>6, <3>1, <3>2, <3>3
  <2>3. Counted'
    <3>1. \A g \in Handles : ctx'[g] = "live" => ctx[g] = "live"
          BY <1>6 DEF TimePasses, Expire, Tick, GoTypes
    <3> QED BY <2>1, <3>1 DEF Counted, Left
  <2>4. \A g \in Handles : pc[g] = "free" => watcher'[g] = watcher[g]
        BY <1>6 DEF TimePasses, Expire, Tick, GoTypes, Busy
  <2>5. Control' BY <2>1, <2>4 DEF Control
  <2> QED BY <1>1, <1>5, <2>2, <2>3, <2>5
<1>7. CASE Join(h)
  <2>1. /\ pc[h] = "join" /\ (\A s \in Subs : sender[h][s] = "none")
        /\ pc' = [pc EXCEPT ![h] = "free"]
        /\ dest' = [dest EXCEPT ![h] = [s \in Subs |-> NoConn]]
        /\ UNCHANGED <<todo, sub, old, sender>> /\ active' \in {active, NoHandle}
        BY <1>7 DEF Join, Go
  <2>2. \/ watcher[h] = "on" /\ UNCHANGED <<subs, processed, ctx, late, watcher>>
        \/ Clear(h) /\ watcher' = [watcher EXCEPT ![h] = "off"]
        BY <1>7 DEF Join
  <2>3. GoTypes' BY <2>1, <2>2 DEF GoTypes, Clear
  <2>4. Control' BY <2>1, <2>2 DEF Control, GoTypes, Clear
  <2>5. todo[h] = {} /\ sub[h] = NoSub BY <2>1 DEF Control
  <2>6. Counted'
    <3>1. CASE UNCHANGED <<subs, processed, ctx>> BY <2>1, <3>1 DEF Counted, Left
    <3>2. CASE Clear(h) BY <2>1, <2>5, <3>2 DEF Counted, Left, GoTypes, Clear
    <3> QED BY <2>2, <3>1, <3>2
  <2> QED BY <1>1, <1>5, <2>3, <2>4, <2>6
<1>8. CASE FinalCheck(h)
  <2>1. pc[h] = "free" /\ UNCHANGED <<active, pc, todo, sub, old, dest, sender>> /\ Clear(h)
        BY <1>8 DEF FinalCheck, Busy
  <2>2. \/ watcher' = [watcher EXCEPT ![h] = "told"]
        \/ watcher' = [watcher EXCEPT ![h] = "off"]
        BY <1>8 DEF FinalCheck
  <2>3. GoTypes' BY <2>1, <2>2 DEF GoTypes, Clear
  <2>4. Control' BY <2>1, <2>2 DEF Control, GoTypes, Clear
  <2>5. todo[h] = {} /\ sub[h] = NoSub /\ \A s \in Subs : sender[h][s] = "none"
        BY <2>1 DEF Control
  <2>6. Counted' BY <2>1, <2>5 DEF Counted, Left, GoTypes, Clear
  <2> QED BY <1>1, <1>5, <2>3, <2>4, <2>6
<1> QED BY <1>6, <1>7, <1>8

\* A migration is launched with a handle of which nothing is left.
LEMMA LaunchInv ==
  ASSUME GoTypes, Control, Counted, NEW what \in SUBSET Subs, Launch(what)
  PROVE  GoTypes' /\ Control' /\ Counted'
<1> DEFINE h == CHOOSE x \in Handles : Unused(x)
<1>1. h \in Handles /\ Unused(h) BY Zenon DEF Launch
<1>2. /\ active' = h /\ pc' = [pc EXCEPT ![h] = "get"]
      /\ subs' = [subs EXCEPT ![h] = what] /\ todo' = [todo EXCEPT ![h] = what]
      /\ watcher' = [watcher EXCEPT ![h] = "on"]
      /\ UNCHANGED <<sub, old, dest, late, sender, processed>>
      BY Zenon DEF Launch, Go
<1>3. ctx' \in [Handles -> {"live", "cancelled", "expired"}]
  <2>1. ctx' = [x \in Handles |-> CASE x = h -> "live"
                                    [] x = active /\ ctx[x] = "live" -> "cancelled"
                                    [] OTHER -> ctx[x]]
        BY DEF Launch
  <2> HIDE DEF h
  <2> QED BY <2>1 DEF GoTypes
<1> HIDE DEF h
<1>4. pc[h] = "free" /\ watcher[h] # "on" BY <1>1 DEF Unused, Busy
<1>5. GoTypes' BY <1>1, <1>2, <1>3 DEF GoTypes
<1>6. Control' BY <1>1, <1>2, <1>4 DEF Control, GoTypes
<1>7. /\ subs[h] = {} /\ todo[h] = {} /\ sub[h] = NoSub
      /\ \A s \in Subs : sender[h][s] = "none"
      BY <1>1, <1>4 DEF Control
<1>8. processed[h] = {} BY <1>1, <1>7 DEF Counted
<1>9. NoSub \notin what OBVIOUS
<1>10. \A g \in Handles : g # h /\ ctx'[g] = "live" => ctx[g] = "live"
  <2>1. ctx' = [x \in Handles |-> CASE x = h -> "live"
                                    [] x = active /\ ctx[x] = "live" -> "cancelled"
                                    [] OTHER -> ctx[x]]
        BY DEF Launch, h
  <2> QED BY <2>1
<1>11. Counted' BY <1>1, <1>2, <1>7, <1>8, <1>9, <1>10 DEF Counted, Left, GoTypes
<1> QED BY <1>5, <1>6, <1>11

\* A refresh launches a migration of changed or of failed subscriptions, or none.
LEMMA RefreshInv ==
  ASSUME Inv, (\E n \in Nodes : HandleMigration(n)) \/ Poll \/ Redirect
  PROVE  Inv'
<1> USE DEF Inv
<1>1. UNCHANGED <<made, subVars, connVars>> BY DEF HandleMigration, Poll, Redirect, RecoverFailed
<1>2. SubTypes' /\ QueueTypes' BY <1>1 DEF SubTypes, QueueTypes
<1>3. owner' \in Nodes BY DEF HandleMigration, Poll, Redirect, RecoverFailed, ConnTypes
<1>4. events' \in 0..MaxEvents
  <2>1. Event \/ UNCHANGED events BY Zenon DEF HandleMigration, Poll, Redirect
  <2> QED BY <2>1 DEF Event, ConnTypes
<1>5. cut' \in BOOLEAN BY Zenon DEF HandleMigration, Poll, Redirect, RecoverFailed
<1>6. ConnTypes' BY <1>1, <1>3, <1>4, <1>5 DEF ConnTypes
<1>7. (\E what \in SUBSET Subs : Launch(what)) \/ UNCHANGED goVars
  <2>1. /\ {s \in Subs : state[s] \in {"active", "pending"}} \in SUBSET Subs
        /\ FailedSubs \in SUBSET Subs
        BY DEF FailedSubs
  <2> QED BY <2>1, Zenon DEF HandleMigration, Poll, Redirect, RecoverFailed
<1>8. GoTypes' /\ Control' /\ Counted' BY <1>7, GoUnchanged, LaunchInv
<1> QED BY <1>2, <1>6, <1>8

-----------------------------------------------------------------------------
(* The theorems *)

\* The invariant is inductive.
LEMMA StepInv == ASSUME Inv, [Next]_vars PROVE Inv'
<1>1. CASE Next
  <2>1. CASE \E n \in Nodes : HandleMigration(n) BY <2>1, RefreshInv
  <2>2. CASE Poll \/ Redirect BY <2>2, RefreshInv
  <2>3. ASSUME NEW h \in Handles, Run(h) \/ Watch(h) \/ TimePasses(h) \/ Expire(h) PROVE Inv'
        BY <2>3, GetInv, TakeInv, MoveInv, DecideInv, WatchInv DEF Run, Watch
  <2>4. ASSUME NEW h \in Handles, NEW ch \in Channels, GetFails(h, ch) PROVE Inv'
        BY <2>4, GetInv
  <2>5. ASSUME NEW h \in Handles, NEW s \in Subs, Send(h, s) \/ SlowCommand(h, s) PROVE Inv'
        BY <2>5, SenderInv
  <2>6. ASSUME NEW c \in Conns, Loop(c) \/ Break(c) \/ ExecuteBreaks(c) PROVE Inv'
        BY <2>6, LoopInv DEF Loop
  <2> QED BY <1>1, <2>1, <2>2, <2>3, <2>4, <2>5, <2>6 DEF Next, System, Environment
<1>2. CASE UNCHANGED vars
  <2>1. GoTypes' /\ Control' /\ Counted' BY <1>2, GoUnchanged DEF vars, Inv
  <2>2. SubTypes' /\ QueueTypes' /\ ConnTypes'
        BY <1>2 DEF vars, Inv, SubTypes, QueueTypes, ConnTypes
  <2> QED BY <2>1, <2>2 DEF Inv
<1> QED BY <1>1, <1>2

\* The inductive invariant holds in every reachable state.
THEOREM InvTheorem == Spec => []Inv
<1> QED BY InitInv, StepInv, PTL DEF Spec

\* The variables keep their types and no subscription of a migration is counted in
\* processedCount twice, and none is forgotten while the context is live (Counted), however
\* migrations overlap, are cancelled, fail to find a connection or lose it
\* (topology.go:882-1019).
THEOREM CountTheorem == Spec => []TypeOK
<1> QED BY InvTheorem, InvTypes, PTL

\* doneCh has been closed, or is about to be, since the senders have all ended
\* (topology.go:867-868).
AtDone(h) == ~Busy(h) \/ (pc[h] = "join" /\ \A s \in Subs : sender[h][s] = "none")

\* doneCh is closed when all subscriptions have been counted, the senders' wait group and
\* the counter agreeing, unless the migration was cancelled or expired: then the return at
\* topology.go:915 may have left channels uncounted, and the progress goroutine finds fewer
\* than totalSubs at every tick.
AllCountedAtEnd ==
  \A h \in Handles : AtDone(h) =>
    /\ ctx[h] = "live" => processed[h] = subs[h]
    /\ processed[h] \subseteq subs[h] /\ Left(h) = {}

\* When a migration closes doneCh nothing of it is left to count, and everything was counted
\* if its context was live to the end.
THEOREM EndTheorem == Spec => []AllCountedAtEnd
<1>1. ASSUME Inv PROVE AllCountedAtEnd
  <2> SUFFICES ASSUME NEW h \in Handles, AtDone(h)
               PROVE  /\ ctx[h] = "live" => processed[h] = subs[h]
                      /\ processed[h] \subseteq subs[h] /\ Left(h) = {}
      BY DEF AllCountedAtEnd
  <2>1. todo[h] = {} /\ sub[h] = NoSub /\ \A s \in Subs : sender[h][s] = "none"
    <3>1. pc[h] \in {"free", "join"} BY DEF AtDone, Busy
    <3>2. todo[h] = {} /\ sub[h] = NoSub BY <1>1, <3>1 DEF Inv, Control
    <3>3. \A s \in Subs : sender[h][s] = "none"
          BY <1>1 DEF Inv, Control, AtDone, Busy
    <3> QED BY <3>2, <3>3
  <2>2. Left(h) = {} BY <2>1 DEF Left
  <2>3. /\ processed[h] \cup Left(h) \subseteq subs[h]
        /\ ctx[h] = "live" => subs[h] = processed[h] \cup Left(h)
        BY <1>1, Zenon DEF Inv, Counted
  <2> QED BY <2>2, <2>3
<1> QED BY <1>1, InvTheorem, PTL

\* One step of TimeoutIsTold.
Told ==
  \A h \in Handles : watcher[h] = "on" /\ watcher'[h] = "off" /\ late[h]
    => \A s \in subs[h] : state[s] = "active"

\* Of a late migration only FinalCheck ends the progress goroutine in silence, when it has
\* seen every subscription active (topology.go:808-848).
LEMMA StepTold == ASSUME Inv, [Next]_vars PROVE [Told]_vars
<1> SUFFICES ASSUME Next, NEW g \in Handles, watcher[g] = "on", watcher'[g] = "off", late[g]
             PROVE  \A s \in subs[g] : state[s] = "active"
    BY DEF Told
<1> USE DEF Inv, GoTypes
<1>1. watcher' # watcher OBVIOUS
<1>2. ASSUME NEW what, Launch(what) PROVE FALSE
  <2> DEFINE h == CHOOSE x \in Handles : Unused(x)
  <2>1. watcher' = [watcher EXCEPT ![h] = "on"] BY <1>2 DEF Launch
  <2> HIDE DEF h
  <2> QED BY <2>1
<1>3. ASSUME NEW h \in Handles, Tick(h) PROVE FALSE
      BY <1>3 DEF Tick
<1>4. ASSUME NEW h \in Handles, Join(h) PROVE FALSE
  <2>1. \/ watcher' = watcher
        \/ ~(watcher[h] = "on" /\ late[h]) /\ watcher' = [watcher EXCEPT ![h] = "off"]
        BY <1>4 DEF Join
  <2> QED BY <2>1
<1>5. ASSUME NEW h \in Handles, FinalCheck(h) PROVE \A s \in subs[g] : state[s] = "active"
  <2>1. watcher' = [watcher EXCEPT ![h] = IF \E s \in subs[h] : state[s] # "active"
                                            THEN "told" ELSE "off"]
        BY <1>5 DEF FinalCheck
  <2>2. g = h BY <2>1
  <2>3. ~\E s \in subs[h] : state[s] # "active" BY <2>1, <2>2
  <2> QED BY <2>2, <2>3
<1>6. ASSUME NEW h \in Handles, Run(h) PROVE FALSE
      BY <1>1, <1>4, <1>6 DEF Run, NextChannel, GetPubSub, SkipChannel, GetAborted, AllStarted, Take, Mark, Move, Decide
<1>7. ASSUME NEW h \in Handles, NEW s \in Subs, Send(h, s) \/ SlowCommand(h, s) PROVE FALSE
      BY <1>1, <1>7 DEF Send, SendCommand, SendFails, Confirmed, CommandTimeout, GivesUp,
                        SlowCommand
<1>8. ASSUME NEW c \in Conns, Loop(c) \/ Break(c) \/ ExecuteBreaks(c) PROVE FALSE
      BY <1>1, <1>8 DEF Loop, Execute, ExecuteFails, Confirm, Snapshot, Notify, Leave, Break,
                        ExecuteBreaks
<1>9. ASSUME NEW h \in Handles, TimePasses(h) \/ Expire(h) \/ \E ch \in Channels : GetFails(h, ch)
      PROVE  FALSE
      BY <1>1, <1>9 DEF TimePasses, Expire, GetFails
<1>10. ASSUME Poll \/ Redirect \/ \E n \in Nodes : HandleMigration(n) PROVE FALSE
       BY <1>1, <1>2, <1>10 DEF Poll, Redirect, RecoverFailed, HandleMigration
<1> QED BY <1>3, <1>5, <1>6, <1>7, <1>8, <1>9, <1>10 DEF Next, System, Environment, Watch

\* The progress goroutine of a late migration ends without a signal only when all the
\* migration's subscriptions are active (topology.go:808-848), for any number of
\* migrations and subscriptions.
THEOREM ToldTheorem == Spec => TimeoutIsTold
<1>1. Spec => [][Told]_vars BY InvTheorem, StepTold, PTL DEF Spec
<1> QED BY <1>1 DEF Told, TimeoutIsTold

-----------------------------------------------------------------------------
(* What nothing interferes with *)

\* The newest migration is one that runs; a migration that has ended holds no
\* connection; only event loops that are ending have anybody left to notify.
Static ==
  /\ active # NoHandle => Busy(active)
  /\ \A h \in Handles : ~Busy(h) => \A s \in Subs : dest[h][s] = NoConn
  /\ \A c \in Conns : toNotify[c] # {} => conn[c] = "notifying"

\* While no migration has been overtaken there is one at a time, it is neither cancelled
\* nor late for its context, and no connection is lost during it.
Alone == \A g, h \in Handles : Busy(g) /\ Busy(h) => g = h

InTime ==
  \A h \in Handles :
    /\ Busy(h) => ctx[h] = "live"
    /\ \A s \in Subs : sender[h][s] # "timeout"

Calm == (\E h \in Handles : Busy(h)) => \A c \in Conns : ~Lost(c)

\* The connections it has chosen are connections to the owner.
Held ==
  \A h \in Handles, s \in Subs :
    dest[h][s] # NoConn => conn[dest[h][s]] = "active" /\ nodeOf[dest[h][s]] = owner

\* A subscription is in the metadata of its own connection only, and of none between
\* being taken and being moved.
Home ==
  \A c \in Conns, s \in Subs :
    s \in subscriptions[c] => /\ pubsub[s] = c /\ conn[c] # "none"
                              /\ \A h \in Handles : sub[h] = s => pc[h] = "decide"

InHand == \A h \in Handles : pc[h] = "decide" => sub[h] \in subscriptions[dest[h][sub[h]]]

OnOwner(s) ==
  conn[pubsub[s]] = "active" /\ nodeOf[pubsub[s]] = owner /\ s \in subscriptions[pubsub[s]]

\* The event loop of its connection will set it Failed.
Dying(s) ==
  \/ conn[pubsub[s]] = "failed" /\ s \in subscriptions[pubsub[s]]
  \/ s \in toNotify[pubsub[s]]

\* An active subscription is on the owner, or will fail or be moved.
Placed ==
  \A s \in Subs : state[s] = "active" =>
    OnOwner(s) \/ Dying(s) \/ \E h \in Handles : s \in todo[h] \/ s = sub[h]

InCmds(h, s) ==
  \E i \in 1..Len(cmds[dest[h][s]]) : cmds[dest[h][s]][i] = <<h, s>>

InReplies(h, s) ==
  \E i \in 1..Len(replies[dest[h][s]]) : replies[dest[h][s]][i] = ChannelOf[s]

\* A subscription with a sender is on the connection the sender was started for, ...
SentTo ==
  \A h \in Handles, s \in Subs :
    sender[h][s] # "none" => pubsub[s] = dest[h][s] /\ s \in subscriptions[dest[h][s]]

\* ... and it is either pending, with the command or the reply on its way, or active with
\* the confirmation waiting to be taken: what the sender takes is its own confirmation.
Sent ==
  \A h \in Handles, s \in Subs : sender[h][s] # "none" =>
    \/ /\ state[s] = "pending" /\ confirmCh[s] = "empty"
       /\ pending[dest[h][s]][ChannelOf[s]] = s
       /\ sender[h][s] = "send" \/ InCmds(h, s) \/ InReplies(h, s)
    \/ sender[h][s] = "wait" /\ state[s] = "active" /\ confirmCh[s] = "ok"

\* A command in the queue has a sender that waits for it.
Queued ==
  \A c \in Conns : \A i \in 1..Len(cmds[c]) :
    LET h == cmds[c][i][1]
        s == cmds[c][i][2]
    IN  sender[h][s] = "wait" /\ dest[h][s] = c /\ state[s] = "pending"

\* One command or reply for a channel at a time.
Distinct ==
  \A c \in Conns :
    /\ \A i, j \in 1..Len(cmds[c]) : ChannelOf[cmds[c][i][2]] = ChannelOf[cmds[c][j][2]] => i = j
    /\ \A i, j \in 1..Len(replies[c]) : replies[c][i] = replies[c][j] => i = j
    /\ \A i \in 1..Len(cmds[c]), j \in 1..Len(replies[c]) :
         ChannelOf[cmds[c][i][2]] # replies[c][j]

\* A reply is for a pending subscription whose command has been sent.
Replied ==
  \A c \in Conns : \A j \in 1..Len(replies[c]) :
    /\ replies[c][j] \in topics[c] /\ pending[c][replies[c][j]] # NoSub
    /\ \A h \in Handles : sender[h][pending[c][replies[c][j]]] # "send"

\* Who is expected to be confirmed has a sender.
Expected ==
  \A c \in Conns, ch \in Channels : pending[c][ch] # NoSub =>
    /\ ChannelOf[pending[c][ch]] = ch /\ state[pending[c][ch]] = "pending"
    /\ \E h \in Handles : sender[h][pending[c][ch]] # "none" /\ dest[h][pending[c][ch]] = c

\* Nobody is pending, closed or has a confirmation to take unless the migration sees to it.
Waiting ==
  \A s \in Subs :
    /\ state[s] = "pending" \/ confirmCh[s] # "empty" => \E h \in Handles : sender[h][s] # "none"
    /\ state[s] = "closed" => s \notin made \/ \E h \in Handles : sub[h] = s

\* Redis has the channel of every subscription on a connection, or will have it.
Cover ==
  \A c \in Conns, s \in Subs : s \in subscriptions[c] /\ conn[c] = "active" =>
    \/ ChannelOf[s] \in topics[c] \/ pending[c][ChannelOf[s]] # NoSub
    \/ \E h \in Handles : sub[h] = s

Repair ==
  /\ Alone /\ InTime /\ Calm /\ Held /\ Home /\ InHand /\ Placed /\ SentTo /\ Sent
  /\ Queued /\ Distinct /\ Replied /\ Expected /\ Waiting /\ Cover

\* What runs belongs to a migration that has not ended.
LEMMA OwnedByBusy ==
  ASSUME Inv, NEW h \in Handles
  PROVE  /\ sub[h] # NoSub => Busy(h)
         /\ todo[h] # {} => Busy(h)
         /\ \A s \in Subs : sender[h][s] # "none" => Busy(h) /\ dest[h][s] \in Conns
         /\ \A s \in Subs : sender[h][s] # "none" => s \notin todo[h] /\ s # sub[h]
         /\ pc[h] \in {"mark", "move", "decide"} => sub[h] \in Subs /\ dest[h][sub[h]] \in Conns
BY DEF Inv, GoTypes, Control, Counted, Busy

\* Between migrations nothing is on its way.
Idle ==
  /\ \A h \in Handles : ~Busy(h) /\ sub[h] = NoSub /\ todo[h] = {}
                        /\ \A s \in Subs : sender[h][s] = "none" /\ dest[h][s] = NoConn
  /\ \A c \in Conns : cmds[c] = <<>> /\ replies[c] = <<>>
                      /\ \A ch \in Channels : pending[c][ch] = NoSub
  /\ \A s \in Subs : state[s] # "pending" /\ confirmCh[s] = "empty"
  /\ \A s \in made : state[s] \in {"active", "failed"}

\* With no migration there is no sender, so no command, reply or confirmation.
LEMMA NothingOnItsWay ==
  ASSUME Inv, Repair,
         \A h \in Handles : sub[h] = NoSub /\ \A s \in Subs : sender[h][s] = "none"
  PROVE  /\ \A c \in Conns : cmds[c] = <<>> /\ replies[c] = <<>>
         /\ \A c \in Conns, ch \in Channels : pending[c][ch] = NoSub
         /\ \A s \in Subs : state[s] # "pending" /\ confirmCh[s] = "empty"
         /\ \A s \in made : state[s] \in {"active", "failed"}
<1>1. ASSUME NEW c \in Conns, NEW ch \in Channels PROVE pending[c][ch] = NoSub
  <2>1. pending[c][ch] \in Subs \cup {NoSub} BY DEF Inv, ConnTypes
  <2> QED BY <2>1 DEF Repair, Expected
<1>2. ASSUME NEW c \in Conns PROVE cmds[c] = <<>>
  <2> SUFFICES ASSUME cmds[c] # <<>> PROVE FALSE OBVIOUS
  <2>1. cmds[c] \in Seq(Handles \X Subs) BY DEF Inv, QueueTypes
  <2>2. 1 \in 1..Len(cmds[c]) /\ cmds[c][1] \in Handles \X Subs BY <2>1
  <2>3. sender[cmds[c][1][1]][cmds[c][1][2]] = "wait" BY <2>2 DEF Repair, Queued
  <2>4. cmds[c][1][1] \in Handles /\ cmds[c][1][2] \in Subs BY <2>2
  <2> QED BY <2>3, <2>4
<1>3. ASSUME NEW c \in Conns PROVE replies[c] = <<>>
  <2> SUFFICES ASSUME replies[c] # <<>> PROVE FALSE OBVIOUS
  <2>1. replies[c] \in Seq(Channels) BY DEF Inv, QueueTypes
  <2>2. 1 \in 1..Len(replies[c]) /\ replies[c][1] \in Channels BY <2>1
  <2>3. pending[c][replies[c][1]] # NoSub BY <2>2 DEF Repair, Replied
  <2> QED BY <1>1, <2>2, <2>3
<1>4. ASSUME NEW s \in Subs
      PROVE  /\ state[s] # "pending" /\ confirmCh[s] = "empty"
             /\ s \in made => state[s] \in {"active", "failed"}
  <2>1. state[s] \in {"pending", "active", "failed", "closed"} BY DEF Inv, SubTypes
  <2>2. \A h \in Handles : sub[h] # s /\ sender[h][s] = "none" OBVIOUS
  <2> QED BY <2>1, <2>2 DEF Repair, Waiting
<1>5. made \subseteq Subs BY DEF Inv, SubTypes
<1> QED BY <1>1, <1>2, <1>3, <1>4, <1>5

\* Then all is idle.
LEMMA BetweenMigrations ==
  ASSUME Inv, Static, Repair, \A h \in Handles : ~Busy(h)
  PROVE  Idle
<1>1. \A h \in Handles : sub[h] = NoSub /\ todo[h] = {}
                         /\ \A s \in Subs : sender[h][s] = "none" /\ dest[h][s] = NoConn
      BY OwnedByBusy DEF Static
<1> QED BY <1>1, NothingOnItsWay DEF Idle

\* Then three of the parts are all there is to show.
LEMMA IdleRepair == Idle /\ Home /\ Placed /\ Cover => Repair
<1> SUFFICES ASSUME Idle, Home, Placed, Cover PROVE Repair OBVIOUS
<1> USE DEF Idle
<1>1. Alone /\ InTime /\ Calm /\ Held BY DEF Alone, InTime, Calm, Held
<1>2. InHand BY DEF InHand, Busy
<1>3. SentTo /\ Sent /\ Waiting BY DEF SentTo, Sent, Waiting
<1>4. \A c \in Conns : 1..Len(cmds[c]) = {} /\ 1..Len(replies[c]) = {} OBVIOUS
<1>5. Queued /\ Distinct /\ Replied BY <1>4 DEF Queued, Distinct, Replied
<1>6. Expected BY DEF Expected
<1> QED BY <1>1, <1>2, <1>3, <1>5, <1>6 DEF Repair

\* Between migrations every active subscription is on the owner or about to fail; when no
\* connection is being lost, it is served.
LEMMA IdlePlaces ==
  ASSUME Inv, Static, Repair, Idle, NEW s \in Subs, state[s] = "active"
  PROVE  OnOwner(s) \/ Dying(s)
<1>1. \A h \in Handles : todo[h] = {} /\ sub[h] # s BY DEF Idle
<1> QED BY <1>1 DEF Repair, Placed

\* What RepairedUnlessCut asks for follows from the invariant.
LEMMA QuietServes ==
  ASSUME Inv, Static, ~cut => Repair
  PROVE  RepairedUnlessCut
<1> SUFFICES ASSUME Quiet, FailedSubs = {}, ~cut, NEW s \in made PROVE Served(s)
    BY InvTypes DEF RepairedUnlessCut
<1>0. s \in Subs BY DEF Inv, SubTypes
<1>1. Idle BY BetweenMigrations DEF Quiet
<1>2. state[s] = "active" BY <1>0, <1>1 DEF Idle, FailedSubs
<1>3. pubsub[s] \in Conns /\ ChannelOf[s] \in Channels BY <1>0 DEF Inv, SubTypes
<1>4. ~Lost(pubsub[s]) BY <1>3 DEF Quiet, AtRest
<1>5. ~Dying(s) BY <1>3, <1>4 DEF Dying, Lost, Static
<1>6. OnOwner(s) BY <1>0, <1>1, <1>2, <1>5, IdlePlaces
<1>7. ChannelOf[s] \in topics[pubsub[s]]
      BY <1>0, <1>1, <1>3, <1>6 DEF Idle, OnOwner, Repair, Cover
<1> QED BY <1>2, <1>6, <1>7 DEF Served, OnOwner

\* In the beginning all subscriptions are on one connection to the owner.
LEMMA InitRepair == ASSUME Init PROVE Static /\ Repair
<1>1. PICK n \in Nodes, c \in Conns :
        /\ owner = n /\ made \in Starts /\ pubsub = [s \in Subs |-> c]
        /\ conn = [x \in Conns |-> IF x = c THEN "active" ELSE "none"]
        /\ nodeOf = [x \in Conns |-> IF x = c THEN n ELSE NoNode]
        /\ subscriptions = [x \in Conns |-> IF x = c THEN made ELSE {}]
        /\ topics = [x \in Conns |-> IF x = c THEN {ChannelOf[s] : s \in made} ELSE {}]
      BY InitPlaces
<1>2. Idle BY <1>1 DEF Init, Idle, Busy
<1>3. Static BY DEF Init, Static, Busy
<1>4. Home BY <1>1, <1>2 DEF Home, Idle
<1>5. \A s \in Subs : state[s] = "active" => OnOwner(s) BY <1>1 DEF OnOwner, Init
<1>6. Placed BY <1>5 DEF Placed
<1>7. Cover
  <2> SUFFICES ASSUME NEW x \in Conns, NEW s \in Subs, s \in subscriptions[x]
               PROVE  ChannelOf[s] \in topics[x]
      BY DEF Cover
  <2>1. x = c /\ s \in made BY <1>1
  <2>2. topics[c] = {ChannelOf[z] : z \in made} BY <1>1
  <2> QED BY <2>1, <2>2
<1> QED BY <1>2, <1>3, <1>4, <1>6, <1>7, IdleRepair

-----------------------------------------------------------------------------
(* The static part *)

\* Static is inductive with Inv alone.
LEMMA StaticStep == ASSUME Inv, Static, Next PROVE Static'
<1> USE DEF Inv, GoTypes
<1>1. ASSUME NEW what, Launch(what), UNCHANGED connVars PROVE Static'
  <2> DEFINE h == CHOOSE x \in Handles : Unused(x)
  <2>1. h \in Handles BY <1>1, Zenon DEF Launch
  <2>2. active' = h /\ pc' = [pc EXCEPT ![h] = "get"] /\ dest' = dest
        BY <1>1, Zenon DEF Launch, Go
  <2> HIDE DEF h
  <2> QED BY <1>1, <2>1, <2>2 DEF Static, Busy
<1>2. ASSUME UNCHANGED <<active, pc, dest, conn, toNotify>> PROVE Static'
      BY <1>2 DEF Static, Busy
<1>3. ASSUME NEW h \in Handles, NEW p, p # "free", pc' = [pc EXCEPT ![h] = p], pc[h] # "free",
             UNCHANGED <<active, dest, conn, toNotify>>
      PROVE  Static'
      BY <1>3 DEF Static, Busy
<1>4. ASSUME NEW h \in Handles, NEW ch \in Channels, GetPubSub(h, ch) PROVE Static'
  <2>1. PICK c \in Gettable : Open(c) BY <1>4 DEF GetPubSub
  <2>2. c \in Conns /\ conn[c] \in {"active", "none"} BY <2>1 DEF Gettable
  <2>3. toNotify' = toNotify /\ (conn' = conn \/ conn' = [conn EXCEPT ![c] = "active"])
        BY <1>4, <2>1 DEF GetPubSub, Open
  <2>4. \A x \in Conns : toNotify'[x] # {} => conn'[x] = "notifying"
        BY <2>2, <2>3 DEF Static, ConnTypes
  <2>5. /\ pc[h] = "dial" /\ pc' = [pc EXCEPT ![h] = "take"] /\ active' = active
        /\ \A g \in Handles : g # h => dest'[g] = dest[g]
        BY <1>4 DEF GetPubSub, Go
  <2> QED BY <2>4, <2>5 DEF Static, Busy
<1>5. ASSUME NEW h \in Handles, Join(h) PROVE Static'
  <2>1. /\ pc' = [pc EXCEPT ![h] = "free"] /\ dest' = [dest EXCEPT ![h] = [s \in Subs |-> NoConn]]
        /\ active' = (IF active = h THEN NoHandle ELSE active) /\ UNCHANGED connVars
        BY <1>5 DEF Join, Go
  <2> QED BY <2>1 DEF Static, Busy
<1>6. ASSUME NEW c \in Conns, UNCHANGED goVars,
             \A x \in Conns : toNotify'[x] # {} => conn'[x] = "notifying"
      PROVE  Static'
      BY <1>6 DEF Static, Busy
<1>7. ASSUME NEW c \in Conns, Break(c) \/ ExecuteBreaks(c) PROVE Static'
  <2>1. /\ conn[c] = "active" /\ conn' = [conn EXCEPT ![c] = "failed"] /\ toNotify' = toNotify
        /\ UNCHANGED goVars
        BY <1>7 DEF Break, ExecuteBreaks, Fail
  <2>2. \A x \in Conns : toNotify'[x] # {} => conn'[x] = "notifying"
        BY <2>1 DEF Static, ConnTypes
  <2> QED BY <1>6, <2>1, <2>2
<1>8. ASSUME NEW c \in Conns, Snapshot(c) \/ Leave(c) \/ \E s \in Subs : Notify(c, s) PROVE Static'
  <2>1. \A x \in Conns : toNotify'[x] # {} => conn'[x] = "notifying"
        BY <1>8 DEF Snapshot, Leave, Notify, Static, ConnTypes
  <2> QED BY <1>6, <1>8, <2>1 DEF Snapshot, Leave, Notify
<1>9. ASSUME NEW c \in Conns, Execute(c) \/ ExecuteFails(c) \/ Confirm(c) PROVE Static'
      BY <1>2, <1>9 DEF Execute, ExecuteFails, Confirm
<1>10. ASSUME NEW h \in Handles, NEW s \in Subs, Send(h, s) \/ SlowCommand(h, s) PROVE Static'
       BY <1>2, <1>10 DEF Send, SendCommand, SendFails, Confirmed, CommandTimeout, GivesUp,
                          SlowCommand
<1>11. ASSUME NEW h \in Handles, TimePasses(h) \/ Expire(h) \/ Tick(h) \/ FinalCheck(h)
       PROVE  Static'
       BY <1>2, <1>11 DEF TimePasses, Expire, Tick, FinalCheck
<1>12. ASSUME NEW h \in Handles, NEW ch \in Channels,
              GetFails(h, ch) \/ SkipChannel(h, ch) \/ GetAborted(h, ch)
       PROVE  Static'
  <2>1. CASE SkipChannel(h, ch) BY <1>2, <2>1 DEF SkipChannel
  <2>2. CASE GetFails(h, ch) BY <1>3, <2>2 DEF GetFails, Go
  <2>3. CASE GetAborted(h, ch) BY <1>3, <2>3 DEF GetAborted, Go
  <2> QED BY <1>12, <2>1, <2>2, <2>3
<1>13. ASSUME NEW h \in Handles,
              NextChannel(h) \/ AllStarted(h) \/ Mark(h) \/ \E s \in Subs : Take(h, s)
       PROVE  Static'
  <2>1. /\ pc[h] # "free" /\ UNCHANGED <<active, dest, conn, toNotify>>
        /\ \/ pc' = [pc EXCEPT ![h] = "join"]
           \/ pc' = [pc EXCEPT ![h] = "move"]
           \/ pc' = [pc EXCEPT ![h] = "mark"]
           \/ pc' = [pc EXCEPT ![h] = "dial"]
        BY <1>13 DEF NextChannel, AllStarted, Mark, Take, Go
  <2> QED BY <1>3, <2>1
<1>14. ASSUME NEW h \in Handles, Move(h) \/ Decide(h) PROVE Static'
  <2>1. /\ pc[h] # "free" /\ UNCHANGED <<active, dest, conn, toNotify>>
        /\ pc' = [pc EXCEPT ![h] = "decide"] \/ pc' = [pc EXCEPT ![h] = NextSub(h)]
        BY <1>14 DEF Move, Decide, Go
  <2>2. NextSub(h) # "free" BY DEF NextSub
  <2> QED BY <1>3, <2>1, <2>2
<1>15. ASSUME Poll \/ Redirect \/ \E n \in Nodes : HandleMigration(n) PROVE Static'
       BY <1>1, <1>2, <1>15 DEF Poll, Redirect, RecoverFailed, HandleMigration
<1>16. ASSUME NEW h \in Handles, Run(h) PROVE Static'
       BY <1>4, <1>5, <1>12, <1>13, <1>14, <1>16 DEF Run
<1>17. ASSUME NEW c \in Conns, Loop(c) PROVE Static'
       BY <1>8, <1>9, <1>17 DEF Loop
<1> HIDE DEF Inv, GoTypes
<1> QED BY <1>7, <1>10, <1>11, <1>12, <1>15, <1>16, <1>17 DEF Next, System, Environment, Watch

-----------------------------------------------------------------------------
(* Steps between migrations: losses and launches *)

\* A connection is lost between migrations: its subscriptions will be set Failed.
LEMMA LossRepair ==
  ASSUME Inv, Static, Repair, ~cut', NEW c \in Conns,
         Break(c) \/ Snapshot(c) \/ (\E s \in Subs : Notify(c, s)) \/ Leave(c)
  PROVE  Repair'
<1>1. \A h \in Handles : ~Busy(h)
  <2>1. CASE Break(c) BY <2>1, Zenon DEF Break, Fail, Overtaken
  <2>2. CASE Snapshot(c) \/ (\E s \in Subs : Notify(c, s)) \/ Leave(c)
    <3>1. Lost(c) BY <2>2 DEF Snapshot, Notify, Leave, Static, Lost
    <3> QED BY <3>1 DEF Repair, Calm
  <2> QED BY <2>1, <2>2
<1>2. Idle BY <1>1, BetweenMigrations
<1>3. UNCHANGED <<owner, made, pubsub>> /\ UNCHANGED goVars
      BY DEF Break, Snapshot, Notify, Leave
<1>4. \A s \in Subs : confirmCh'[s] = confirmCh[s] /\ state'[s] \in {state[s], "failed"}
      BY <1>2 DEF Break, Snapshot, Notify, Leave, SetState, Idle, Inv, SubTypes
<1>5. \A x \in Conns : cmds'[x] = <<>> /\ replies'[x] = <<>>
      BY <1>2 DEF Break, Fail, Snapshot, Notify, Leave, Idle, Inv, QueueTypes
<1>6. \A x \in Conns, ch \in Channels : pending'[x][ch] = NoSub
      BY <1>2 DEF Break, Snapshot, Notify, Leave, Idle, Inv, ConnTypes
<1>7. Idle'
  <2>1. made \subseteq Subs BY DEF Inv, SubTypes
  <2>2. \A s \in made' : state'[s] \in {"active", "failed"} BY <1>2, <1>3, <1>4, <2>1 DEF Idle
  <2>3. \A s \in Subs : state'[s] # "pending" /\ confirmCh'[s] = "empty" BY <1>2, <1>4 DEF Idle
  <2> QED BY <1>2, <1>3, <1>5, <1>6, <2>2, <2>3 DEF Idle, Busy
<1>8. CASE Break(c)
  <2>1. /\ conn' = [conn EXCEPT ![c] = "failed"] /\ topics' = [topics EXCEPT ![c] = {}]
        /\ UNCHANGED <<state, nodeOf, subscriptions, pending, toNotify, sub, todo, pc>>
        BY <1>8 DEF Break, Fail
  <2>2. Home' BY <2>1, <1>3 DEF Repair, Home, Inv, ConnTypes
  <2>3. Placed'
    <3> SUFFICES ASSUME NEW s \in Subs, state'[s] = "active" PROVE OnOwner(s)' \/ Dying(s)'
        BY DEF Placed
    <3>1. OnOwner(s) \/ Dying(s) BY <1>2, <2>1, IdlePlaces
    <3>2. pubsub[s] \in Conns BY DEF Inv, SubTypes
    <3> QED BY <1>3, <2>1, <3>1, <3>2 DEF OnOwner, Dying, Inv, ConnTypes
  <2>4. Cover' BY <2>1 DEF Repair, Cover, Inv, ConnTypes
  <2> QED BY <1>7, <2>2, <2>3, <2>4, IdleRepair, PTL
<1>9. CASE Snapshot(c)
  <2>1. /\ conn[c] = "failed" /\ conn' = [conn EXCEPT ![c] = "notifying"]
        /\ toNotify' = [toNotify EXCEPT ![c] = subscriptions[c]]
        /\ UNCHANGED <<state, nodeOf, subscriptions, pending, topics, sub, todo, pc>>
        BY <1>9 DEF Snapshot
  <2>2. Home' BY <2>1, <1>3 DEF Repair, Home, Inv, ConnTypes
  <2>3. Placed'
    <3> SUFFICES ASSUME NEW s \in Subs, state'[s] = "active" PROVE OnOwner(s)' \/ Dying(s)'
        BY DEF Placed
    <3>1. OnOwner(s) \/ Dying(s) BY <1>2, <2>1, IdlePlaces
    <3>2. pubsub[s] \in Conns BY DEF Inv, SubTypes
    <3>3. toNotify[c] = {} BY <2>1 DEF Static
    <3> QED BY <1>3, <2>1, <3>1, <3>2, <3>3 DEF OnOwner, Dying, Inv, ConnTypes
  <2>4. Cover' BY <2>1 DEF Repair, Cover, Inv, ConnTypes
  <2> QED BY <1>7, <2>2, <2>3, <2>4, IdleRepair, PTL
<1>10. CASE \E s \in Subs : Notify(c, s)
  <2> PICK z \in Subs : Notify(c, z) BY <1>10
  <2>1. /\ toNotify' = [toNotify EXCEPT ![c] = @ \ {z}] /\ state' = [state EXCEPT ![z] = "failed"]
        /\ UNCHANGED <<conn, nodeOf, subscriptions, pending, topics, sub, todo, pc>>
        BY DEF Notify, SetState
  <2>2. Home' BY <2>1, <1>3 DEF Repair, Home
  <2>3. Placed'
    <3> SUFFICES ASSUME NEW s \in Subs, state'[s] = "active" PROVE OnOwner(s)' \/ Dying(s)'
        BY DEF Placed
    <3>1. s # z /\ state[s] = "active" BY <2>1 DEF Inv, SubTypes
    <3>2. OnOwner(s) \/ Dying(s) BY <1>2, <3>1, IdlePlaces
    <3>3. pubsub[s] \in Conns BY DEF Inv, SubTypes
    <3> QED BY <1>3, <2>1, <3>1, <3>2, <3>3 DEF OnOwner, Dying, Inv, ConnTypes
  <2>4. Cover' BY <2>1 DEF Repair, Cover
  <2> QED BY <1>7, <2>2, <2>3, <2>4, IdleRepair, PTL
<1>11. CASE Leave(c)
  <2>1. ~\E h \in Handles, s \in Subs : dest[h][s] = c BY <1>2 DEF Idle
  <2>2. /\ conn[c] = "notifying" /\ toNotify[c] = {}
        /\ conn' = [conn EXCEPT ![c] = "none"] /\ nodeOf' = [nodeOf EXCEPT ![c] = NoNode]
        /\ subscriptions' = [subscriptions EXCEPT ![c] = {}]
        /\ UNCHANGED <<state, topics, toNotify, sub, todo, pc>>
        BY <1>11, <2>1 DEF Leave
  <2>3. Home' BY <2>2, <1>3 DEF Repair, Home, Inv, ConnTypes
  <2>4. Placed'
    <3> SUFFICES ASSUME NEW s \in Subs, state'[s] = "active" PROVE OnOwner(s)' \/ Dying(s)'
        BY DEF Placed
    <3>1. OnOwner(s) \/ Dying(s) BY <1>2, <2>2, IdlePlaces
    <3>2. pubsub[s] \in Conns BY DEF Inv, SubTypes
    <3> QED BY <1>3, <2>2, <3>1, <3>2 DEF OnOwner, Dying, Inv, ConnTypes
  <2>5. Cover'
    <3> SUFFICES ASSUME NEW x \in Conns, NEW s \in Subs, s \in subscriptions'[x],
                        conn'[x] = "active"
                 PROVE  ChannelOf[s] \in topics'[x]
        BY DEF Cover
    <3>1. x # c /\ s \in subscriptions[x] /\ conn[x] = "active" BY <2>2 DEF Inv, ConnTypes
    <3>2. ChannelOf[s] \in Channels /\ \A h \in Handles : sub[h] # s BY <1>2 DEF Idle
    <3> QED BY <1>2, <2>2, <3>1, <3>2 DEF Repair, Cover, Idle
  <2> QED BY <1>7, <2>3, <2>4, <2>5, IdleRepair, PTL
<1> QED BY <1>8, <1>9, <1>10, <1>11

\* A launch between migrations takes all that is not where it should be.
LEMMA LaunchRepair ==
  ASSUME Inv, Static, Repair, NEW what \in SUBSET Subs, Launch(what), Idle,
         \A c \in Conns : ~Lost(c), UNCHANGED <<made, subVars, connVars>>,
         owner' = owner \/ \A s \in Subs : state[s] = "active" => s \in what
  PROVE  Repair'
<1> DEFINE h == CHOOSE x \in Handles : Unused(x)
<1>1. h \in Handles BY Zenon DEF Launch
<1>2. /\ pc' = [pc EXCEPT ![h] = "get"] /\ todo' = [todo EXCEPT ![h] = what]
      /\ UNCHANGED <<sub, dest, sender>>
      BY Zenon DEF Launch, Go
<1>3. ctx' = [x \in Handles |-> CASE x = h -> "live"
                                  [] x = active /\ ctx[x] = "live" -> "cancelled"
                                  [] OTHER -> ctx[x]]
      BY DEF Launch
<1> HIDE DEF h
<1>4. h # active BY <1>1 DEF Idle, Static
<1>5. ctx'[h] = "live" BY <1>1, <1>3, <1>4
<1>6. /\ \A g \in Handles : Busy(g)' <=> g = h
      /\ pc'[h] = "get"
      BY <1>1, <1>2 DEF Idle, Busy, Inv, GoTypes
<1>7. Alone' BY <1>6 DEF Alone
<1>8. InTime' BY <1>2, <1>6, <1>5 DEF InTime, Idle
<1>9. Calm' BY DEF Calm, Lost
<1>10. Held' BY <1>2 DEF Held, Idle
<1>11. Home' BY <1>2 DEF Repair, Home, Idle
<1>12. InHand' BY <1>1, <1>2 DEF InHand, Idle, Busy, Inv, GoTypes
<1>13. Placed'
  <2> SUFFICES ASSUME NEW s \in Subs, state'[s] = "active"
               PROVE  OnOwner(s)' \/ s \in todo'[h]
      BY <1>1 DEF Placed
  <2>1. OnOwner(s) \/ Dying(s) BY IdlePlaces
  <2>2. pubsub[s] \in Conns BY DEF Inv, SubTypes
  <2>3. OnOwner(s) BY <2>1, <2>2 DEF Dying, Static, Lost
  <2>4. todo'[h] = what BY <1>1, <1>2 DEF Inv, GoTypes
  <2> QED BY <2>3, <2>4 DEF OnOwner
<1>14. SentTo' /\ Sent' BY <1>2 DEF SentTo, Sent, Idle
<1>15. \A c \in Conns : 1..Len(cmds'[c]) = {} /\ 1..Len(replies'[c]) = {} BY DEF Idle
<1>16. Queued' /\ Distinct' /\ Replied' BY <1>15 DEF Queued, Distinct, Replied
<1>17. Expected' /\ Waiting' BY DEF Expected, Waiting, Idle
<1>18. Cover' BY <1>2 DEF Repair, Cover
<1> QED BY <1>7, <1>8, <1>9, <1>10, <1>11, <1>12, <1>13, <1>14, <1>16, <1>17, <1>18 DEF Repair

\* A refresh that overtakes nothing finds every subscription at rest.
LEMMA RefreshRepair ==
  ASSUME Inv, Static, Repair, ~cut', Poll \/ Redirect \/ \E n \in Nodes : HandleMigration(n)
  PROVE  Repair'
<1>1. ~Overtaken BY Zenon DEF Poll, Redirect, RecoverFailed, HandleMigration
<1>2. Idle /\ \A c \in Conns : ~Lost(c) BY <1>1, BetweenMigrations DEF Overtaken
<1>3. UNCHANGED <<made, subVars, connVars>> BY DEF Poll, Redirect, RecoverFailed, HandleMigration
<1>4. CASE Poll \/ Redirect
  <2>1. FailedSubs \in SUBSET Subs BY DEF FailedSubs
  <2>2. Launch(FailedSubs) /\ owner' = owner BY <1>4 DEF Poll, Redirect, RecoverFailed
  <2> QED BY <1>2, <1>3, <2>1, <2>2, LaunchRepair
<1>5. CASE \E n \in Nodes : HandleMigration(n)
  <2> DEFINE affected == {s \in Subs : state[s] \in {"active", "pending"}}
  <2>1. affected \in SUBSET Subs /\ \A s \in Subs : state[s] = "active" => s \in affected OBVIOUS
  <2>2. IF affected # {} THEN Launch(affected) ELSE UNCHANGED goVars BY <1>5 DEF HandleMigration
  <2>3. CASE affected # {}
    <3> HIDE DEF affected
    <3> QED BY <1>2, <1>3, <2>1, <2>2, <2>3, LaunchRepair
  <2>4. CASE affected = {}
    <3>1. UNCHANGED goVars BY <2>2, <2>4
    <3>2. \A s \in Subs : state[s] # "active" BY <2>1, <2>4
    <3> HIDE DEF affected
    <3>3. Idle' BY <1>2, <1>3, <3>1 DEF Idle, Busy
    <3>4. Home' /\ Cover' BY <1>3, <3>1 DEF Repair, Home, Cover
    <3>5. Placed' BY <1>3, <3>2 DEF Placed
    <3> QED BY <3>3, <3>4, <3>5, IdleRepair, PTL
  <2> QED BY <2>3, <2>4
<1> QED BY <1>4, <1>5

-----------------------------------------------------------------------------
(* Steps that cannot be taken, or that do not disturb anything *)

\* The command at the head of the queue, while nothing has interfered.
LEMMA HeadOfQueue ==
  ASSUME Inv, Repair, NEW c \in Conns, cmds[c] # <<>>
  PROVE  \E h \in Handles, s \in Subs :
           /\ Head(cmds[c]) = <<h, s>> /\ cmds[c][1] = <<h, s>> /\ 1 \in 1..Len(cmds[c])
           /\ sender[h][s] = "wait" /\ dest[h][s] = c /\ state[s] = "pending" /\ Busy(h)
<1>1. cmds[c] \in Seq(Handles \X Subs) BY DEF Inv, QueueTypes
<1>2. 1 \in 1..Len(cmds[c]) /\ Head(cmds[c]) = cmds[c][1] /\ cmds[c][1] \in Handles \X Subs
      BY <1>1
<1>3. PICK h \in Handles, s \in Subs : cmds[c][1] = <<h, s>> BY <1>2
<1>4. sender[h][s] = "wait" /\ dest[h][s] = c /\ state[s] = "pending"
      BY <1>2, <1>3 DEF Repair, Queued
<1>5. Busy(h) BY <1>4, OwnedByBusy
<1> QED BY <1>2, <1>3, <1>4, <1>5

\* No goroutine fails, gives up or is overtaken while nothing interferes: each of these
\* steps is impossible or counts as a cut.
LEMMA NoFailure ==
  ASSUME Inv, Static, Repair, ~cut'
  PROVE  /\ \A h \in Handles, ch \in Channels :
              ~SkipChannel(h, ch) /\ ~GetFails(h, ch) /\ ~GetAborted(h, ch)
         /\ \A h \in Handles, s \in Subs : /\ ~SendFails(h, s) /\ ~CommandTimeout(h, s)
                                           /\ ~SlowCommand(h, s) /\ ~GivesUp(h, s)
         /\ \A h \in Handles : ~Expire(h)
         /\ \A c \in Conns : ~ExecuteFails(c) /\ ~ExecuteBreaks(c)
<1>1. ASSUME NEW h \in Handles PROVE ~Expire(h) BY Zenon DEF Expire
<1>2. ASSUME NEW h \in Handles, NEW ch \in Channels PROVE ~GetFails(h, ch) BY Zenon DEF GetFails
<1>3. ASSUME NEW h \in Handles, NEW s \in Subs PROVE ~SlowCommand(h, s) BY Zenon DEF SlowCommand
<1>4. ASSUME NEW h \in Handles, NEW ch \in Channels PROVE ~SkipChannel(h, ch) /\ ~GetAborted(h, ch)
      BY DEF SkipChannel, GetAborted, Repair, InTime, Busy
<1>5. ASSUME NEW h \in Handles, NEW s \in Subs, sender[h][s] # "none"
      PROVE  /\ ctx[h] = "live" /\ sender[h][s] # "timeout"
             /\ dest[h][s] \in Conns /\ conn[dest[h][s]] = "active"
      BY <1>5, OwnedByBusy DEF Repair, InTime, Held
<1>6. ASSUME NEW h \in Handles, NEW s \in Subs PROVE ~SendFails(h, s)
      BY <1>5 DEF SendFails, LoopDone
<1>7. ASSUME NEW h \in Handles, NEW s \in Subs PROVE ~GivesUp(h, s)
      BY <1>5 DEF GivesUp, CtxDone
<1>8. ASSUME NEW h \in Handles, NEW s \in Subs, CommandTimeout(h, s) PROVE FALSE
  <2>1. sender[h][s] = "wait" /\ Hopeless(h, s) BY <1>8 DEF CommandTimeout
  <2>2. confirmCh[s] = "empty" BY <2>1 DEF Hopeless
  <2>3. pending[dest[h][s]][ChannelOf[s]] = s /\ (InCmds(h, s) \/ InReplies(h, s))
        BY <2>1, <2>2 DEF Repair, Sent
  <2> QED BY <2>1, <2>3 DEF Hopeless, Contains, InCmds, InReplies
<1>9. ASSUME NEW c \in Conns, ExecuteFails(c) PROVE FALSE
  <2>1. cmds[c] # <<>> /\ CtxDone(Head(cmds[c])[1], Head(cmds[c])[2]) BY <1>9 DEF ExecuteFails
  <2>2. PICK h \in Handles, s \in Subs : Head(cmds[c]) = <<h, s>> /\ sender[h][s] = "wait"
        BY <2>1, HeadOfQueue
  <2>3. CtxDone(h, s) BY <2>1, <2>2
  <2> QED BY <1>5, <2>2, <2>3 DEF CtxDone
<1>10. ASSUME NEW c \in Conns, ExecuteBreaks(c) PROVE FALSE
  <2>1. cmds[c] # <<>> BY <1>10 DEF ExecuteBreaks
  <2>2. \E h \in Handles : Busy(h) BY <2>1, HeadOfQueue
  <2>3. cut' = (cut \/ Overtaken) BY <1>10, Zenon DEF ExecuteBreaks, Fail
  <2> QED BY <2>2, <2>3, Zenon DEF Overtaken
<1> QED BY <1>1, <1>2, <1>3, <1>4, <1>6, <1>7, <1>8, <1>9, <1>10

\* A step that changes neither subscriptions nor connections nor what goroutines hold.
LEMMA NothingMoved ==
  ASSUME Repair, UNCHANGED <<owner, made, subVars, connVars, todo, sub, sender, dest>>,
         \A h \in Handles : Busy(h)' <=> Busy(h),
         \A h \in Handles : pc'[h] = "decide" <=> pc[h] = "decide",
         \A h \in Handles : Busy(h) => ctx'[h] = ctx[h]
  PROVE  Repair'
<1>1. Alone' /\ InTime' /\ Calm' BY DEF Repair, Alone, InTime, Calm, Lost
<1>2. Held' /\ Home' /\ InHand' BY DEF Repair, Held, Home, InHand
<1>3. Placed'
  <2>1. \A s \in Subs : (OnOwner(s)' <=> OnOwner(s)) /\ (Dying(s)' <=> Dying(s))
        BY DEF OnOwner, Dying
  <2> QED BY <2>1 DEF Repair, Placed
<1>4. SentTo' /\ Sent'
  <2>1. \A h \in Handles, s \in Subs : (InCmds(h, s)' <=> InCmds(h, s))
                                     /\ (InReplies(h, s)' <=> InReplies(h, s))
        BY DEF InCmds, InReplies
  <2> QED BY <2>1 DEF Repair, SentTo, Sent
<1>5. Queued' /\ Distinct' /\ Replied' BY DEF Repair, Queued, Distinct, Replied
<1>6. Expected' /\ Waiting' /\ Cover' BY DEF Repair, Expected, Waiting, Cover
<1> QED BY <1>1, <1>2, <1>3, <1>4, <1>5, <1>6 DEF Repair

\* Steps of the progress goroutine and of time.
LEMMA WatchRepair ==
  ASSUME Inv, Repair, NEW h \in Handles, TimePasses(h) \/ Tick(h) \/ FinalCheck(h) \/ AllStarted(h)
         \/ NextChannel(h)
  PROVE  Repair'
<1> USE DEF Inv, GoTypes, Busy
<1>1. UNCHANGED <<owner, made, subVars, connVars, todo, sub, sender, dest>>
      BY DEF TimePasses, Tick, FinalCheck, AllStarted, NextChannel
<1>2. \/ UNCHANGED <<pc, ctx>>
      \/ pc[h] = "free" /\ UNCHANGED pc /\ ctx' = [ctx EXCEPT ![h] = "live"]
      \/ pc[h] = "get" /\ UNCHANGED ctx /\ pc' = [pc EXCEPT ![h] = "join"]
      \/ pc[h] = "get" /\ UNCHANGED ctx /\ pc' = [pc EXCEPT ![h] = "dial"]
      BY DEF TimePasses, Tick, FinalCheck, AllStarted, NextChannel, Clear, Go
<1>3. /\ \A g \in Handles : Busy(g)' <=> Busy(g)
      /\ \A g \in Handles : pc'[g] = "decide" <=> pc[g] = "decide"
      /\ \A g \in Handles : Busy(g) => ctx'[g] = ctx[g]
      BY <1>2
<1> HIDE DEF Inv, GoTypes, Busy
<1> QED BY <1>1, <1>3, NothingMoved

\* The end of a migration: it held nothing any more.
LEMMA JoinRepair ==
  ASSUME Inv, Static, Repair, NEW h \in Handles, Join(h)
  PROVE  Repair'
<1>1. /\ pc[h] = "join" /\ (\A s \in Subs : sender[h][s] = "none")
      /\ pc' = [pc EXCEPT ![h] = "free"]
      /\ dest' = [dest EXCEPT ![h] = [s \in Subs |-> NoConn]]
      /\ UNCHANGED <<owner, made, subVars, connVars, todo, sub, sender>>
      BY DEF Join, Go
<1>2. sub[h] = NoSub /\ todo[h] = {} BY <1>1 DEF Inv, Control
<1>3. \A g \in Handles : g # h => ~Busy(g) BY <1>1 DEF Repair, Alone, Busy
<1>4. \A g \in Handles : ~Busy(g)' /\ pc'[g] = "free" BY <1>1, <1>3 DEF Busy, Inv, GoTypes
<1>5. \A g \in Handles : sub[g] = NoSub /\ todo[g] = {} /\ \A s \in Subs : sender[g][s] = "none"
      BY <1>1, <1>2, <1>3, OwnedByBusy
<1>6. \A g \in Handles, s \in Subs : dest'[g][s] = NoConn
      BY <1>1, <1>3 DEF Static, Inv, GoTypes
<1>7. Idle' BY <1>1, <1>4, <1>5, <1>6, NothingOnItsWay DEF Idle
<1>8. Home' BY <1>1, <1>5 DEF Repair, Home
<1>9. Placed' BY <1>1 DEF Repair, Placed, OnOwner, Dying
<1>10. Cover' BY <1>1 DEF Repair, Cover
<1> QED BY <1>7, <1>8, <1>9, <1>10, IdleRepair, PTL

-----------------------------------------------------------------------------
(* Steps of the migration's goroutine *)

\* A subscription that is to be taken or is in hand: no sender, no command and no
\* confirmation of it is on its way.
LEMMA NotSent ==
  ASSUME Inv, Repair, NEW h \in Handles, NEW s \in Subs, s \in todo[h] \/ s = sub[h]
  PROVE  /\ Busy(h) /\ \A g \in Handles : g # h => ~Busy(g) /\ sub[g] = NoSub /\ todo[g] = {}
         /\ \A g \in Handles : sender[g][s] = "none"
         /\ state[s] # "pending" /\ confirmCh[s] = "empty"
         /\ \A c \in Conns, ch \in Channels : pending[c][ch] # s
<1>1. Busy(h) BY OwnedByBusy
<1>2. \A g \in Handles : g # h => ~Busy(g) /\ sub[g] = NoSub /\ todo[g] = {}
      BY <1>1, OwnedByBusy DEF Repair, Alone
<1>3. \A g \in Handles : sender[g][s] = "none" BY <1>2, OwnedByBusy
<1>4. state[s] # "pending" /\ confirmCh[s] = "empty" BY <1>3 DEF Repair, Waiting
<1>5. \A c \in Conns, ch \in Channels : pending[c][ch] # s
      BY <1>3 DEF Repair, Expected
<1> QED BY <1>1, <1>2, <1>3, <1>4, <1>5

\* Nobody is Closed, and nobody in hand, while the goroutine is between subscriptions.
LEMMA NobodyInHand ==
  ASSUME Inv, Repair, NEW h \in Handles, pc[h] \in {"get", "dial", "take"}
  PROVE  /\ \A g \in Handles : sub[g] = NoSub /\ pc[g] # "decide"
         /\ \A s \in Subs : state[s] = "closed" => s \notin made
<1>1. \A g \in Handles : sub[g] = NoSub /\ pc[g] # "decide"
  <2>1. \A g \in Handles : pc[g] \in {"free", "get", "dial", "take"} BY DEF Repair, Alone, Busy
  <2> QED BY <2>1 DEF Inv, Control
<1>2. \A s \in Subs : \A g \in Handles : sub[g] # s BY <1>1
<1> QED BY <1>1, <1>2 DEF Repair, Waiting

\* getPubSub returns a connection to the owner, new or shared.
LEMMA GetRepair ==
  ASSUME Inv, Repair, NEW h \in Handles, NEW ch \in Channels, GetPubSub(h, ch)
  PROVE  Repair'
<1>1. PICK c \in Gettable :
        /\ Open(c)
        /\ dest' = [dest EXCEPT ![h] = [s \in Subs |-> IF s \in Group(h, ch) THEN c ELSE @[s]]]
      BY DEF GetPubSub
<1>2. c \in Conns /\ ((conn[c] = "active" /\ nodeOf[c] = owner) \/ conn[c] = "none")
      BY <1>1 DEF Gettable
<1>3. /\ pc[h] = "dial" /\ pc' = [pc EXCEPT ![h] = "take"]
      /\ UNCHANGED <<owner, made, subVars, cmds, topics, replies, toNotify, todo, sub, ctx, sender>>
      BY DEF GetPubSub, Go
<1>4. \A g \in Handles : (Busy(g)' <=> Busy(g)) /\ (pc'[g] = "decide" <=> pc[g] = "decide")
      BY <1>3 DEF Busy, Inv, GoTypes
<1>5. /\ conn'[c] = "active" /\ nodeOf'[c] = owner
      /\ \A x \in Conns : x # c => conn'[x] = conn[x] /\ nodeOf'[x] = nodeOf[x]
      BY <1>1, <1>2 DEF Open, Inv, ConnTypes
<1>6. conn[c] = "none" => /\ subscriptions[c] = {}
                          /\ \A k \in Channels : pending[c][k] = NoSub
  <2> SUFFICES ASSUME conn[c] = "none"
               PROVE  subscriptions[c] = {} /\ \A k \in Channels : pending[c][k] = NoSub
      OBVIOUS
  <2>1. subscriptions[c] = {} BY <1>2 DEF Repair, Home, Inv, ConnTypes
  <2>2. ASSUME NEW k \in Channels, pending[c][k] # NoSub PROVE FALSE
    <3>1. pending[c][k] \in Subs BY <1>2, <2>2 DEF Inv, ConnTypes
    <3>2. PICK g \in Handles : dest[g][pending[c][k]] = c
          BY <1>2, <2>2 DEF Repair, Expected
    <3> QED BY <1>2, <3>1, <3>2 DEF Repair, Held
  <2> QED BY <2>1, <2>2
<1>7. \A x \in Conns : /\ subscriptions'[x] = subscriptions[x]
                       /\ \A k \in Channels : pending'[x][k] = pending[x][k]
  <2>1. CASE conn[c] = "active" BY <1>1, <2>1 DEF Open
  <2>2. CASE conn[c] = "none"
    <3>1. /\ subscriptions' = [subscriptions EXCEPT ![c] = {}]
          /\ pending' = [pending EXCEPT ![c] = [k \in Channels |-> NoSub]]
          BY <1>1, <2>2 DEF Open
    <3> QED BY <1>2, <1>6, <2>2, <3>1 DEF Inv, ConnTypes
  <2> QED BY <1>2, <2>1, <2>2
<1>8. \A s \in Group(h, ch) : s \in todo[h] /\ s \in Subs BY DEF Group, Inv, GoTypes
<1>9. /\ \A g \in Handles, s \in Subs :
           dest'[g][s] = IF g = h /\ s \in Group(h, ch) THEN c ELSE dest[g][s]
      BY <1>1 DEF Inv, GoTypes
<1>10. \A g \in Handles, s \in Subs : sender[g][s] # "none" => dest'[g][s] = dest[g][s]
  <2>1. \A s \in Group(h, ch) : sender[h][s] = "none" BY <1>8, NotSent
  <2> QED BY <1>9, <2>1
<1>11. Alone' /\ InTime' BY <1>3, <1>4 DEF Repair, Alone, InTime
<1>12. Calm' BY <1>4, <1>5 DEF Repair, Calm, Lost
<1>13. Held'
  <2> SUFFICES ASSUME NEW g \in Handles, NEW s \in Subs, dest'[g][s] # NoConn
               PROVE  conn'[dest'[g][s]] = "active" /\ nodeOf'[dest'[g][s]] = owner
      BY <1>3 DEF Held
  <2>1. CASE dest'[g][s] = c BY <1>5, <2>1
  <2>2. CASE dest'[g][s] # c
    <3>1. dest'[g][s] = dest[g][s] /\ dest[g][s] \in Conns BY <1>9, <2>2 DEF Inv, GoTypes
    <3> QED BY <1>5, <2>2, <3>1 DEF Repair, Held
  <2> QED BY <2>1, <2>2
<1>14. Home' BY <1>3, <1>4, <1>5, <1>7 DEF Repair, Home
<1>15. InHand' BY <1>3, <1>4, NobodyInHand DEF InHand
<1>16. Placed'
  <2>1. ASSUME NEW s \in Subs
        PROVE  (OnOwner(s) => OnOwner(s)') /\ (Dying(s) => Dying(s)')
    <3>1. pubsub[s] \in Conns /\ pubsub' = pubsub /\ owner' = owner /\ toNotify' = toNotify
          BY <1>3 DEF Inv, SubTypes
    <3> QED BY <1>2, <1>5, <1>7, <3>1 DEF OnOwner, Dying
  <2> QED BY <1>3, <2>1 DEF Repair, Placed
<1>17. SentTo' BY <1>3, <1>7, <1>10, OwnedByBusy DEF Repair, SentTo
<1>18. Sent'
  <2>1. \A g \in Handles, s \in Subs : sender[g][s] # "none" =>
          (InCmds(g, s)' <=> InCmds(g, s)) /\ (InReplies(g, s)' <=> InReplies(g, s))
        BY <1>3, <1>10 DEF InCmds, InReplies
  <2> QED BY <1>3, <1>7, <1>10, <2>1, OwnedByBusy DEF Repair, Sent
<1>19. Queued'
  <2> SUFFICES ASSUME NEW x \in Conns, NEW i \in 1..Len(cmds[x])
               PROVE  LET g == cmds[x][i][1]
                          s == cmds[x][i][2]
                      IN  sender[g][s] = "wait" /\ dest'[g][s] = x /\ state[s] = "pending"
      BY <1>3 DEF Queued
  <2>1. cmds[x][i] \in Handles \X Subs BY DEF Inv, QueueTypes
  <2>2. cmds[x][i][1] \in Handles /\ cmds[x][i][2] \in Subs BY <2>1
  <2> QED BY <1>10, <2>2 DEF Repair, Queued
<1>20. Distinct' BY <1>3 DEF Repair, Distinct
<1>21. Replied'
  <2>1. \A x \in Conns : \A j \in 1..Len(replies[x]) : replies[x][j] \in Channels
        BY DEF Inv, QueueTypes
  <2> QED BY <1>3, <1>7, <2>1 DEF Repair, Replied
<1>22. Expected'
  <2> SUFFICES ASSUME NEW x \in Conns, NEW k \in Channels, pending[x][k] # NoSub
               PROVE  /\ ChannelOf[pending[x][k]] = k /\ state[pending[x][k]] = "pending"
                      /\ \E g \in Handles : sender[g][pending[x][k]] # "none"
                                            /\ dest'[g][pending[x][k]] = x
      BY <1>3, <1>7 DEF Expected
  <2>1. pending[x][k] \in Subs BY DEF Inv, ConnTypes
  <2> QED BY <1>10, <2>1 DEF Repair, Expected
<1>23. Waiting' BY <1>3 DEF Repair, Waiting
<1>24. Cover' BY <1>2, <1>3, <1>5, <1>6, <1>7 DEF Repair, Cover
<1> QED BY <1>11, <1>12, <1>13, <1>14, <1>15, <1>16, <1>17, <1>18, <1>19, <1>20, <1>21, <1>22,
           <1>23, <1>24 DEF Repair

\* Taken: out of the metadata of the old connection, if it is there.
LEMMA TakeRepair ==
  ASSUME Inv, Repair, NEW h \in Handles, NEW s \in Subs, Take(h, s)
  PROVE  Repair'
<1>1. /\ pc[h] = "take" /\ s \in todo[h] /\ sub' = [sub EXCEPT ![h] = s]
      /\ todo' = [todo EXCEPT ![h] = @ \ {s}]
      /\ \/ pc' = [pc EXCEPT ![h] = "mark"]
         \/ pc' = [pc EXCEPT ![h] = "move"]
      /\ UNCHANGED <<owner, made, subVars, conn, nodeOf, cmds, topics, replies, toNotify, dest, ctx,
                     sender>>
      BY DEF Take, Go
<1>2. pubsub[s] \in Conns /\ ChannelOf[s] \in Channels BY DEF Inv, SubTypes
<1>3. /\ \A g \in Handles : sender[g][s] = "none"
      /\ \A c \in Conns, ch \in Channels : pending[c][ch] # s
      /\ \A g \in Handles : g # h => ~Busy(g)
      BY <1>1, NotSent
<1>4. /\ \A g \in Handles : sub[g] = NoSub /\ pc[g] # "decide"
      /\ \A x \in Subs : state[x] = "closed" => x \notin made
      BY <1>1, NobodyInHand
<1>5. \A c \in Conns : subscriptions'[c] = subscriptions[c] \ {s}
  <2>1. \A c \in Conns : s \in subscriptions[c] => c = pubsub[s] /\ conn[c] # "none"
        BY DEF Repair, Home
  <2>2. CASE conn[pubsub[s]] = "none" BY <2>1, <2>2 DEF Take
  <2>3. CASE conn[pubsub[s]] # "none"
    <3>1. subscriptions' = [subscriptions EXCEPT ![pubsub[s]] = @ \ {s}]
          BY <2>3 DEF Take, RemoveSubscription
    <3> QED BY <1>2, <2>1, <3>1 DEF Inv, ConnTypes
  <2> QED BY <2>2, <2>3
<1>6. \A c \in Conns, ch \in Channels : pending'[c][ch] = pending[c][ch]
  <2>1. CASE UNCHANGED pending BY <2>1
  <2>2. CASE pending' = [pending EXCEPT ![pubsub[s]][ChannelOf[s]] = IF @ = s THEN NoSub ELSE @]
    <3>1. pending[pubsub[s]][ChannelOf[s]] # s BY <1>2, <1>3
    <3>2. pending' = [pending EXCEPT ![pubsub[s]][ChannelOf[s]] = pending[pubsub[s]][ChannelOf[s]]]
          BY <2>2, <3>1
    <3> QED BY <1>2, <3>2 DEF Inv, ConnTypes
  <2> QED BY <2>1, <2>2 DEF Take, RemoveSubscription
<1>7. /\ sub'[h] = s /\ \A g \in Handles : g # h => sub'[g] = NoSub
      /\ \A g \in Handles : (Busy(g)' <=> Busy(g)) /\ pc'[g] # "decide"
      BY <1>1, <1>4 DEF Busy, Inv, GoTypes
<1>8. Alone' /\ InTime' /\ Calm' BY <1>1, <1>7 DEF Repair, Alone, InTime, Calm, Lost
<1>9. Held' /\ InHand' BY <1>1, <1>7 DEF Repair, Held, InHand
<1>10. Home' BY <1>1, <1>5, <1>7 DEF Repair, Home
<1>11. Placed'
  <2> SUFFICES ASSUME NEW x \in Subs, state[x] = "active", x # s
               PROVE  OnOwner(x)' \/ Dying(x)' \/ \E g \in Handles : x \in todo'[g]
      BY <1>1, <1>7 DEF Placed
  <2>1. OnOwner(x) \/ Dying(x) \/ \E g \in Handles : x \in todo[g]
        BY <1>4 DEF Repair, Placed
  <2>2. pubsub[x] \in Conns BY DEF Inv, SubTypes
  <2>3. (OnOwner(x) => OnOwner(x)') /\ (Dying(x) => Dying(x)')
        BY <1>1, <1>5, <2>2 DEF OnOwner, Dying
  <2>4. \A g \in Handles : x \in todo[g] => x \in todo'[g] BY <1>1 DEF Inv, GoTypes
  <2> QED BY <2>1, <2>3, <2>4
<1>12. SentTo' BY <1>1, <1>3, <1>5, OwnedByBusy DEF Repair, SentTo
<1>13. Sent'
  <2>1. \A g \in Handles, x \in Subs : (InCmds(g, x)' <=> InCmds(g, x))
                                     /\ (InReplies(g, x)' <=> InReplies(g, x))
        BY <1>1 DEF InCmds, InReplies
  <2> QED BY <1>1, <1>6, <2>1, OwnedByBusy DEF Repair, Sent
<1>14. Queued' /\ Distinct' BY <1>1 DEF Repair, Queued, Distinct
<1>15. Replied'
  <2>1. \A x \in Conns : \A j \in 1..Len(replies[x]) : replies[x][j] \in Channels
        BY DEF Inv, QueueTypes
  <2> QED BY <1>1, <1>6, <2>1 DEF Repair, Replied
<1>16. Expected' BY <1>1, <1>6 DEF Repair, Expected
<1>17. Waiting' BY <1>1, <1>4 DEF Repair, Waiting
<1>18. Cover' BY <1>1, <1>4, <1>5, <1>6 DEF Repair, Cover
<1> QED BY <1>8, <1>9, <1>10, <1>11, <1>12, <1>13, <1>14, <1>15, <1>16, <1>17, <1>18 DEF Repair

\* In hand, it is Closed if its old connection still works.
LEMMA MarkRepair ==
  ASSUME Inv, Repair, NEW h \in Handles, Mark(h)
  PROVE  Repair'
<1> DEFINE s == sub[h]
<1>1. s \in Subs /\ pc[h] = "mark" BY OwnedByBusy DEF Mark
<1>2. /\ \A g \in Handles : g # h => ~Busy(g) /\ sub[g] = NoSub
      /\ \A g \in Handles : sender[g][s] = "none"
      /\ state[s] # "pending" /\ \A c \in Conns, ch \in Channels : pending[c][ch] # s
      BY <1>1, NotSent
<1>3. /\ pc' = [pc EXCEPT ![h] = "move"]
      /\ state' = state \/ state' = [state EXCEPT ![s] = "closed"]
      /\ UNCHANGED <<owner, made, pubsub, connVars, todo, sub, dest, ctx, sender>>
      BY DEF Mark, Go, SetState
<1>4. \A x \in Subs : confirmCh'[x] = confirmCh[x]
      BY <1>1, <1>2 DEF Mark, SetState, Inv, SubTypes
<1>5. \A x \in Subs : x # s => state'[x] = state[x] BY <1>3 DEF Inv, SubTypes
<1>6. \A g \in Handles : (Busy(g)' <=> Busy(g)) /\ pc'[g] # "decide"
      BY <1>1, <1>2, <1>3 DEF Busy, Inv, GoTypes
<1>7. \A x \in Subs : state'[x] \in {state[x], "closed"} BY <1>3 DEF Inv, SubTypes
<1>8. s = sub[h] OBVIOUS
<1> HIDE DEF s
<1>9. Alone' /\ InTime' /\ Calm' BY <1>3, <1>6 DEF Repair, Alone, InTime, Calm, Lost
<1>10. Held' /\ InHand' BY <1>3, <1>6 DEF Repair, Held, InHand
<1>11. Home'
  <2> SUFFICES ASSUME NEW c \in Conns, NEW x \in Subs, x \in subscriptions[c]
               PROVE  pubsub[x] = c /\ conn[c] # "none" /\ \A g \in Handles : sub[g] # x
      BY <1>3 DEF Home
  <2>1. pubsub[x] = c /\ conn[c] # "none" /\ \A g \in Handles : sub[g] = x => pc[g] = "decide"
        BY DEF Repair, Home
  <2>2. \A g \in Handles : sub[g] # x BY <1>1, <1>2, <2>1
  <2> QED BY <2>1, <2>2
<1>12. Placed'
  <2>1. \A x \in Subs : (OnOwner(x)' <=> OnOwner(x)) /\ (Dying(x)' <=> Dying(x))
        BY <1>3 DEF OnOwner, Dying
  <2> QED BY <1>3, <1>5, <1>8, <2>1 DEF Repair, Placed
<1>13. SentTo' BY <1>3 DEF Repair, SentTo
<1>14. Sent'
  <2>1. \A g \in Handles, x \in Subs : (InCmds(g, x)' <=> InCmds(g, x))
                                     /\ (InReplies(g, x)' <=> InReplies(g, x))
        BY <1>3 DEF InCmds, InReplies
  <2>2. \A g \in Handles, x \in Subs : sender[g][x] # "none" => state'[x] = state[x]
        BY <1>2, <1>5
  <2> QED BY <1>3, <1>4, <2>1, <2>2 DEF Repair, Sent
<1>15. Queued'
  <2> SUFFICES ASSUME NEW c \in Conns, NEW i \in 1..Len(cmds[c])
               PROVE  LET g == cmds[c][i][1]
                          x == cmds[c][i][2]
                      IN  sender[g][x] = "wait" /\ dest[g][x] = c /\ state'[x] = "pending"
      BY <1>3 DEF Queued
  <2>1. cmds[c][i] \in Handles \X Subs BY DEF Inv, QueueTypes
  <2>2. cmds[c][i][1] \in Handles /\ cmds[c][i][2] \in Subs BY <2>1
  <2> QED BY <1>2, <1>5, <2>2 DEF Repair, Queued
<1>16. Distinct' /\ Replied' BY <1>3 DEF Repair, Distinct, Replied
<1>17. Expected'
  <2>1. \A c \in Conns, ch \in Channels : pending[c][ch] \in Subs \cup {NoSub} /\ pending[c][ch] # s
        BY <1>2 DEF Inv, ConnTypes
  <2> QED BY <1>3, <1>5, <2>1 DEF Repair, Expected
<1>18. Waiting' BY <1>3, <1>4, <1>5, <1>7, <1>8 DEF Repair, Waiting
<1>19. Cover' BY <1>3 DEF Repair, Cover
<1> QED BY <1>9, <1>10, <1>11, <1>12, <1>13, <1>14, <1>15, <1>16, <1>17, <1>18, <1>19 DEF Repair

\* On the new connection, and in its metadata.
LEMMA MoveRepair ==
  ASSUME Inv, Repair, NEW h \in Handles, Move(h)
  PROVE  Repair'
<1> DEFINE s == sub[h]
           c == dest[h][s]
<1>1. s \in Subs /\ c \in Conns /\ pc[h] = "move" BY OwnedByBusy DEF Move
<1>2. /\ \A g \in Handles : g # h => ~Busy(g) /\ sub[g] = NoSub
      /\ \A g \in Handles : sender[g][s] = "none"
      BY <1>1, NotSent
<1>3. conn[c] = "active" /\ nodeOf[c] = owner BY <1>1 DEF Repair, Held
<1>4. /\ pubsub' = [pubsub EXCEPT ![s] = c]
      /\ subscriptions' = [subscriptions EXCEPT ![c] = @ \cup {s}]
      /\ pc' = [pc EXCEPT ![h] = "decide"]
      /\ UNCHANGED <<owner, made, state, confirmCh, conn, nodeOf, pending, cmds, topics, replies,
                     toNotify, todo, sub, dest, ctx, sender>>
      BY <1>3 DEF Move, Go
<1>5. s = sub[h] /\ c = dest[h][s] OBVIOUS
<1> HIDE DEF s, c
<1>6. /\ \A g \in Handles : (Busy(g)' <=> Busy(g)) /\ (pc'[g] = "decide" => g = h)
      /\ pc'[h] = "decide"
      BY <1>1, <1>2, <1>4 DEF Busy, Inv, GoTypes
<1>7. /\ pubsub'[s] = c /\ \A x \in Subs : x # s => pubsub'[x] = pubsub[x]
      /\ subscriptions'[c] = subscriptions[c] \cup {s}
      /\ \A x \in Conns : x # c => subscriptions'[x] = subscriptions[x]
      BY <1>1, <1>4 DEF Inv, SubTypes, ConnTypes
<1>8. \A x \in Conns : s \notin subscriptions[x] BY <1>1, <1>5 DEF Repair, Home
<1>9. Alone' /\ InTime' /\ Calm' BY <1>4, <1>6 DEF Repair, Alone, InTime, Calm, Lost
<1>10. Held' BY <1>4 DEF Repair, Held
<1>11. InHand' BY <1>4, <1>5, <1>6, <1>7 DEF InHand
<1>12. Home'
  <2> SUFFICES ASSUME NEW d \in Conns, NEW x \in Subs, x \in subscriptions'[d]
               PROVE  /\ pubsub'[x] = d /\ conn[d] # "none"
                      /\ \A g \in Handles : sub[g] = x => pc'[g] = "decide"
      BY <1>4 DEF Home
  <2>1. CASE x = s
    <3>1. d = c BY <1>7, <1>8, <2>1
    <3>2. \A g \in Handles : sub[g] = x => g = h BY <1>1, <1>2, <2>1
    <3> QED BY <1>3, <1>6, <1>7, <2>1, <3>1, <3>2
  <2>2. CASE x # s
    <3>1. x \in subscriptions[d] BY <1>7, <2>2
    <3>2. pubsub[x] = d /\ conn[d] # "none" BY <3>1 DEF Repair, Home
    <3>3. \A g \in Handles : sub[g] # x BY <1>2, <1>5, <2>2
    <3> QED BY <1>7, <2>2, <3>2, <3>3
  <2> QED BY <2>1, <2>2
<1>13. Placed'
  <2> SUFFICES ASSUME NEW x \in Subs, state[x] = "active", x # s
               PROVE  OnOwner(x)' \/ Dying(x)' \/ \E g \in Handles : x \in todo[g] \/ x = sub[g]
      BY <1>4, <1>5 DEF Placed
  <2>1. pubsub[x] \in Conns /\ pubsub'[x] = pubsub[x] BY <1>7 DEF Inv, SubTypes
  <2>2. (OnOwner(x) => OnOwner(x)') /\ (Dying(x) => Dying(x)')
        BY <1>4, <1>7, <2>1 DEF OnOwner, Dying
  <2> QED BY <2>2 DEF Repair, Placed
<1>14. SentTo' BY <1>2, <1>4, <1>7, OwnedByBusy DEF Repair, SentTo
<1>15. Sent'
  <2>1. \A g \in Handles, x \in Subs : (InCmds(g, x)' <=> InCmds(g, x))
                                     /\ (InReplies(g, x)' <=> InReplies(g, x))
        BY <1>4 DEF InCmds, InReplies
  <2> QED BY <1>4, <2>1 DEF Repair, Sent
<1>16. Queued' /\ Distinct' /\ Replied' BY <1>4 DEF Repair, Queued, Distinct, Replied
<1>17. Expected' /\ Waiting' BY <1>4 DEF Repair, Expected, Waiting
<1>18. Cover' BY <1>4, <1>5, <1>7 DEF Repair, Cover
<1> QED BY <1>9, <1>10, <1>11, <1>12, <1>13, <1>14, <1>15, <1>16, <1>17, <1>18 DEF Repair

\* First on its channel: Pending, with a sender. Otherwise Active, because the
\* channel is subscribed or a SUBSCRIBE for it is on its way.
LEMMA DecideRepair ==
  ASSUME Inv, Repair, NEW h \in Handles, Decide(h)
  PROVE  Repair'
<1> DEFINE s  == sub[h]
           c  == dest[h][s]
           ch == ChannelOf[s]
<1>1. s \in Subs /\ c \in Conns /\ pc[h] = "decide" /\ ch \in Channels
      BY OwnedByBusy DEF Decide
<1>2. /\ Busy(h) /\ \A g \in Handles : g # h => ~Busy(g) /\ sub[g] = NoSub
      /\ \A g \in Handles : sender[g][s] = "none"
      /\ state[s] # "pending" /\ confirmCh[s] = "empty"
      /\ \A x \in Conns, k \in Channels : pending[x][k] # s
      BY <1>1, NotSent
<1>3. conn[c] = "active" /\ nodeOf[c] = owner BY <1>1 DEF Repair, Held
<1>4. s \in subscriptions[c] /\ pubsub[s] = c BY <1>1 DEF Repair, InHand, Home
<1>5. ctx[h] = "live" BY <1>2 DEF Repair, InTime
<1>6. /\ pc' = [pc EXCEPT ![h] = NextSub(h)] /\ sub' = [sub EXCEPT ![h] = NoSub]
      /\ UNCHANGED <<owner, made, pubsub, conn, nodeOf, subscriptions, cmds, topics, replies, toNotify,
                     todo, dest, ctx>>
      BY DEF Decide, Go
<1>7. \/ /\ OnChannel(c, ch) = {s} /\ ResetToPending(s)
         /\ pending' = [pending EXCEPT ![c][ch] = s] /\ sender' = [sender EXCEPT ![h][s] = "send"]
      \/ /\ OnChannel(c, ch) # {s} /\ SetState(s, "active", "ok") /\ UNCHANGED <<pending, sender>>
      BY <1>5 DEF Decide, IsFirst
<1>8. NextSub(h) \in {"take", "get"} BY DEF NextSub
<1>9. s = sub[h] /\ c = dest[h][s] /\ ch = ChannelOf[s] OBVIOUS
<1> HIDE DEF s, c, ch
<1>10. /\ \A g \in Handles : (Busy(g)' <=> Busy(g)) /\ pc'[g] # "decide" /\ sub'[g] = NoSub
       /\ \A g \in Handles, x \in Subs : sub[g] = x => x = s
  <2>1. /\ pc'[h] \in {"take", "get"} /\ sub'[h] = NoSub
        /\ \A g \in Handles : g # h => pc'[g] = pc[g] /\ sub'[g] = sub[g]
        BY <1>6, <1>8 DEF Inv, GoTypes
  <2>2. \A g \in Handles : (Busy(g)' <=> Busy(g)) /\ pc'[g] # "decide" /\ sub'[g] = NoSub
        BY <1>1, <1>2, <2>1 DEF Busy
  <2>3. \A g \in Handles, x \in Subs : sub[g] = x => x = s BY <1>2, <1>9
  <2> QED BY <2>2, <2>3
<1>11. /\ \A x \in Subs : x # s => state'[x] = state[x]
       /\ \A x \in Subs : confirmCh'[x] = confirmCh[x]
       BY <1>1, <1>2, <1>7 DEF SetState, ResetToPending, Inv, SubTypes
<1>12. \A g \in Handles, x \in Subs : x # s => sender'[g][x] = sender[g][x]
  <2>1. sender' = sender \/ sender' = [sender EXCEPT ![h][s] = "send"] BY <1>7
  <2>2. sender \in [Handles -> [Subs -> {"none", "send", "wait", "timeout"}]] BY DEF Inv, GoTypes
  <2> QED BY <2>1, <2>2
<1>13. \A x \in Conns : \A i \in 1..Len(cmds[x]) : /\ cmds[x][i] \in Handles \X Subs
         /\ cmds[x][i][1] \in Handles /\ cmds[x][i][2] \in Subs /\ cmds[x][i][2] # s
  <2> SUFFICES ASSUME NEW x \in Conns, NEW i \in 1..Len(cmds[x])
               PROVE  /\ cmds[x][i] \in Handles \X Subs
                      /\ cmds[x][i][1] \in Handles /\ cmds[x][i][2] \in Subs /\ cmds[x][i][2] # s
      OBVIOUS
  <2>1. cmds[x][i] \in Handles \X Subs BY DEF Inv, QueueTypes
  <2>2. cmds[x][i][1] \in Handles /\ cmds[x][i][2] \in Subs BY <2>1
  <2>3. sender[cmds[x][i][1]][cmds[x][i][2]] = "wait" BY DEF Repair, Queued
  <2> QED BY <1>2, <2>1, <2>2, <2>3
<1>14. Alone' /\ Calm' BY <1>6, <1>10 DEF Repair, Alone, Calm, Lost
<1>15. Held' /\ InHand' BY <1>6, <1>10 DEF Repair, Held, InHand
<1>16. Home'
  <2>1. \A g \in Handles, x \in Subs : sub'[g] # x BY <1>10
  <2> QED BY <1>6, <2>1 DEF Repair, Home
<1>17. ASSUME NEW x \in Subs PROVE (OnOwner(x)' <=> OnOwner(x)) /\ (Dying(x)' <=> Dying(x))
       BY <1>6 DEF OnOwner, Dying
<1>18. Placed'
  <2>1. OnOwner(s) BY <1>3, <1>4 DEF OnOwner
  <2> QED BY <1>1, <1>6, <1>10, <1>11, <1>17, <2>1 DEF Repair, Placed
<1>19. Queued' BY <1>6, <1>11, <1>12, <1>13 DEF Repair, Queued
<1>20. Distinct' BY <1>6 DEF Repair, Distinct
<1>21. ASSUME NEW g \in Handles, NEW x \in Subs
       PROVE  (InCmds(g, x)' <=> InCmds(g, x)) /\ (InReplies(g, x)' <=> InReplies(g, x))
       BY <1>6 DEF InCmds, InReplies
<1>22. \A x \in Subs : state[x] = "closed" => x = s \/ x \notin made BY <1>10 DEF Repair, Waiting
<1>23. \A x \in Conns : \A j \in 1..Len(replies[x]) : replies[x][j] \in Channels
       BY DEF Inv, QueueTypes
<1>24. \A x \in Conns, k \in Channels : pending[x][k] \in Subs \cup {NoSub} BY DEF Inv, ConnTypes
<1>25. CASE OnChannel(c, ch) = {s} /\ ResetToPending(s)
            /\ pending' = [pending EXCEPT ![c][ch] = s]
            /\ sender' = [sender EXCEPT ![h][s] = "send"]
  <2>1. pending[c][ch] = NoSub
    <3> SUFFICES ASSUME pending[c][ch] # NoSub PROVE FALSE OBVIOUS
    <3>1. pending[c][ch] \in Subs BY <1>1, <1>24
    <3>2. PICK g \in Handles : sender[g][pending[c][ch]] # "none" /\ dest[g][pending[c][ch]] = c
          BY <1>1 DEF Repair, Expected
    <3>3. pending[c][ch] \in OnChannel(c, ch)
          BY <1>1, <3>1, <3>2 DEF Repair, Expected, SentTo, OnChannel
    <3> QED BY <1>1, <1>2, <1>25, <3>3
  <2>2. state'[s] = "pending" /\ confirmCh'[s] = "empty" /\ sender'[h][s] = "send"
        /\ pending'[c][ch] = s /\ \A g \in Handles : g # h => sender'[g][s] = "none"
        BY <1>1, <1>2, <1>25 DEF ResetToPending, Inv, SubTypes, ConnTypes, GoTypes
  <2>3. \A x \in Conns, k \in Channels : ~(x = c /\ k = ch) => pending'[x][k] = pending[x][k]
        BY <1>1, <1>25 DEF Inv, ConnTypes
  <2>4. InTime' BY <1>6, <1>10, <1>12, <2>2 DEF Repair, InTime
  <2>5. SentTo' BY <1>2, <1>4, <1>6, <1>9, <1>12, <2>2 DEF Repair, SentTo
  <2>6. Sent'
    <3> SUFFICES ASSUME NEW g \in Handles, NEW x \in Subs, sender'[g][x] # "none"
                 PROVE  \/ /\ state'[x] = "pending" /\ confirmCh'[x] = "empty"
                           /\ pending'[dest[g][x]][ChannelOf[x]] = x
                           /\ sender'[g][x] = "send" \/ InCmds(g, x)' \/ InReplies(g, x)'
                        \/ sender'[g][x] = "wait" /\ state'[x] = "active" /\ confirmCh'[x] = "ok"
        BY <1>6 DEF Sent
    <3>1. CASE x = s
      <4>1. g = h BY <2>2, <3>1
      <4> QED BY <1>9, <2>2, <3>1, <4>1
    <3>2. CASE x # s
      <4>1. sender[g][x] # "none" /\ dest[g][x] \in Conns /\ ChannelOf[x] \in Channels
            BY <1>12, <3>2, OwnedByBusy
      <4>2. \/ /\ state[x] = "pending" /\ confirmCh[x] = "empty"
               /\ pending[dest[g][x]][ChannelOf[x]] = x
               /\ sender[g][x] = "send" \/ InCmds(g, x) \/ InReplies(g, x)
            \/ sender[g][x] = "wait" /\ state[x] = "active" /\ confirmCh[x] = "ok"
            BY <4>1 DEF Repair, Sent
      <4>3. pending[dest[g][x]][ChannelOf[x]] = x => pending'[dest[g][x]][ChannelOf[x]] = x
            BY <2>1, <2>3, <4>1
      <4> QED BY <1>11, <1>12, <1>21, <3>2, <4>2, <4>3
    <3> QED BY <3>1, <3>2
  <2>7. Replied'
    <3> SUFFICES ASSUME NEW x \in Conns, NEW j \in 1..Len(replies[x])
                 PROVE  /\ replies[x][j] \in topics[x] /\ pending'[x][replies[x][j]] # NoSub
                        /\ \A g \in Handles : sender'[g][pending'[x][replies[x][j]]] # "send"
        BY <1>6 DEF Replied
    <3>1. /\ replies[x][j] \in topics[x] /\ pending[x][replies[x][j]] # NoSub
          /\ \A g \in Handles : sender[g][pending[x][replies[x][j]]] # "send"
          BY DEF Repair, Replied
    <3>2. pending'[x][replies[x][j]] = pending[x][replies[x][j]] BY <1>23, <2>1, <2>3, <3>1
    <3>3. pending[x][replies[x][j]] \in Subs /\ pending[x][replies[x][j]] # s
          BY <1>2, <1>23, <1>24, <3>1
    <3> QED BY <1>12, <3>1, <3>2, <3>3
  <2>8. Expected'
    <3> SUFFICES ASSUME NEW x \in Conns, NEW k \in Channels, pending'[x][k] # NoSub
                 PROVE  /\ ChannelOf[pending'[x][k]] = k /\ state'[pending'[x][k]] = "pending"
                        /\ \E g \in Handles : sender'[g][pending'[x][k]] # "none"
                                              /\ dest[g][pending'[x][k]] = x
        BY <1>6 DEF Expected
    <3>1. CASE x = c /\ k = ch BY <1>9, <2>2, <3>1
    <3>2. CASE ~(x = c /\ k = ch)
      <4>1. pending'[x][k] = pending[x][k] /\ pending[x][k] \in Subs /\ pending[x][k] # s
            BY <1>2, <1>24, <2>3, <3>2
      <4> QED BY <1>11, <1>12, <4>1 DEF Repair, Expected
    <3> QED BY <3>1, <3>2
  <2>9. Waiting' BY <1>6, <1>11, <1>12, <1>22, <2>2 DEF Repair, Waiting
  <2>10. Cover'
    <3> SUFFICES ASSUME NEW x \in Conns, NEW z \in Subs, z \in subscriptions[x], conn[x] = "active"
                 PROVE  ChannelOf[z] \in topics[x] \/ pending'[x][ChannelOf[z]] # NoSub
        BY <1>6 DEF Cover
    <3>1. CASE z = s
      <4>1. x = c BY <1>4, <3>1 DEF Repair, Home
      <4> QED BY <1>1, <1>9, <2>2, <3>1, <4>1
    <3>2. CASE z # s
      <4>1. ChannelOf[z] \in topics[x] \/ pending[x][ChannelOf[z]] # NoSub
            BY <1>10, <3>2 DEF Repair, Cover
      <4>2. ChannelOf[z] \in Channels OBVIOUS
      <4> QED BY <1>1, <2>2, <2>3, <4>1, <4>2
    <3> QED BY <3>1, <3>2
  <2> QED BY <1>14, <1>15, <1>16, <1>18, <1>19, <1>20, <2>4, <2>5, <2>6, <2>7, <2>8, <2>9, <2>10
          DEF Repair
<1>26. CASE OnChannel(c, ch) # {s} /\ SetState(s, "active", "ok") /\ UNCHANGED <<pending, sender>>
  <2>1. state'[s] = "active" BY <1>1, <1>26 DEF SetState, Inv, SubTypes
  <2>2. InTime' BY <1>6, <1>10, <1>26 DEF Repair, InTime
  <2>3. SentTo' BY <1>6, <1>26 DEF Repair, SentTo
  <2>4. Sent'
    <3>1. \A g \in Handles, x \in Subs : sender[g][x] # "none" => state'[x] = state[x]
          BY <1>2, <1>11
    <3> QED BY <1>6, <1>11, <1>21, <1>26, <3>1 DEF Repair, Sent
  <2>5. Replied' BY <1>6, <1>26 DEF Repair, Replied
  <2>6. Expected' BY <1>2, <1>6, <1>11, <1>24, <1>26 DEF Repair, Expected
  <2>7. Waiting' BY <1>6, <1>11, <1>22, <1>26, <2>1 DEF Repair, Waiting
  <2>8. ch \in topics[c] \/ pending[c][ch] # NoSub
    <3>1. s \in OnChannel(c, ch) BY <1>4, <1>9 DEF OnChannel
    <3>2. PICK x \in OnChannel(c, ch) : x # s BY <1>26, <3>1
    <3>3. x \in Subs /\ x \in subscriptions[c] /\ ChannelOf[x] = ch
          BY <1>1, <3>2 DEF OnChannel, Inv, ConnTypes
    <3> QED BY <1>1, <1>3, <1>10, <3>2, <3>3 DEF Repair, Cover
  <2>9. Cover'
    <3> SUFFICES ASSUME NEW x \in Conns, NEW z \in Subs, z \in subscriptions[x], conn[x] = "active"
                 PROVE  ChannelOf[z] \in topics[x] \/ pending[x][ChannelOf[z]] # NoSub
        BY <1>6, <1>26 DEF Cover
    <3>1. CASE z = s
      <4>1. x = c BY <1>4, <3>1 DEF Repair, Home
      <4> QED BY <1>9, <2>8, <3>1, <4>1
    <3>2. CASE z # s BY <1>10, <3>2 DEF Repair, Cover
    <3> QED BY <3>1, <3>2
  <2> QED BY <1>14, <1>15, <1>16, <1>18, <1>19, <1>20, <2>2, <2>3, <2>4, <2>5, <2>6, <2>7, <2>9
          DEF Repair
<1> QED BY <1>7, <1>25, <1>26

-----------------------------------------------------------------------------
(* Steps of senders and event loops *)

\* Who has a sender has it in the one migration there is.
LEMMA OneSender ==
  ASSUME Inv, Repair, NEW g \in Handles, NEW h \in Handles, NEW s \in Subs, NEW x \in Subs,
         sender[g][x] # "none", sender[h][s] # "none"
  PROVE  g = h
BY OwnedByBusy DEF Repair, Alone

\* The SUBSCRIBE is queued at the connection.
LEMMA SendRepair ==
  ASSUME Inv, Repair, NEW h \in Handles, NEW s \in Subs, SendCommand(h, s)
  PROVE  Repair'
<1> DEFINE c == dest[h][s]
<1>1. sender[h][s] = "send" /\ c \in Conns /\ ChannelOf[s] \in Channels
      BY OwnedByBusy DEF SendCommand
<1>2. conn[c] = "active" BY <1>1 DEF Repair, Held
<1>3. /\ cmds' = [cmds EXCEPT ![c] = Append(@, <<h, s>>)]
      /\ sender' = [sender EXCEPT ![h][s] = "wait"]
      /\ UNCHANGED <<owner, made, subVars, conn, nodeOf, subscriptions, pending, topics, replies,
                     toNotify, pc, todo, sub, dest, ctx>>
      BY <1>2 DEF SendCommand
<1>4. state[s] = "pending" /\ confirmCh[s] = "empty" /\ pending[c][ChannelOf[s]] = s
      BY <1>1 DEF Repair, Sent
<1>5. c = dest[h][s] OBVIOUS
<1> HIDE DEF c
<1>6. /\ sender'[h][s] = "wait"
      /\ \A g \in Handles, x \in Subs : g # h \/ x # s => sender'[g][x] = sender[g][x]
      BY <1>3 DEF Inv, GoTypes
<1>7. cmds[c] \in Seq(Handles \X Subs) /\ Len(cmds[c]) \in Nat BY <1>1 DEF Inv, QueueTypes
<1>8. cmds'[c] = Append(cmds[c], <<h, s>>) /\ \A x \in Conns : x # c => cmds'[x] = cmds[x]
      BY <1>1, <1>3 DEF Inv, QueueTypes
<1>9. /\ Len(cmds'[c]) = Len(cmds[c]) + 1 /\ cmds'[c][Len(cmds[c]) + 1] = <<h, s>>
      /\ \A i \in 1..Len(cmds[c]) : cmds'[c][i] = cmds[c][i]
      BY <1>7, <1>8
<1>10. ASSUME NEW i \in 1..Len(cmds[c]) PROVE ChannelOf[cmds[c][i][2]] # ChannelOf[s]
  <2> SUFFICES ASSUME ChannelOf[cmds[c][i][2]] = ChannelOf[s] PROVE FALSE OBVIOUS
  <2>1. PICK g \in Handles, x \in Subs : cmds[c][i] = <<g, x>> BY <1>7
  <2>2. sender[g][x] = "wait" /\ dest[g][x] = c /\ state[x] = "pending"
        BY <1>1, <2>1 DEF Repair, Queued
  <2>3. pending[c][ChannelOf[s]] = x BY <2>1, <2>2 DEF Repair, Sent
  <2> QED BY <1>1, <1>4, <2>2, <2>3, OneSender
<1>11. ASSUME NEW j \in 1..Len(replies[c]) PROVE replies[c][j] # ChannelOf[s]
       BY <1>1, <1>4 DEF Repair, Replied
<1>12. Alone' /\ Calm' BY <1>3 DEF Repair, Alone, Calm, Lost, Busy
<1>13. InTime' BY <1>3, <1>6 DEF Repair, InTime, Busy
<1>14. Held' /\ Home' /\ InHand' /\ Cover' BY <1>3 DEF Repair, Held, Home, InHand, Cover
<1>15. Placed'
  <2>1. \A x \in Subs : (OnOwner(x)' <=> OnOwner(x)) /\ (Dying(x)' <=> Dying(x))
        BY <1>3 DEF OnOwner, Dying
  <2> QED BY <1>3, <2>1 DEF Repair, Placed
<1>16. SentTo' BY <1>1, <1>3, <1>6 DEF Repair, SentTo
<1>17. Sent'
  <2> SUFFICES ASSUME NEW g \in Handles, NEW x \in Subs, sender'[g][x] # "none"
               PROVE  \/ /\ state[x] = "pending" /\ confirmCh[x] = "empty"
                         /\ pending[dest[g][x]][ChannelOf[x]] = x
                         /\ sender'[g][x] = "send" \/ InCmds(g, x)' \/ InReplies(g, x)'
                      \/ sender'[g][x] = "wait" /\ state[x] = "active" /\ confirmCh[x] = "ok"
      BY <1>3 DEF Sent
  <2>1. CASE g = h /\ x = s
    <3>1. InCmds(h, s)'
      <4>1. dest'[h][s] = c BY <1>3, <1>5
      <4>2. Len(cmds[c]) + 1 \in 1..Len(cmds'[c]) BY <1>7, <1>9
      <4>3. \E i \in 1..Len(cmds'[c]) : cmds'[c][i] = <<h, s>> BY <1>9, <4>2
      <4> QED BY <4>1, <4>3 DEF InCmds
    <3> QED BY <1>4, <1>5, <2>1, <3>1
  <2>2. CASE g # h \/ x # s
    <3>1. sender'[g][x] = sender[g][x] BY <1>6, <2>2
    <3>2. dest[g][x] \in Conns BY <3>1, OwnedByBusy
    <3>3. InCmds(g, x) => InCmds(g, x)'
      <4> SUFFICES ASSUME NEW i \in 1..Len(cmds[dest[g][x]]), cmds[dest[g][x]][i] = <<g, x>>
                   PROVE  /\ i \in 1..Len(cmds'[dest[g][x]])
                          /\ cmds'[dest[g][x]][i] = <<g, x>>
          BY <1>3 DEF InCmds
      <4>1. CASE dest[g][x] = c BY <1>7, <1>9, <4>1
      <4>2. CASE dest[g][x] # c BY <1>8, <3>2, <4>2
      <4> QED BY <4>1, <4>2
    <3>4. InReplies(g, x) => InReplies(g, x)' BY <1>3 DEF InReplies
    <3> QED BY <3>1, <3>3, <3>4 DEF Repair, Sent
  <2> QED BY <2>1, <2>2
<1>18. Queued'
  <2> SUFFICES ASSUME NEW x \in Conns, NEW i \in 1..Len(cmds'[x])
               PROVE  LET g == cmds'[x][i][1]
                          z == cmds'[x][i][2]
                      IN  sender'[g][z] = "wait" /\ dest[g][z] = x /\ state[z] = "pending"
      BY <1>3 DEF Queued
  <2>1. CASE x = c /\ i = Len(cmds[c]) + 1
    <3>1. cmds'[x][i] = <<h, s>> BY <1>9, <2>1
    <3> QED BY <1>4, <1>5, <1>6, <2>1, <3>1
  <2>2. CASE ~(x = c /\ i = Len(cmds[c]) + 1)
    <3>1. i \in 1..Len(cmds[x]) /\ cmds'[x][i] = cmds[x][i] BY <1>7, <1>8, <1>9, <2>2
    <3>2. PICK g \in Handles, z \in Subs : cmds[x][i] = <<g, z>>
          BY <3>1 DEF Inv, QueueTypes
    <3>3. sender[g][z] = "wait" /\ dest[g][z] = x /\ state[z] = "pending"
          BY <3>1, <3>2 DEF Repair, Queued
    <3>4. sender'[g][z] = "wait" BY <1>6, <3>3
    <3> QED BY <3>1, <3>2, <3>3, <3>4
  <2> QED BY <2>1, <2>2
<1>19. Distinct'
  <2> SUFFICES ASSUME NEW x \in Conns
               PROVE  /\ \A i, j \in 1..Len(cmds'[x]) :
                           ChannelOf[cmds'[x][i][2]] = ChannelOf[cmds'[x][j][2]] => i = j
                      /\ \A i, j \in 1..Len(replies[x]) : replies[x][i] = replies[x][j] => i = j
                      /\ \A i \in 1..Len(cmds'[x]), j \in 1..Len(replies[x]) :
                           ChannelOf[cmds'[x][i][2]] # replies[x][j]
      BY <1>3 DEF Distinct
  <2>1. CASE x # c BY <1>8, <2>1 DEF Repair, Distinct
  <2>2. CASE x = c
    <3>1. \A i \in 1..Len(cmds'[c]) :
            ChannelOf[cmds'[c][i][2]] = IF i = Len(cmds[c]) + 1 THEN ChannelOf[s]
                                                               ELSE ChannelOf[cmds[c][i][2]]
          BY <1>7, <1>9
    <3>2. \A i \in 1..Len(cmds'[c]) : i = Len(cmds[c]) + 1 \/ i \in 1..Len(cmds[c])
          BY <1>7, <1>9
    <3> QED BY <1>1, <1>10, <1>11, <2>2, <3>1, <3>2 DEF Repair, Distinct
  <2> QED BY <2>1, <2>2
<1>20. Replied'
  <2>1. ASSUME NEW x \in Conns, NEW j \in 1..Len(replies[x])
        PROVE  pending[x][replies[x][j]] \in Subs
    <3>1. replies[x][j] \in Channels BY DEF Inv, QueueTypes
    <3> QED BY <3>1 DEF Repair, Replied, Inv, ConnTypes
  <2> QED BY <1>3, <1>6, <2>1 DEF Repair, Replied
<1>21. Expected'
  <2>1. \A x \in Conns, k \in Channels : pending[x][k] \in Subs \cup {NoSub} BY DEF Inv, ConnTypes
  <2> QED BY <1>3, <1>6, <2>1 DEF Repair, Expected
<1>22. Waiting' BY <1>3, <1>6 DEF Repair, Waiting
<1> QED BY <1>12, <1>13, <1>14, <1>15, <1>16, <1>17, <1>18, <1>19, <1>20, <1>21, <1>22 DEF Repair

\* The sender takes its own confirmation.
LEMMA ConfirmedRepair ==
  ASSUME Inv, Repair, NEW h \in Handles, NEW s \in Subs, Confirmed(h, s)
  PROVE  Repair'
<1>1. sender[h][s] # "none" /\ confirmCh[s] # "empty" BY DEF Confirmed
<1>2. state[s] = "active" /\ confirmCh[s] = "ok" BY <1>1 DEF Repair, Sent
<1>3. /\ confirmCh' = [confirmCh EXCEPT ![s] = "empty"] /\ UNCHANGED state
      /\ sender' = [sender EXCEPT ![h][s] = "none"]
      /\ UNCHANGED <<owner, made, pubsub, connVars, pc, todo, sub, dest, ctx>>
      BY <1>2 DEF Confirmed, SenderEnds
<1>4. /\ sender'[h][s] = "none"
      /\ \A g \in Handles, x \in Subs : g # h \/ x # s => sender'[g][x] = sender[g][x]
      /\ confirmCh'[s] = "empty" /\ \A x \in Subs : x # s => confirmCh'[x] = confirmCh[x]
      BY <1>3 DEF Inv, GoTypes, SubTypes
<1>5. Alone' /\ Calm' BY <1>3 DEF Repair, Alone, Calm, Lost, Busy
<1>6. InTime' BY <1>3, <1>4 DEF Repair, InTime, Busy
<1>7. Held' /\ Home' /\ InHand' /\ Cover' BY <1>3 DEF Repair, Held, Home, InHand, Cover
<1>8. Placed'
  <2>1. \A x \in Subs : (OnOwner(x)' <=> OnOwner(x)) /\ (Dying(x)' <=> Dying(x))
        BY <1>3 DEF OnOwner, Dying
  <2> QED BY <1>3, <2>1 DEF Repair, Placed
<1>9. SentTo' BY <1>3, <1>4 DEF Repair, SentTo
<1>10. Sent'
  <2>1. \A g \in Handles, x \in Subs : (InCmds(g, x)' <=> InCmds(g, x))
                                     /\ (InReplies(g, x)' <=> InReplies(g, x))
        BY <1>3 DEF InCmds, InReplies
  <2>2. \A g \in Handles : sender'[g][s] = "none" BY <1>1, <1>4, OneSender
  <2> QED BY <1>3, <1>4, <2>1, <2>2 DEF Repair, Sent
<1>11. Queued'
  <2> SUFFICES ASSUME NEW c \in Conns, NEW i \in 1..Len(cmds[c])
               PROVE  LET g == cmds[c][i][1]
                          x == cmds[c][i][2]
                      IN  sender'[g][x] = "wait" /\ dest[g][x] = c /\ state[x] = "pending"
      BY <1>3 DEF Queued
  <2>1. PICK g \in Handles, x \in Subs : cmds[c][i] = <<g, x>> BY DEF Inv, QueueTypes
  <2>2. sender[g][x] = "wait" /\ dest[g][x] = c /\ state[x] = "pending"
        BY <2>1 DEF Repair, Queued
  <2>3. sender'[g][x] = "wait" BY <1>2, <1>4, <2>2
  <2> QED BY <2>1, <2>2, <2>3
<1>12. Distinct' BY <1>3 DEF Repair, Distinct
<1>13. Replied'
  <2>1. ASSUME NEW x \in Conns, NEW j \in 1..Len(replies[x])
        PROVE  pending[x][replies[x][j]] \in Subs
    <3>1. replies[x][j] \in Channels BY DEF Inv, QueueTypes
    <3> QED BY <3>1 DEF Repair, Replied, Inv, ConnTypes
  <2> QED BY <1>3, <1>4, <2>1 DEF Repair, Replied
<1>14. Expected'
  <2>1. \A x \in Conns, k \in Channels : pending[x][k] \in Subs \cup {NoSub} BY DEF Inv, ConnTypes
  <2> QED BY <1>2, <1>3, <1>4, <2>1 DEF Repair, Expected
<1>15. Waiting' BY <1>2, <1>3, <1>4 DEF Repair, Waiting
<1> QED BY <1>5, <1>6, <1>7, <1>8, <1>9, <1>10, <1>11, <1>12, <1>13, <1>14, <1>15 DEF Repair

\* The event loop sends the SUBSCRIBE to Redis, which will answer.
LEMMA ExecuteRepair ==
  ASSUME Inv, Repair, NEW c \in Conns, Execute(c)
  PROVE  Repair'
<1>1. PICK h \in Handles, s \in Subs :
        /\ Head(cmds[c]) = <<h, s>> /\ cmds[c][1] = <<h, s>> /\ 1 \in 1..Len(cmds[c])
        /\ sender[h][s] = "wait" /\ dest[h][s] = c /\ state[s] = "pending"
      BY HeadOfQueue DEF Execute
<1> DEFINE ch == ChannelOf[s]
<1>2. /\ topics' = [topics EXCEPT ![c] = @ \cup {ch}]
      /\ replies' = [replies EXCEPT ![c] = Append(@, ch)]
      /\ cmds' = [cmds EXCEPT ![c] = Tail(@)] /\ cmds[c] # <<>>
      /\ UNCHANGED <<owner, made, subVars, conn, nodeOf, subscriptions, pending, toNotify, goVars>>
  <2>1. Head(cmds[c])[2] = s BY <1>1
  <2>2. /\ topics' = [topics EXCEPT ![c] = @ \cup {ChannelOf[Head(cmds[c])[2]]}]
        /\ replies' = [replies EXCEPT ![c] = Append(@, ChannelOf[Head(cmds[c])[2]])]
        /\ cmds' = [cmds EXCEPT ![c] = Tail(@)] /\ cmds[c] # <<>>
        /\ UNCHANGED <<owner, made, subVars, conn, nodeOf, subscriptions, pending, toNotify, goVars>>
        BY DEF Execute
  <2> QED BY <2>1, <2>2
<1>3. ch \in Channels /\ ch = ChannelOf[s] OBVIOUS
<1> HIDE DEF ch
<1>4. pending[c][ch] = s BY <1>1, <1>3 DEF Repair, Sent
<1>5. /\ cmds[c] \in Seq(Handles \X Subs) /\ Len(cmds[c]) \in Nat
      /\ replies[c] \in Seq(Channels) /\ Len(replies[c]) \in Nat
      BY DEF Inv, QueueTypes
<1>6. /\ cmds'[c] = Tail(cmds[c]) /\ replies'[c] = Append(replies[c], ch)
      /\ \A x \in Conns : x # c => cmds'[x] = cmds[x] /\ replies'[x] = replies[x]
      BY <1>2 DEF Inv, QueueTypes
<1>7. /\ Len(cmds'[c]) = Len(cmds[c]) - 1
      /\ \A i \in 1..Len(cmds'[c]) : i + 1 \in 1..Len(cmds[c]) /\ cmds'[c][i] = cmds[c][i + 1]
  <2>1. cmds[c] # <<>> /\ cmds'[c] = Tail(cmds[c]) BY <1>2, <1>6
  <2> QED BY <1>5, <2>1
<1>8. /\ Len(replies'[c]) = Len(replies[c]) + 1 /\ replies'[c][Len(replies[c]) + 1] = ch
      /\ \A i \in 1..Len(replies[c]) : replies'[c][i] = replies[c][i]
      BY <1>3, <1>5, <1>6
<1>9. /\ \A i \in 1..Len(cmds[c]) : ChannelOf[cmds[c][i][2]] = ch => i = 1
      /\ \A j \in 1..Len(replies[c]) : replies[c][j] # ch
      BY <1>1, <1>3 DEF Repair, Distinct
<1>10. \A x \in Conns : topics[x] \subseteq topics'[x] /\ (x = c => ch \in topics'[x])
       BY <1>2 DEF Inv, ConnTypes
<1>11. Alone' /\ InTime' /\ Calm' BY <1>2 DEF Repair, Alone, InTime, Calm, Lost, Busy
<1>12. Held' /\ Home' /\ InHand' BY <1>2 DEF Repair, Held, Home, InHand
<1>13. Cover' BY <1>2, <1>10 DEF Repair, Cover
<1>14. Placed'
  <2>1. \A x \in Subs : (OnOwner(x)' <=> OnOwner(x)) /\ (Dying(x)' <=> Dying(x))
        BY <1>2 DEF OnOwner, Dying
  <2> QED BY <1>2, <2>1 DEF Repair, Placed
<1>15. SentTo' /\ Expected' /\ Waiting' BY <1>2 DEF Repair, SentTo, Expected, Waiting
<1>16. Sent'
  <2>1. ASSUME NEW g \in Handles, NEW x \in Subs, sender[g][x] # "none", InReplies(g, x)
        PROVE  InReplies(g, x)'
    <3>1. PICK j \in 1..Len(replies[dest[g][x]]) : replies[dest[g][x]][j] = ChannelOf[x]
          BY <2>1 DEF InReplies
    <3>2. dest[g][x] \in Conns BY <2>1, OwnedByBusy
    <3>3. j \in 1..Len(replies'[dest[g][x]]) /\ replies'[dest[g][x]][j] = ChannelOf[x]
      <4>1. CASE dest[g][x] = c BY <1>5, <1>8, <3>1, <4>1
      <4>2. CASE dest[g][x] # c BY <1>6, <3>1, <3>2, <4>2
      <4> QED BY <4>1, <4>2
    <3> QED BY <1>2, <3>3 DEF InReplies
  <2>2. ASSUME NEW g \in Handles, NEW x \in Subs, sender[g][x] # "none", InCmds(g, x)
        PROVE  InCmds(g, x)' \/ InReplies(g, x)'
    <3>1. PICK i \in 1..Len(cmds[dest[g][x]]) : cmds[dest[g][x]][i] = <<g, x>>
          BY <2>2 DEF InCmds
    <3>2. dest[g][x] \in Conns BY <2>2, OwnedByBusy
    <3>3. CASE dest[g][x] # c BY <1>2, <1>6, <3>1, <3>2, <3>3 DEF InCmds
    <3>4. CASE dest[g][x] = c /\ i = 1
      <4>1. x = s BY <1>1, <3>1, <3>4
      <4>2. Len(replies[c]) + 1 \in 1..Len(replies'[c]) BY <1>5, <1>8
      <4>3. \E j \in 1..Len(replies'[c]) : replies'[c][j] = ChannelOf[x] BY <1>3, <1>8, <4>1, <4>2
      <4> QED BY <1>2, <3>4, <4>3 DEF InReplies
    <3>5. CASE dest[g][x] = c /\ i # 1
      <4>1. i - 1 \in 1..Len(cmds'[c]) BY <1>5, <1>7, <3>1, <3>5
      <4>2. cmds'[c][i - 1] = <<g, x>> BY <1>5, <1>7, <3>1, <3>5, <4>1
      <4>3. \E j \in 1..Len(cmds'[c]) : cmds'[c][j] = <<g, x>> BY <4>1, <4>2
      <4> QED BY <1>2, <3>5, <4>3 DEF InCmds
    <3> QED BY <3>3, <3>4, <3>5
  <2> QED BY <1>2, <2>1, <2>2 DEF Repair, Sent
<1>17. Queued'
  <2> SUFFICES ASSUME NEW x \in Conns, NEW i \in 1..Len(cmds'[x])
               PROVE  LET g == cmds'[x][i][1]
                          z == cmds'[x][i][2]
                      IN  sender[g][z] = "wait" /\ dest[g][z] = x /\ state[z] = "pending"
    <3>1. UNCHANGED <<sender, dest, state>> BY <1>2
    <3> QED BY <3>1 DEF Queued
  <2>1. PICK j \in 1..Len(cmds[x]) : cmds'[x][i] = cmds[x][j] BY <1>6, <1>7
  <2> QED BY <2>1 DEF Repair, Queued
<1>18. Distinct'
  <2> SUFFICES ASSUME NEW x \in Conns
               PROVE  /\ \A i, j \in 1..Len(cmds'[x]) :
                           ChannelOf[cmds'[x][i][2]] = ChannelOf[cmds'[x][j][2]] => i = j
                      /\ \A i, j \in 1..Len(replies'[x]) : replies'[x][i] = replies'[x][j] => i = j
                      /\ \A i \in 1..Len(cmds'[x]), j \in 1..Len(replies'[x]) :
                           ChannelOf[cmds'[x][i][2]] # replies'[x][j]
      BY DEF Distinct
  <2>1. CASE x # c
    <3>1. cmds'[x] = cmds[x] /\ replies'[x] = replies[x] BY <1>6, <2>1
    <3> QED BY <3>1 DEF Repair, Distinct
  <2>2. CASE x = c
    <3>1. /\ \A i, j \in 1..Len(cmds[c]) :
               ChannelOf[cmds[c][i][2]] = ChannelOf[cmds[c][j][2]] => i = j
          /\ \A i \in 1..Len(cmds[c]), j \in 1..Len(replies[c]) :
               ChannelOf[cmds[c][i][2]] # replies[c][j]
          BY DEF Repair, Distinct
    <3>2. \A i, j \in 1..Len(cmds'[c]) :
            ChannelOf[cmds'[c][i][2]] = ChannelOf[cmds'[c][j][2]] => i = j
      <4> SUFFICES ASSUME NEW i \in 1..Len(cmds'[c]), NEW j \in 1..Len(cmds'[c]),
                          ChannelOf[cmds'[c][i][2]] = ChannelOf[cmds'[c][j][2]]
                   PROVE  i = j
          OBVIOUS
      <4>1. /\ i + 1 \in 1..Len(cmds[c]) /\ cmds'[c][i] = cmds[c][i + 1]
            /\ j + 1 \in 1..Len(cmds[c]) /\ cmds'[c][j] = cmds[c][j + 1]
            BY <1>7
      <4>2. ChannelOf[cmds[c][i + 1][2]] = ChannelOf[cmds[c][j + 1][2]] BY <4>1
      <4>3. i + 1 = j + 1 BY <3>1, <4>1, <4>2
      <4> QED BY <4>3
    <3>3. \A j \in 1..Len(replies'[c]) :
            \/ j = Len(replies[c]) + 1 /\ replies'[c][j] = ch
            \/ j \in 1..Len(replies[c]) /\ replies'[c][j] = replies[c][j]
          BY <1>5, <1>8
    <3>4. \A i, j \in 1..Len(replies'[c]) : replies'[c][i] = replies'[c][j] => i = j
          BY <1>9, <3>3 DEF Repair, Distinct
    <3>5. \A i \in 1..Len(cmds'[c]) : ChannelOf[cmds'[c][i][2]] # ch
          BY <1>5, <1>7, <1>9
    <3>6. \A i \in 1..Len(cmds'[c]), j \in 1..Len(replies[c]) :
            ChannelOf[cmds'[c][i][2]] # replies[c][j]
          BY <1>7, <3>1
    <3> QED BY <2>2, <3>2, <3>3, <3>4, <3>5, <3>6
  <2> QED BY <2>1, <2>2
<1>19. Replied'
  <2> SUFFICES ASSUME NEW x \in Conns, NEW j \in 1..Len(replies'[x])
               PROVE  /\ replies'[x][j] \in topics'[x] /\ pending[x][replies'[x][j]] # NoSub
                      /\ \A g \in Handles : sender[g][pending[x][replies'[x][j]]] # "send"
      BY <1>2 DEF Replied
  <2>1. CASE x = c /\ j = Len(replies[c]) + 1
    <3>1. replies'[x][j] = ch /\ pending[x][ch] = s BY <1>4, <1>8, <2>1
    <3>2. \A g \in Handles : sender[g][s] # "send" BY <1>1, OneSender
    <3> QED BY <1>10, <2>1, <3>1, <3>2
  <2>2. CASE ~(x = c /\ j = Len(replies[c]) + 1)
    <3>1. j \in 1..Len(replies[x]) /\ replies'[x][j] = replies[x][j] BY <1>5, <1>6, <1>8, <2>2
    <3> QED BY <1>10, <3>1 DEF Repair, Replied
  <2> QED BY <2>1, <2>2
<1> QED BY <1>11, <1>12, <1>13, <1>14, <1>15, <1>16, <1>17, <1>18, <1>19 DEF Repair

\* The answer sets the pending subscription Active and signals its sender.
LEMMA ConfirmRepair ==
  ASSUME Inv, Repair, NEW c \in Conns, Confirm(c)
  PROVE  Repair'
<1> DEFINE ch == Head(replies[c])
           s  == pending[c][ch]
<1>1. /\ replies[c] # <<>> /\ replies[c] \in Seq(Channels) /\ Len(replies[c]) \in Nat
      BY DEF Confirm, Inv, QueueTypes
<1>2. 1 \in 1..Len(replies[c]) /\ ch = replies[c][1] /\ ch \in Channels BY <1>1
<1>3. /\ s # NoSub /\ s \in Subs /\ ch \in topics[c] /\ \A g \in Handles : sender[g][s] # "send"
      BY <1>2 DEF Repair, Replied, Inv, ConnTypes
<1>4. PICK h \in Handles : /\ sender[h][s] # "none" /\ dest[h][s] = c
                           /\ ChannelOf[s] = ch /\ state[s] = "pending"
      BY <1>2, <1>3 DEF Repair, Expected
<1>5. /\ SetState(s, "active", "ok") /\ pending' = [pending EXCEPT ![c][ch] = NoSub]
      /\ replies' = [replies EXCEPT ![c] = Tail(@)]
      /\ UNCHANGED <<owner, made, pubsub, conn, nodeOf, subscriptions, cmds, topics, toNotify, goVars>>
      BY <1>3 DEF Confirm
<1>6. s = pending[c][ch] OBVIOUS
<1> HIDE DEF s, ch
<1>7. sender[h][s] = "wait" /\ confirmCh[s] = "empty"
      BY <1>3, <1>4 DEF Repair, InTime, Sent, Inv, GoTypes
<1>8. /\ state'[s] = "active" /\ confirmCh'[s] = "ok"
      /\ \A x \in Subs : x # s => state'[x] = state[x] /\ confirmCh'[x] = confirmCh[x]
      BY <1>3, <1>4, <1>5, <1>7 DEF SetState, Inv, SubTypes
<1>9. /\ pending'[c][ch] = NoSub
      /\ \A x \in Conns, k \in Channels : ~(x = c /\ k = ch) => pending'[x][k] = pending[x][k]
      BY <1>2, <1>5 DEF Inv, ConnTypes
<1>10. /\ \A x \in Conns : x # c => replies'[x] = replies[x]
       /\ replies'[c] = Tail(replies[c])
       BY <1>5 DEF Inv, QueueTypes
<1>11. /\ Len(replies'[c]) = Len(replies[c]) - 1
       /\ \A i \in 1..Len(replies'[c]) :
            i + 1 \in 1..Len(replies[c]) /\ replies'[c][i] = replies[c][i + 1]
       BY <1>1, <1>10
<1>12. \A i \in 1..Len(replies[c]) : replies[c][i] = ch => i = 1 BY <1>2 DEF Repair, Distinct
<1>13. \A x \in Conns, k \in Channels : pending[x][k] = s => x = c /\ k = ch
  <2> SUFFICES ASSUME NEW x \in Conns, NEW k \in Channels, pending[x][k] = s
               PROVE  x = c /\ k = ch
      OBVIOUS
  <2>1. k = ch BY <1>3, <1>4 DEF Repair, Expected
  <2>2. PICK g \in Handles : sender[g][s] # "none" /\ dest[g][s] = x
        BY <1>3 DEF Repair, Expected
  <2>3. g = h BY <1>3, <1>4, <2>2, OneSender
  <2> QED BY <1>4, <2>1, <2>2, <2>3
<1>14. Alone' /\ InTime' /\ Calm' BY <1>5 DEF Repair, Alone, InTime, Calm, Lost, Busy
<1>15. Held' /\ Home' /\ InHand' BY <1>5 DEF Repair, Held, Home, InHand
<1>16. Cover'
  <2> SUFFICES ASSUME NEW x \in Conns, NEW z \in Subs, z \in subscriptions[x], conn[x] = "active"
               PROVE  \/ ChannelOf[z] \in topics[x] \/ pending'[x][ChannelOf[z]] # NoSub
                      \/ \E g \in Handles : sub[g] = z
      BY <1>5 DEF Cover
  <2>1. \/ ChannelOf[z] \in topics[x] \/ pending[x][ChannelOf[z]] # NoSub
        \/ \E g \in Handles : sub[g] = z
        BY DEF Repair, Cover
  <2>2. ChannelOf[z] \in Channels OBVIOUS
  <2> QED BY <1>3, <1>9, <2>1, <2>2
<1>17. Placed'
  <2>1. \A x \in Subs : (OnOwner(x)' <=> OnOwner(x)) /\ (Dying(x)' <=> Dying(x))
        BY <1>5 DEF OnOwner, Dying
  <2>2. OnOwner(s)
    <3>1. pubsub[s] = c /\ s \in subscriptions[c] BY <1>3, <1>4 DEF Repair, SentTo
    <3>2. conn[c] = "active" /\ nodeOf[c] = owner BY <1>3, <1>4 DEF Repair, Held
    <3> QED BY <3>1, <3>2 DEF OnOwner
  <2> QED BY <1>3, <1>5, <1>8, <2>1, <2>2 DEF Repair, Placed
<1>18. SentTo' BY <1>5 DEF Repair, SentTo
<1>19. Sent'
  <2> SUFFICES ASSUME NEW g \in Handles, NEW x \in Subs, sender[g][x] # "none"
               PROVE  \/ /\ state'[x] = "pending" /\ confirmCh'[x] = "empty"
                         /\ pending'[dest[g][x]][ChannelOf[x]] = x
                         /\ sender[g][x] = "send" \/ InCmds(g, x)' \/ InReplies(g, x)'
                      \/ sender[g][x] = "wait" /\ state'[x] = "active" /\ confirmCh'[x] = "ok"
      BY <1>5 DEF Sent
  <2>1. CASE x = s
    <3>1. g = h BY <1>3, <1>4, OneSender
    <3> QED BY <1>7, <1>8, <2>1, <3>1
  <2>2. CASE x # s
    <3>1. dest[g][x] \in Conns /\ ChannelOf[x] \in Channels BY OwnedByBusy
    <3>2. \/ /\ state[x] = "pending" /\ confirmCh[x] = "empty"
             /\ pending[dest[g][x]][ChannelOf[x]] = x
             /\ sender[g][x] = "send" \/ InCmds(g, x) \/ InReplies(g, x)
          \/ sender[g][x] = "wait" /\ state[x] = "active" /\ confirmCh[x] = "ok"
          BY DEF Repair, Sent
    <3>3. CASE sender[g][x] = "wait" /\ state[x] = "active" /\ confirmCh[x] = "ok"
          BY <1>8, <2>2, <3>3
    <3>4. CASE /\ state[x] = "pending" /\ confirmCh[x] = "empty"
               /\ pending[dest[g][x]][ChannelOf[x]] = x
               /\ sender[g][x] = "send" \/ InCmds(g, x) \/ InReplies(g, x)
      <4>1. ~(dest[g][x] = c /\ ChannelOf[x] = ch) BY <1>6, <2>2, <3>4
      <4>2. pending'[dest[g][x]][ChannelOf[x]] = x BY <1>9, <3>1, <3>4, <4>1
      <4>3. InCmds(g, x) => InCmds(g, x)' BY <1>5 DEF InCmds
      <4>4. ASSUME InReplies(g, x) PROVE InReplies(g, x)'
        <5>1. PICK j \in 1..Len(replies[dest[g][x]]) : replies[dest[g][x]][j] = ChannelOf[x]
              BY <4>4 DEF InReplies
        <5>2. CASE dest[g][x] # c BY <1>5, <1>10, <3>1, <5>1, <5>2 DEF InReplies
        <5>3. CASE dest[g][x] = c
          <6>1. j # 1 BY <1>2, <4>1, <5>1, <5>3
          <6>2. j - 1 \in 1..Len(replies'[c]) BY <1>1, <1>11, <5>1, <5>3, <6>1
          <6>3. replies'[c][j - 1] = ChannelOf[x] BY <1>1, <1>11, <5>1, <5>3, <6>2
          <6>4. \E i \in 1..Len(replies'[c]) : replies'[c][i] = ChannelOf[x] BY <6>2, <6>3
          <6> QED BY <1>5, <5>3, <6>4 DEF InReplies
        <5> QED BY <5>2, <5>3
      <4> QED BY <1>8, <2>2, <3>4, <4>2, <4>3, <4>4
    <3> QED BY <3>2, <3>3, <3>4
  <2> QED BY <2>1, <2>2
<1>20. Queued'
  <2> SUFFICES ASSUME NEW x \in Conns, NEW i \in 1..Len(cmds[x])
               PROVE  LET g == cmds[x][i][1]
                          z == cmds[x][i][2]
                      IN  sender[g][z] = "wait" /\ dest[g][z] = x /\ state'[z] = "pending"
      BY <1>5 DEF Queued
  <2>1. PICK g \in Handles, z \in Subs : cmds[x][i] = <<g, z>> BY DEF Inv, QueueTypes
  <2>2. sender[g][z] = "wait" /\ dest[g][z] = x /\ state[z] = "pending"
        BY <2>1 DEF Repair, Queued
  <2>3. z # s
    <3> SUFFICES ASSUME z = s PROVE FALSE OBVIOUS
    <3>1. x = c BY <1>3, <1>4, <2>2, OneSender
    <3>2. ChannelOf[cmds[c][i][2]] = replies[c][1] BY <1>2, <1>4, <2>1, <3>1
    <3> QED BY <1>2, <3>1, <3>2 DEF Repair, Distinct
  <2> QED BY <1>8, <2>1, <2>2, <2>3
<1>21. Distinct'
  <2> SUFFICES ASSUME NEW x \in Conns
               PROVE  /\ \A i, j \in 1..Len(cmds[x]) :
                           ChannelOf[cmds[x][i][2]] = ChannelOf[cmds[x][j][2]] => i = j
                      /\ \A i, j \in 1..Len(replies'[x]) : replies'[x][i] = replies'[x][j] => i = j
                      /\ \A i \in 1..Len(cmds[x]), j \in 1..Len(replies'[x]) :
                           ChannelOf[cmds[x][i][2]] # replies'[x][j]
      BY <1>5 DEF Distinct
  <2>1. CASE x # c BY <1>10, <2>1 DEF Repair, Distinct
  <2>2. CASE x = c
    <3>1. \A i, j \in 1..Len(replies'[c]) : replies'[c][i] = replies'[c][j] => i = j
      <4> SUFFICES ASSUME NEW i \in 1..Len(replies'[c]), NEW j \in 1..Len(replies'[c]),
                          replies'[c][i] = replies'[c][j]
                   PROVE  i = j
          OBVIOUS
      <4>1. i + 1 = j + 1 BY <1>11 DEF Repair, Distinct
      <4> QED BY <4>1
    <3>2. \A i \in 1..Len(cmds[c]), j \in 1..Len(replies'[c]) :
            ChannelOf[cmds[c][i][2]] # replies'[c][j]
          BY <1>11 DEF Repair, Distinct
    <3> QED BY <2>2, <3>1, <3>2 DEF Repair, Distinct
  <2> QED BY <2>1, <2>2
<1>22. Replied'
  <2> SUFFICES ASSUME NEW x \in Conns, NEW j \in 1..Len(replies'[x])
               PROVE  /\ replies'[x][j] \in topics[x] /\ pending'[x][replies'[x][j]] # NoSub
                      /\ \A g \in Handles : sender[g][pending'[x][replies'[x][j]]] # "send"
      BY <1>5 DEF Replied
  <2>1. PICK i \in 1..Len(replies[x]) : replies'[x][j] = replies[x][i] /\ (x = c => i # 1)
    <3>1. CASE x # c BY <1>10, <3>1
    <3>2. CASE x = c BY <1>11, <3>2
    <3> QED BY <3>1, <3>2
  <2>2. replies[x][i] \in Channels BY DEF Inv, QueueTypes
  <2>3. ~(x = c /\ replies[x][i] = ch) BY <1>12, <2>1
  <2>4. pending'[x][replies[x][i]] = pending[x][replies[x][i]] BY <1>9, <2>2, <2>3
  <2> QED BY <2>1, <2>4 DEF Repair, Replied
<1>23. Expected'
  <2> SUFFICES ASSUME NEW x \in Conns, NEW k \in Channels, pending'[x][k] # NoSub
               PROVE  /\ ChannelOf[pending'[x][k]] = k /\ state'[pending'[x][k]] = "pending"
                      /\ \E g \in Handles : sender[g][pending'[x][k]] # "none"
                                            /\ dest[g][pending'[x][k]] = x
      BY <1>5 DEF Expected
  <2>1. ~(x = c /\ k = ch) BY <1>9
  <2>2. pending'[x][k] = pending[x][k] /\ pending[x][k] \in Subs /\ pending[x][k] # s
        BY <1>9, <1>13, <2>1 DEF Inv, ConnTypes
  <2> QED BY <1>8, <2>2 DEF Repair, Expected
<1>24. Waiting' BY <1>4, <1>5, <1>8 DEF Repair, Waiting
<1> QED BY <1>14, <1>15, <1>16, <1>17, <1>18, <1>19, <1>20, <1>21, <1>22, <1>23, <1>24 DEF Repair

-----------------------------------------------------------------------------
(* The theorem *)

\* What was cut stays cut.
LEMMA CutStays == ASSUME Inv, Next, cut PROVE cut'
<1>1. cut = TRUE BY DEF Inv, ConnTypes
<1> USE <1>1
<1>2. ASSUME Poll \/ Redirect \/ \E n \in Nodes : HandleMigration(n) PROVE cut'
      BY <1>2, Zenon DEF Poll, Redirect, RecoverFailed, HandleMigration
<1>3. ASSUME NEW h \in Handles, Run(h) PROVE cut'
      BY <1>3 DEF Run, NextChannel, GetPubSub, SkipChannel, GetAborted, AllStarted, Take, Mark, Move, Decide, Join
<1>4. ASSUME NEW h \in Handles, Watch(h) \/ TimePasses(h) \/ Expire(h) PROVE cut'
      BY <1>4 DEF Watch, Tick, FinalCheck, TimePasses, Expire
<1>5. ASSUME NEW h \in Handles, NEW s \in Subs, Send(h, s) \/ SlowCommand(h, s) PROVE cut'
      BY <1>5 DEF Send, SendCommand, SendFails, Confirmed, CommandTimeout, GivesUp, SlowCommand
<1>6. ASSUME NEW c \in Conns, Loop(c) PROVE cut'
      BY <1>6 DEF Loop, Execute, ExecuteFails, Confirm, Snapshot, Notify, Leave
<1>7. ASSUME NEW c \in Conns, Break(c) \/ ExecuteBreaks(c) PROVE cut'
      BY <1>7, Zenon DEF Break, ExecuteBreaks, Fail
<1>8. ASSUME NEW h \in Handles, NEW ch \in Channels, GetFails(h, ch) PROVE cut'
      BY <1>8 DEF GetFails
<1> QED BY <1>2, <1>3, <1>4, <1>5, <1>6, <1>7, <1>8 DEF Next, System, Environment

\* Repair holds as long as nothing has interfered.
LEMMA StepRepair ==
  ASSUME Inv, Static, ~cut => Repair, [Next]_vars
  PROVE  Static' /\ (~cut' => Repair')
<1>1. CASE UNCHANGED vars
  <2>1. Static' BY <1>1 DEF vars, Static, Busy
  <2>2. Repair => Repair'
    <3>1. UNCHANGED <<owner, made, subVars, connVars, pc, todo, sub, sender, dest, ctx>>
          BY <1>1 DEF vars
    <3> QED BY <3>1, NothingMoved DEF Busy
  <2> QED BY <1>1, <2>1, <2>2 DEF vars
<1>2. CASE Next
  <2>1. Static' BY <1>2, StaticStep
  <2> SUFFICES ASSUME ~cut' PROVE Repair' BY <2>1
  <2>2. Repair BY <1>2, CutStays
  <2>3. CASE Poll \/ Redirect \/ \E n \in Nodes : HandleMigration(n)
        BY <2>2, <2>3, RefreshRepair
  <2>4. ASSUME NEW h \in Handles, Run(h) PROVE Repair'
        BY <2>2, <2>4, GetRepair, NoFailure, WatchRepair, TakeRepair, MarkRepair, MoveRepair,
           DecideRepair, JoinRepair DEF Run
  <2>5. ASSUME NEW h \in Handles, Watch(h) \/ TimePasses(h) \/ Expire(h) PROVE Repair'
        BY <2>2, <2>5, WatchRepair, NoFailure DEF Watch
  <2>6. ASSUME NEW h \in Handles, NEW s \in Subs, Send(h, s) \/ SlowCommand(h, s) PROVE Repair'
        BY <2>2, <2>6, SendRepair, ConfirmedRepair, NoFailure DEF Send
  <2>7. ASSUME NEW c \in Conns, Loop(c) \/ Break(c) \/ ExecuteBreaks(c) PROVE Repair'
        BY <2>2, <2>7, ExecuteRepair, ConfirmRepair, LossRepair, NoFailure DEF Loop
  <2>8. ASSUME NEW h \in Handles, NEW ch \in Channels, GetFails(h, ch) PROVE Repair'
        BY <2>2, <2>8, NoFailure
  <2> QED BY <1>2, <2>3, <2>4, <2>5, <2>6, <2>7, <2>8 DEF Next, System, Environment
<1> QED BY <1>1, <1>2

\* A change of owner or a loss that nothing interferes with is repaired in full, for any
\* number of subscriptions, channels and connections: once migration and event loops are
\* done, every subscription is Active, in the metadata of a connection to the owner, and
\* Redis has its channel there, whether it sent SUBSCRIBE itself or became Active because
\* another one had (topology.go:956-1015).
THEOREM RepairTheorem == Spec => []RepairedUnlessCut
<1>1. Init => Inv /\ Static /\ (~cut => Repair) BY InitInv, InitRepair
<1>2. Inv /\ Static /\ (~cut => Repair) /\ [Next]_vars
        => Inv' /\ Static' /\ (~cut' => Repair')
      BY StepInv, StepRepair
<1>3. Inv /\ Static /\ (~cut => Repair) => RepairedUnlessCut BY QuietServes
<1> QED BY <1>1, <1>2, <1>3, PTL DEF Spec

=============================================================================
