------------------------------ MODULE ConnPool ------------------------------
(***************************************************************************)
(* pubSubPool (pool.go): the registries of connections and the calls of    *)
(* getPubSubForHashslot that share them, while connections fail and leave  *)
(* the pool, the topology monitor changes the owner of a hashslot, and     *)
(* closeAll empties the pool.                                              *)
(*                                                                         *)
(* A step is a critical section of pool.mu, one read of the topology, or   *)
(* one channel operation.  A pendingConnectionResult is named by the       *)
(* connection that it is the result of.  The load of a connection is the   *)
(* number of callers that hold it.  createPubSubToNode cannot fail here:   *)
(* its only error is a missing topology monitor, which New always sets.    *)
(***************************************************************************)
EXTENDS Integers, FiniteSets, Sequences, SequencesExt

CONSTANTS
  Callers, Slots, Nodes, Conns,
  Views,          \* the node lists a hashslot may have, master first; may contain <<>>
  FirstViews,     \* the ones it has at the beginning
  Preferences,    \* "masters", "replicas", "balanced": the values of nodePreference
  MaxCalls,       \* bound on the calls
  MaxEvents,      \* bound on failed connections and topology changes together
  NoConn, NoNode

ASSUME ConnPoolAssumption ==
  /\ Views \subseteq Seq(Nodes) /\ FirstViews \subseteq Views
  /\ Preferences \subseteq {"masters", "replicas", "balanced"}
  /\ IsFiniteSet(Callers) /\ IsFiniteSet(Conns)
  /\ Cardinality(Conns) >= MaxCalls   \* no call runs out of them
  /\ MaxCalls \in Nat /\ MaxEvents \in Nat
  /\ NoConn \notin Conns /\ NoNode \notin Nodes

VARIABLES
  \* the pool
  nodePubSubs, hashslotPubSubs,   \* lists of connections, per node and per hashslot
  metadata,                       \* the keys of pubSubMetadata
  pendingConns,                   \* pendingConnections: per node, NoConn if absent
  outcome,                        \* the result of each connection: "none", "open", "resolved"
  \* the connections
  connState, nodeOf,
  \* the topology monitor, as far as the pool sees it
  topo,                           \* currentState.hashslotToNodes
  toInvalidate,                   \* hashslots swapped whose handleMigration has not begun
  events,                         \* connections failed and changes made so far
  \* the callers
  pc, slot, node, nodes, conn, calls,
  \* Close
  closePc, closeList,
  \* configuration and history
  preference,
  raced,                          \* hashslots moved while a call was using the old view
  busyAtClose                     \* a call was running when closeAll took the pool

poolVars  == <<nodePubSubs, hashslotPubSubs, metadata, pendingConns, outcome>>
connVars  == <<connState, nodeOf>>
topoVars  == <<topo, toInvalidate, events>>
callVars  == <<pc, slot, node, nodes, conn, calls>>
closeVars == <<closePc, closeList>>
ghostVars == <<preference, raced, busyAtClose>>
vars == <<poolVars, connVars, topoVars, callVars, closeVars, ghostVars>>
\* What a step of a caller leaves alone.
restVars  == <<topoVars, closeVars, ghostVars>>

Init ==
  /\ nodePubSubs = [n \in Nodes |-> <<>>]
  /\ hashslotPubSubs = [s \in Slots |-> <<>>]
  /\ metadata = {} /\ pendingConns = [n \in Nodes |-> NoConn]
  /\ outcome = [c \in Conns |-> "none"]
  /\ connState = [c \in Conns |-> "none"] /\ nodeOf = [c \in Conns |-> NoNode]
  /\ topo \in [Slots -> FirstViews] /\ toInvalidate = {} /\ events = 0
  /\ pc = [k \in Callers |-> "idle"]
  /\ slot \in [Callers -> Slots]
  /\ node = [k \in Callers |-> NoNode] /\ nodes = [k \in Callers |-> <<>>]
  /\ conn = [k \in Callers |-> NoConn] /\ calls = 0
  /\ closePc = "open" /\ closeList = {}
  /\ preference \in Preferences /\ raced = {} /\ busyAtClose = FALSE

-----------------------------------------------------------------------------
(* The registries *)

\* The callers that got the connection have a subscription on it.
Load(c) == Cardinality({k \in Callers : pc[k] = "held" /\ conn[k] = c})

Usable(c) == c \in metadata /\ connState[c] = "active"

\* findLeastLoadedPubSub: the first of the least loaded, NoConn if none is active.
FindLeastLoaded(list) ==
  LET usable == {i \in DOMAIN list : Usable(list[i])}
      best   == {i \in usable : \A j \in usable :
                   \/ Load(list[i]) < Load(list[j])
                   \/ Load(list[i]) = Load(list[j]) /\ i <= j}
  IN  IF best = {} THEN NoConn ELSE list[CHOOSE i \in best : TRUE]

\* addHashslotPubSub
WithConn(list, c) == IF Contains(list, c) THEN list ELSE Append(list, c)
AddHashslot(s, c) ==
  hashslotPubSubs' = [hashslotPubSubs EXCEPT ![s] = WithConn(@, c)]

-----------------------------------------------------------------------------
(* getPubSubForHashslot and createPubSubForHashslot *)

Go(k, p) == pc' = [pc EXCEPT ![k] = p]

Return(k, c) == Go(k, "held") /\ conn' = [conn EXCEPT ![k] = c]

\* The call is over, and its local variables with it.
Forget(k) ==
  /\ Go(k, "idle")
  /\ conn' = [conn EXCEPT ![k] = NoConn]
  /\ node' = [node EXCEPT ![k] = NoNode]

\* Subscribe has passed the closed check and looks for a connection.
Call(k) ==
  /\ pc[k] = "idle" /\ closePc = "open" /\ calls < MaxCalls
  /\ Go(k, "fast")
  /\ \E s \in Slots : slot' = [slot EXCEPT ![k] = s]
  /\ calls' = calls + 1
  /\ UNCHANGED <<poolVars, connVars, node, nodes, conn, restVars>>

\* The fast path: a connection cached for the hashslot.
Fast(k) ==
  LET best == FindLeastLoaded(hashslotPubSubs[slot[k]])
  IN  /\ pc[k] = "fast"
      /\ IF best # NoConn THEN Return(k, best) ELSE Go(k, "view") /\ UNCHANGED conn
      /\ UNCHANGED <<poolVars, connVars, slot, node, nodes, calls, restVars>>

\* selectNodeForHashslot
Selectable(view) ==
  IF preference = "replicas" /\ Len(view) > 1
    THEN {view[i] : i \in 2..Len(view)} ELSE {view[1]}

\* The topology is read without pool.mu.
ReadView(k) ==
  /\ pc[k] = "view" /\ topo[slot[k]] # <<>>
  /\ IF preference = "balanced"
       THEN /\ nodes' = [nodes EXCEPT ![k] = topo[slot[k]]]
            /\ Go(k, "select") /\ UNCHANGED node
       ELSE /\ \E n \in Selectable(topo[slot[k]]) : node' = [node EXCEPT ![k] = n]
            /\ Go(k, "reuse") /\ UNCHANGED nodes
  /\ UNCHANGED <<poolVars, connVars, slot, conn, calls, restVars>>

\* The monitor does not know the hashslot, and the refresh forced then did not
\* help: the cluster client is asked, and may not know either.
AskCluster(k) ==
  /\ pc[k] = "view" /\ topo[slot[k]] = <<>>
  /\ \/ Go(k, "idle") /\ UNCHANGED node
     \/ \E n \in Nodes : node' = [node EXCEPT ![k] = n] /\ Go(k, "reuse")
  /\ UNCHANGED <<poolVars, connVars, slot, nodes, conn, calls, restVars>>

\* A connection to the node that other hashslots already use.
Reuse(k) ==
  LET best == FindLeastLoaded(nodePubSubs[node[k]])
  IN  /\ pc[k] = "reuse"
      /\ IF best # NoConn
           THEN AddHashslot(slot[k], best) /\ Return(k, best)
           ELSE Go(k, "dial") /\ UNCHANGED <<hashslotPubSubs, conn>>
      /\ UNCHANGED <<nodePubSubs, metadata, pendingConns, outcome, connVars, slot, node, nodes,
                     calls, restVars>>

\* The connections of a node, counted as selectLeastLoadedAcrossNodes does.
Fewest(view) ==
  CHOOSE i \in DOMAIN view : \A j \in DOMAIN view :
    \/ Len(nodePubSubs[view[i]]) < Len(nodePubSubs[view[j]])
    \/ Len(nodePubSubs[view[i]]) = Len(nodePubSubs[view[j]]) /\ i <= j

\* The least loaded connection over the nodes, in their order.
BestAcross(view) ==
  LET found == {i \in DOMAIN view : FindLeastLoaded(nodePubSubs[view[i]]) # NoConn}
      best(i) == FindLeastLoaded(nodePubSubs[view[i]])
      least == {i \in found : \A j \in found :
                  \/ Load(best(i)) < Load(best(j))
                  \/ Load(best(i)) = Load(best(j)) /\ i <= j}
  IN  IF least = {} THEN NoConn ELSE best(CHOOSE i \in least : TRUE)

\* The next connection; which of the unused ones it is makes no difference.
Fresh == CHOOSE c \in Conns : connState[c] = "none"

\* Mutant: a connection in the making is not looked for.
SelectNode_IgnoresPending(k, n) ==
  /\ pendingConns' = [pendingConns EXCEPT ![n] = Fresh]
  /\ outcome' = [outcome EXCEPT ![Fresh] = "open"]
  /\ connState' = [connState EXCEPT ![Fresh] = "reserved"]
  /\ conn' = [conn EXCEPT ![k] = Fresh]
  /\ Go(k, "dial")

\* Wait for the connection in the making, or announce one.
SelectNode(k, n) ==
  IF pendingConns[n] # NoConn
    THEN /\ conn' = [conn EXCEPT ![k] = pendingConns[n]]
         /\ Go(k, "wait")
         /\ UNCHANGED <<pendingConns, outcome, connState>>
    ELSE /\ pendingConns' = [pendingConns EXCEPT ![n] = Fresh]
         /\ outcome' = [outcome EXCEPT ![Fresh] = "open"]
         /\ connState' = [connState EXCEPT ![Fresh] = "reserved"]
         /\ conn' = [conn EXCEPT ![k] = Fresh]
         /\ Go(k, "dial")

\* selectLeastLoadedAcrossNodes, its first critical section: reuse only if every
\* node of the shard has a connection.
Select(k) ==
  LET view == nodes[k]
      best == BestAcross(view)
      spread == \A i \in DOMAIN view : nodePubSubs[view[i]] # <<>>
      n == view[Fewest(view)]
  IN  /\ pc[k] = "select"
      /\ IF best # NoConn /\ spread
           THEN /\ AddHashslot(slot[k], best) /\ Return(k, best)
                /\ UNCHANGED <<pendingConns, outcome, connState, node>>
           ELSE /\ SelectNode(k, n)
                /\ node' = [node EXCEPT ![k] = n]
                /\ UNCHANGED hashslotPubSubs
      /\ nodes' = [nodes EXCEPT ![k] = <<>>]
      /\ UNCHANGED <<nodePubSubs, metadata, nodeOf, slot, calls, restVars>>

\* createPubSubToNode: the metadata is registered and the event loop started
\* before anyone can find the connection.
Dial(k) ==
  LET c == IF conn[k] # NoConn THEN conn[k] ELSE Fresh
  IN  /\ pc[k] = "dial"
      /\ connState' = [connState EXCEPT ![c] = "active"]
      /\ nodeOf' = [nodeOf EXCEPT ![c] = node[k]]
      /\ metadata' = metadata \cup {c}
      /\ conn' = [conn EXCEPT ![k] = c]
      /\ Go(k, "list")
      /\ UNCHANGED <<nodePubSubs, hashslotPubSubs, pendingConns, outcome, slot, node,
                     nodes, calls, restVars>>

\* The connection is listed; the announcement goes in the same critical section.
List(k) ==
  /\ pc[k] = "list"
  /\ nodePubSubs' = [nodePubSubs EXCEPT ![node[k]] = Append(@, conn[k])]
  /\ AddHashslot(slot[k], conn[k])
  /\ IF outcome[conn[k]] = "open"
       THEN pendingConns' = [pendingConns EXCEPT ![node[k]] = NoConn] /\ Go(k, "resolve")
       ELSE Go(k, "held") /\ UNCHANGED pendingConns
  /\ UNCHANGED <<metadata, outcome, connVars, slot, node, nodes, conn, calls, restVars>>

\* Mutant: the creator resolves only what is still announced.
Resolve_IfListed(k) ==
  /\ pc[k] = "resolve"
  /\ outcome' = IF Contains(nodePubSubs[node[k]], conn[k])
                  THEN [outcome EXCEPT ![conn[k]] = "resolved"] ELSE outcome
  /\ Go(k, "held")
  /\ UNCHANGED <<nodePubSubs, hashslotPubSubs, metadata, pendingConns, connVars, slot, node,
                 nodes, conn, calls, restVars>>

\* resolve broadcasts to the waiters.
Resolve(k) ==
  /\ pc[k] = "resolve"
  /\ outcome' = [outcome EXCEPT ![conn[k]] = "resolved"]
  /\ Go(k, "held")
  /\ UNCHANGED <<nodePubSubs, hashslotPubSubs, metadata, pendingConns, connVars, slot, node,
                 nodes, conn, calls, restVars>>

Wait(k) ==
  /\ pc[k] = "wait" /\ outcome[conn[k]] = "resolved"
  /\ Go(k, "adopt")
  /\ UNCHANGED <<poolVars, connVars, slot, node, nodes, conn, calls, restVars>>

\* The waiter's context is done.
GiveUp(k) ==
  /\ pc[k] = "wait"
  /\ Forget(k)
  /\ UNCHANGED <<poolVars, connVars, slot, nodes, calls, restVars>>

Adopt(k) ==
  /\ pc[k] = "adopt"
  /\ AddHashslot(slot[k], conn[k])
  /\ Go(k, "held")
  /\ UNCHANGED <<nodePubSubs, metadata, pendingConns, outcome, connVars, slot, node, nodes, conn,
                 calls, restVars>>

\* The caller unsubscribes.
Release(k) ==
  /\ pc[k] = "held"
  /\ Forget(k)
  /\ UNCHANGED <<poolVars, connVars, slot, nodes, calls, restVars>>

-----------------------------------------------------------------------------
(* Connections that fail *)

envVars == <<topoVars, callVars, closeVars, ghostVars>>

Fail(c) ==
  /\ connState[c] = "active"
  /\ events < MaxEvents /\ events' = events + 1
  /\ connState' = [connState EXCEPT ![c] = "failed"]
  /\ UNCHANGED <<poolVars, nodeOf, topo, toInvalidate, callVars, closeVars, ghostVars>>

\* onEventLoopExit: meta.close, then removePubSub, which does nothing for a
\* connection without metadata.
Retire(c) ==
  /\ connState[c] = "failed"
  /\ connState' = [connState EXCEPT ![c] = "closed"]
  /\ IF c \in metadata
       THEN /\ nodePubSubs' = [n \in Nodes |->
                 IF n = nodeOf[c] THEN RemoveFirst(nodePubSubs[n], c)
                 ELSE nodePubSubs[n]]
            /\ hashslotPubSubs' = [s \in Slots |-> RemoveFirst(hashslotPubSubs[s], c)]
            /\ metadata' = metadata \ {c}
       ELSE UNCHANGED <<nodePubSubs, hashslotPubSubs, metadata>>
  /\ UNCHANGED <<pendingConns, outcome, nodeOf, envVars>>

-----------------------------------------------------------------------------
(* The topology monitor *)

\* A caller that has read the node list of the hashslot and not returned.
Using(k, s) ==
  slot[k] = s /\ pc[k] \in {"select", "reuse", "dial", "list", "resolve", "wait", "adopt"}

\* The swap of currentState; a migration is detected if the master changed.
Move(s, view) ==
  /\ events < MaxEvents /\ view # topo[s]
  /\ events' = events + 1
  /\ topo' = [topo EXCEPT ![s] = view]
  /\ toInvalidate' = IF (view = <<>>) # (topo[s] = <<>>) \/ (view # <<>> /\ view[1] # topo[s][1])
                       THEN toInvalidate \cup {s} ELSE toInvalidate
  /\ raced' = IF \E k \in Callers : Using(k, s) THEN raced \cup {s} ELSE raced
  /\ UNCHANGED <<poolVars, connVars, callVars, closeVars, preference, busyAtClose>>

\* Mutant: the cache of the hashslot is kept.
Invalidate_Keeps(s) ==
  /\ s \in toInvalidate
  /\ toInvalidate' = toInvalidate \ {s}
  /\ UNCHANGED <<poolVars, connVars, topo, events, callVars, closeVars, ghostVars>>

\* invalidateHashslot, the first thing handleMigration does.
Invalidate(s) ==
  /\ s \in toInvalidate
  /\ toInvalidate' = toInvalidate \ {s}
  /\ hashslotPubSubs' = [hashslotPubSubs EXCEPT ![s] = <<>>]
  /\ UNCHANGED <<nodePubSubs, metadata, pendingConns, outcome, connVars, topo, events, callVars,
                 closeVars, ghostVars>>

-----------------------------------------------------------------------------
(* closeAll *)

\* Mutant: what is in the hashslot caches is closed, not what the nodes list.
Taken_Cached == UNION {Range(hashslotPubSubs[s]) : s \in Slots}

\* The connections closeAll is going to close: those listed, wherever their
\* metadata is.
Taken == UNION {Range(nodePubSubs[n]) : n \in Nodes}

CloseTakes ==
  /\ closePc = "open"
  /\ closePc' = "closing"
  /\ closeList' = Taken \cap metadata
  /\ busyAtClose' = \E k \in Callers : pc[k] \notin {"idle", "held"}
  /\ nodePubSubs' = [n \in Nodes |-> <<>>]
  /\ hashslotPubSubs' = [s \in Slots |-> <<>>]
  /\ metadata' = {}
  /\ pendingConns' = [n \in Nodes |-> NoConn]
  /\ UNCHANGED <<outcome, connVars, topoVars, callVars, preference, raced>>

CloseNext ==
  /\ closePc = "closing" /\ closeList # {}
  /\ \E c \in closeList : /\ connState' = [connState EXCEPT ![c] = "closed"]
                          /\ closeList' = closeList \ {c}
  /\ UNCHANGED <<poolVars, nodeOf, topoVars, callVars, closePc, ghostVars>>

CloseReturns ==
  /\ closePc = "closing" /\ closeList = {}
  /\ closePc' = "returned"
  /\ UNCHANGED <<poolVars, connVars, topoVars, callVars, closeList, ghostVars>>

-----------------------------------------------------------------------------

CallStep(k) ==
  \/ Fast(k) \/ ReadView(k) \/ AskCluster(k) \/ Reuse(k) \/ Select(k) \/ Dial(k) \/ List(k)
  \/ Resolve(k) \/ Wait(k) \/ Adopt(k)

Next ==
  \/ \E k \in Callers : Call(k) \/ CallStep(k) \/ GiveUp(k) \/ Release(k)
  \/ \E c \in Conns : Fail(c) \/ Retire(c)
  \/ \E s \in Slots : Invalidate(s) \/ \E view \in Views : Move(s, view)
  \/ CloseTakes \/ CloseNext \/ CloseReturns

\* Calls in progress go on; a waiter need not have a deadline, nobody has to
\* release or close, nothing has to fail or move.
Fairness == \A k \in Callers : WF_vars(CallStep(k))

Spec == Init /\ [][Next]_vars /\ Fairness

-----------------------------------------------------------------------------
(* Properties *)

Listed == UNION {Range(nodePubSubs[n]) : n \in Nodes}
Cached == UNION {Range(hashslotPubSubs[s]) : s \in Slots}

\* The fields of the pool and the places a call can be in.
TypeOK ==
  /\ nodePubSubs \in [Nodes -> Seq(Conns)] /\ hashslotPubSubs \in [Slots -> Seq(Conns)]
  /\ metadata \subseteq Conns
  /\ pendingConns \in [Nodes -> Conns \cup {NoConn}]
  /\ outcome \in [Conns -> {"none", "open", "resolved"}]
  /\ connState \in [Conns -> {"none", "reserved", "active", "failed", "closed"}]
  /\ nodeOf \in [Conns -> Nodes \cup {NoNode}]
  /\ topo \in [Slots -> Views] /\ toInvalidate \subseteq Slots /\ events \in 0..MaxEvents
  /\ pc \in [Callers -> {"idle", "fast", "view", "select", "reuse", "dial", "list", "resolve",
                         "wait", "adopt", "held"}]
  /\ slot \in [Callers -> Slots] /\ node \in [Callers -> Nodes \cup {NoNode}]
  /\ nodes \in [Callers -> Views \cup {<<>>}]
  /\ conn \in [Callers -> Conns \cup {NoConn}] /\ calls \in 0..MaxCalls
  /\ closePc \in {"open", "closing", "returned"} /\ closeList \subseteq Conns
  /\ preference \in Preferences /\ raced \subseteq Slots /\ busyAtClose \in BOOLEAN

\* A connection announced in pendingConnections is being made, by exactly one
\* caller and for that node; nobody waits for an announcement without a maker
\* (pool.go:592-631).
PendingHasMaker ==
  \A n \in Nodes : pendingConns[n] # NoConn =>
    Cardinality({k \in Callers : /\ pc[k] \in {"dial", "list"}
                                 /\ node[k] = n /\ conn[k] = pendingConns[n]}) = 1

\* The announced connections of BalancedAll are never doubled: before Close a
\* node has at most one of them that works or is on its way, however many callers
\* race for it and whatever failed before (pool.go:539-634, ADR-004).
OneSharedPerNode ==
  closePc = "open" =>
    \A c, d \in Conns :
      (outcome[c] # "none" /\ outcome[d] # "none"
         /\ connState[c] = "active" /\ connState[d] = "active" /\ nodeOf[c] = nodeOf[d]) => c = d

\* Until Close, a working connection that a later caller may be given through the
\* cache of its hashslot is also in the list of its node, where closeAll and
\* removePubSub look for it (pool.go:436-443, 808-886).
CachedIsListed ==
  closePc = "open" => \A c \in Cached \cap metadata : c \in Listed

\* The registries of the pool agree with each other and with the calls in progress,
\* whatever fails while connections are made, shared and listed (pool.go:436-634).
RegistriesAgree == TypeOK /\ PendingHasMaker /\ OneSharedPerNode /\ CachedIsListed

\* With PreferMasters, once the monitor has handled a change of master, the cache
\* of the hashslot only holds connections to the new one, unless a call had read
\* the old one by then (pool.go:753-760, topology.go:550-552).
FreshUnlessRaced ==
  preference = "masters" =>
    \A s \in Slots \ (toInvalidate \cup raced) :
      topo[s] # <<>> => \A c \in Range(hashslotPubSubs[s]) : nodeOf[c] = topo[s][1]

\* When no call is running as Close takes the pool, all connections are closed
\* or failed when it returns (pool.go:848-886).
CloseClosesAll ==
  closePc = "returned" /\ ~busyAtClose => \A c \in Conns : connState[c] # "active"

\* A caller that waits for a connection another one is making stops waiting, also
\* when closeAll has replaced pendingConnections meanwhile (pool.go:361-377).
WaitersReturn == \A k \in Callers : pc[k] = "wait" ~> pc[k] # "wait"

=============================================================================
