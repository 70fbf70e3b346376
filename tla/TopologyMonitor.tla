-------------------------- MODULE TopologyMonitor --------------------------
(***************************************************************************)
(* topologyMonitor (topology.go): the polling goroutine, the refreshes     *)
(* that redirects trigger, the comparison of the fetched topology with the *)
(* current one, the migration goroutines they launch (one handle per       *)
(* hashslot, cancel and replace), and stop, which waits for them all.      *)
(*                                                                         *)
(* What a migration goroutine does with the subscriptions is the module    *)
(* Migration; here it runs, closes some for the time of the move, is       *)
(* perhaps cancelled, and ends.  A subscription is live (active or         *)
(* pending), failed or closed; it stays on the lists of the SubMux.        *)
(***************************************************************************)
EXTENDS Integers, FiniteSets, Sequences, SequencesExt

CONSTANTS
  LastSlot,       \* the highest hashslot
  Nodes,
  FirstMasters,   \* a node that has all the hashslots at the beginning
  Subs, HashslotOf,
  Redirects,      \* the refreshes that redirects trigger, each once
  Callers,        \* the refreshes that lookups of a hashslot without a node force, each once
  Handles,        \* migration goroutines; reused when they have ended
  AutoResubscribe,
  MaxEvents,      \* bound on what comes from outside, all of it together: changes of the
                  \* cluster, failures, refreshes of redirects and of lookups
  NoNode, NoHandle, NoOne, NoSlot

ASSUME TopologyAssumption ==
  /\ LastSlot \in Nat /\ FirstMasters \subseteq Nodes /\ HashslotOf \in [Subs -> 0..LastSlot]
  /\ AutoResubscribe \in BOOLEAN
  /\ MaxEvents \in Nat
  /\ NoNode \notin Nodes /\ NoHandle \notin Handles /\ NoSlot \notin 0..LastSlot
  /\ (Redirects \cup Callers) \cap {NoOne, "monitor"} = {} /\ NoOne # "monitor"
  /\ Redirects \cap Callers = {}
  /\ IsFiniteSet(Nodes) /\ IsFiniteSet(Redirects) /\ IsFiniteSet(Callers) /\ IsFiniteSet(Handles)
  /\ Nodes \cap {"master", "fail"} = {}   \* a node is not a role of CLUSTER NODES

Slots == 0..LastSlot

\* The refreshes that wg counts, and all of them.
Counted == Redirects \cup {"monitor"}
Refreshers == Counted \cup Callers

VARIABLES
  \* the cluster
  owner,          \* the master of each hashslot, NoNode if it has none
  masterOf,       \* of a replica; a master is its own
  epoch,          \* the number of changes so far
  \* the monitor
  current,        \* currentState, with the epoch at which it was fetched
  refreshMu,      \* the refresher that holds it
  done, wg,
  active,         \* activeMigrations
  \* the refreshers
  pc, fetched,
  phase,          \* "handle" or "recover": the loop the refresher is in
  todo, at,       \* the hashslots still to go through, and the one it is at
  found,          \* the subscriptions that it has found affected, or failed
  \* the migration goroutines
  run, slotOf, ctx,
  takes,          \* the subscriptions to be moved
  \* the subscriptions
  state,
  \* stop
  stopPc,
  failures,       \* lost connections, failed queries and failed migrations so far
  \* history
  sent,           \* the node of the last migration launched for the subscription
  overtaken       \* those that were being moved, neither active nor pending, at a change

clusterVars == <<owner, masterOf, epoch>>
refreshVars == <<pc, fetched, phase, todo, at, found>>
goVars      == <<run, slotOf, ctx, takes>>
history     == <<sent, overtaken>>
vars == <<clusterVars, current, refreshMu, done, wg, active, refreshVars, goVars, state,
          stopPc, failures, history>>

\* newTopologyState: nothing is known.  The field at is history.
EmptyState == [node |-> [s \in Slots |-> NoNode], nodes |-> [s \in Slots |-> <<>>], at |-> 0]

\* newTopologyMonitor and start.  The cluster is at epoch 1, so that the
\* first fetch is already news.
Init ==
  /\ \E n \in FirstMasters :
       /\ owner = [s \in Slots |-> n]
       /\ masterOf \in {f \in [Nodes -> Nodes] : f[n] = n /\ \A m \in Nodes : f[f[m]] = f[m]}
  /\ epoch = 1
  /\ current = EmptyState /\ refreshMu = NoOne /\ done = FALSE /\ wg = 1
  /\ active = [s \in Slots |-> NoHandle]
  /\ pc = [r \in Refreshers |-> IF r = "monitor" THEN "lock" ELSE "off"]
  /\ fetched = [r \in Refreshers |-> EmptyState]
  /\ phase = [r \in Refreshers |-> "handle"]
  /\ todo = [r \in Refreshers |-> {}] /\ at = [r \in Refreshers |-> NoSlot]
  /\ found = [r \in Refreshers |-> {}]
  /\ run = [h \in Handles |-> "free"] /\ slotOf = [h \in Handles |-> NoSlot]
  /\ ctx = [h \in Handles |-> "cancelled"]
  /\ takes = [h \in Handles |-> {}] /\ state = [s \in Subs |-> "live"]
  /\ stopPc = "running" /\ failures = 0
  /\ sent = [s \in Subs |-> NoNode] /\ overtaken = {}

\* One more event is within the bound.
MayHappen ==
  (epoch - 1) + failures + Cardinality({r \in Redirects \cup Callers : pc[r] # "off"}) < MaxEvents

-----------------------------------------------------------------------------
(* The cluster and its answers *)

Replicas(n) == {m \in Nodes \ {n} : masterOf[m] = n}

\* CLUSTER SLOTS: a range for every run of hashslots with the same master,
\* with the replicas or, from Redis 8, without them.
ClusterSlots(withReplicas) ==
  LET same(i, j) == \A s \in i..j : owner[s] = owner[i]
      maximal == {p \in Slots \X Slots :
                    /\ p[1] <= p[2] /\ owner[p[1]] # NoNode /\ same(p[1], p[2])
                    /\ ~(p[2] + 1 \in Slots /\ same(p[1], p[2] + 1))
                    /\ ~(p[1] - 1 \in Slots /\ same(p[1] - 1, p[2]))}
      replicas(n) == IF withReplicas THEN SetToSeq(Replicas(n)) ELSE <<>>
  IN  {[start |-> p[1], end |-> p[2], nodes |-> <<owner[p[1]]>> \o replicas(owner[p[1]])] :
       p \in maximal}

\* CLUSTER NODES: the masters, and the replicas that it does not flag as failing.
ClusterNodes(failing) ==
  [n \in Nodes |-> IF masterOf[n] = n THEN "master"
                   ELSE IF n \in failing THEN "fail" ELSE masterOf[n]]

Reshard(s, n) ==
  /\ MayHappen /\ n # owner[s]
  /\ n \in {NoNode} \cup {m \in Nodes : masterOf[m] = m}
  /\ owner' = [owner EXCEPT ![s] = n] /\ epoch' = epoch + 1
  /\ UNCHANGED <<masterOf, current, refreshMu, done, wg, active, refreshVars, goVars, state,
                 stopPc, failures, history>>

\* A replica takes over from its master, which becomes its replica.
Failover(n) ==
  LET m == masterOf[n]
  IN  /\ MayHappen /\ m # n
      /\ owner' = [s \in Slots |-> IF owner[s] = m THEN n ELSE owner[s]]
      /\ masterOf' = [k \in Nodes |-> IF masterOf[k] = m THEN n ELSE masterOf[k]]
      /\ epoch' = epoch + 1
      /\ UNCHANGED <<current, refreshMu, done, wg, active, refreshVars, goVars, state,
                     stopPc, failures, history>>

-----------------------------------------------------------------------------
(* topologyState *)

\* update
Update(ranges) ==
  LET of(s) == {r \in ranges : r.nodes # <<>> /\ r.start <= s /\ s <= r.end}
      nodes == [s \in Slots |-> IF of(s) = {} THEN <<>> ELSE (CHOOSE r \in of(s) : TRUE).nodes]
  IN  [node |-> [s \in Slots |-> IF nodes[s] = <<>> THEN NoNode ELSE nodes[s][1]],
       nodes |-> nodes, at |-> epoch]

\* Mutant: the replicas are appended to lists that have them already.
Enrich_Always(topo, lines) ==
  LET replicas(m) == SetToSeq({n \in Nodes : lines[n] = m /\ lines[m] = "master"})
  IN  [topo EXCEPT !.nodes =
        [s \in Slots |-> IF @[s] # <<>> THEN @[s] \o replicas(@[s][1]) ELSE @[s]]]

\* enrichWithReplicaInfo: only lists of the master alone get its replicas.
Enrich(topo, lines) ==
  LET replicas(m) == SetToSeq({n \in Nodes : lines[n] = m /\ lines[m] = "master"})
  IN  [topo EXCEPT !.nodes =
        [s \in Slots |-> IF Len(@[s]) = 1 THEN @[s] \o replicas(@[s][1]) ELSE @[s]]]

\* Mutant: a hashslot that appears is not a migration.
Changes_OnlyKnown(new, previous) ==
  {s \in Slots : previous.node[s] # NoNode /\ new.node[s] # previous.node[s]}

\* compareAndDetectChanges: the masters decide; a hashslot may appear or disappear.
Changes(new, previous) == {s \in Slots : new.node[s] # previous.node[s]}

-----------------------------------------------------------------------------
(* refreshTopology *)

Go(r, p) == pc' = [pc EXCEPT ![r] = p]

\* Mutant: two refreshes at once.
Lock_NoMutex(r) ==
  /\ pc[r] = "lock"
  /\ refreshMu' = r /\ Go(r, "slots")
  /\ UNCHANGED <<clusterVars, current, done, wg, active, fetched, phase, todo, at, found, goVars,
                 state, stopPc, failures, history>>

Lock(r) ==
  /\ pc[r] = "lock" /\ refreshMu = NoOne
  /\ refreshMu' = r /\ Go(r, "slots")
  /\ UNCHANGED <<clusterVars, current, done, wg, active, fetched, phase, todo, at, found, goVars,
                 state, stopPc, failures, history>>

\* The cluster client or one of the seed nodes answers.
FetchSlots(r) ==
  /\ pc[r] = "slots"
  /\ \E withReplicas \in BOOLEAN :
       fetched' = [fetched EXCEPT ![r] = Update(ClusterSlots(withReplicas))]
  /\ Go(r, "nodes")
  /\ UNCHANGED <<clusterVars, current, refreshMu, done, wg, active, phase, todo, at, found, goVars,
                 state, stopPc, failures, history>>

\* Mutant: an error return without the unlock.
FetchFails_KeepsLock(r) ==
  /\ pc[r] = "slots" /\ MayHappen
  /\ failures' = failures + 1
  /\ Go(r, IF r = "monitor" THEN "wait" ELSE "over")
  /\ wg' = IF r \in Redirects THEN wg - 1 ELSE wg
  /\ UNCHANGED <<clusterVars, current, refreshMu, done, active, fetched, phase, todo, at, found,
                 goVars, state, stopPc, history>>

\* None of them does: the refresh is given up.
FetchFails(r) ==
  /\ pc[r] = "slots" /\ MayHappen
  /\ failures' = failures + 1 /\ Go(r, "unlock")
  /\ UNCHANGED <<clusterVars, current, refreshMu, done, wg, active, fetched, phase, todo, at, found,
                 goVars, state, stopPc, history>>

\* The second query, some time after the first, answered or not.
FetchNodes(r) ==
  /\ pc[r] = "nodes"
  /\ \/ \E failing \in SUBSET {n \in Nodes : masterOf[n] # n} :
          fetched' = [fetched EXCEPT ![r] = Enrich(@, ClusterNodes(failing))]
     \/ UNCHANGED fetched
  /\ Go(r, "swap")
  /\ UNCHANGED <<clusterVars, current, refreshMu, done, wg, active, phase, todo, at, found, goVars,
                 state, stopPc, failures, history>>

\* The swap phase, under tm.mu.
Swap(r) ==
  /\ pc[r] = "swap"
  /\ current' = fetched[r]
  /\ todo' = [todo EXCEPT ![r] = Changes(fetched[r], current)]
  /\ fetched' = [fetched EXCEPT ![r] = EmptyState]
  /\ Go(r, "loop")
  /\ UNCHANGED <<clusterVars, refreshMu, done, wg, active, phase, at, found, goVars, state,
                 stopPc, failures, history>>

\* The subscriptions of a hashslot.
Of(s) == {x \in Subs : HashslotOf[x] = s}

\* A migration that has not ended has the subscription to move.
InFlight(x) == \E h \in Handles : run[h] = "running" /\ x \in takes[h]

\* handleMigration up to wg.Add: the cache entry goes, and the affected subscriptions,
\* those active or pending, get their signal.
HandleMigration(r, s) ==
  LET affected == {x \in Of(s) : state[x] = "live"}
      passedBy == {x \in Of(s) : state[x] = "closed" \/ (state[x] = "failed" /\ InFlight(x))}
  IN  /\ pc[r] = "loop" /\ phase[r] = "handle" /\ s \in todo[r]
      /\ todo' = [todo EXCEPT ![r] = @ \ {s}]
      /\ overtaken' = overtaken \cup passedBy
      /\ IF affected # {} /\ AutoResubscribe
           THEN /\ wg' = wg + 1 /\ at' = [at EXCEPT ![r] = s]
                /\ found' = [found EXCEPT ![r] = affected] /\ Go(r, "check")
           ELSE UNCHANGED <<wg, at, found, pc>>
      /\ UNCHANGED <<clusterVars, current, refreshMu, done, active, fetched, phase, goVars, state,
                     stopPc, failures, sent>>

FailedSubs == {x \in Subs : state[x] = "failed"}

\* collectFailedSubscriptions, when the migrations have been handled.
CollectFailed(r) ==
  /\ pc[r] = "loop" /\ phase[r] = "handle" /\ todo[r] = {}
  /\ IF AutoResubscribe
       THEN /\ phase' = [phase EXCEPT ![r] = "recover"]
            /\ found' = [found EXCEPT ![r] = FailedSubs]
            /\ todo' = [todo EXCEPT ![r] = {HashslotOf[x] : x \in FailedSubs}] /\ UNCHANGED pc
       ELSE Go(r, "unlock") /\ UNCHANGED <<phase, todo, found>>
  /\ UNCHANGED <<clusterVars, current, refreshMu, done, wg, active, fetched, at, goVars,
                 state, stopPc, failures, history>>

\* recoverFailedSubscriptions, a hashslot up to wg.Add.
RecoverFailed(r, s) ==
  /\ pc[r] = "loop" /\ phase[r] = "recover" /\ s \in todo[r]
  /\ todo' = [todo EXCEPT ![r] = @ \ {s}]
  /\ IF current.node[s] # NoNode
       THEN wg' = wg + 1 /\ at' = [at EXCEPT ![r] = s] /\ Go(r, "check")
       ELSE UNCHANGED <<wg, at, pc>>
  /\ UNCHANGED <<clusterVars, current, refreshMu, done, active, fetched, phase, found, goVars,
                 state, stopPc, failures, history>>

RecoveredAll(r) ==
  /\ pc[r] = "loop" /\ phase[r] = "recover" /\ todo[r] = {}
  /\ Go(r, "unlock")
  /\ UNCHANGED <<clusterVars, current, refreshMu, done, wg, active, fetched, phase, todo, at, found,
                 goVars, state, stopPc, failures, history>>

\* What is to be moved at the hashslot.
Moved(r) == {x \in found[r] : HashslotOf[x] = at[r]}

\* The check of done after wg.Add: handleMigration returns to its loop,
\* recoverFailedSubscriptions gives up.
LaunchRefused(r) ==
  /\ pc[r] = "check" /\ done
  /\ wg' = wg - 1 /\ at' = [at EXCEPT ![r] = NoSlot]
  /\ found' = [found EXCEPT ![r] = @ \ Moved(r)]
  /\ Go(r, IF phase[r] = "handle" THEN "loop" ELSE "unlock")
  /\ UNCHANGED <<clusterVars, current, refreshMu, done, active, fetched, phase, todo, goVars,
                 state, stopPc, failures, history>>

\* The migration in flight for the hashslot is cancelled ...
CancelPrevious(r) ==
  LET prev == active[at[r]]
  IN  /\ pc[r] = "check" /\ ~done
      /\ ctx' = [h \in Handles |-> IF h = prev THEN "cancelled" ELSE ctx[h]]
      /\ Go(r, "store")
      /\ UNCHANGED <<clusterVars, current, refreshMu, done, wg, active, fetched, phase, todo, at, found,
                     run, slotOf, takes, state, stopPc, failures, history>>

\* ... and replaced.
Launch(r) ==
  LET free == {h \in Handles : run[h] = "free"}
      h    == CHOOSE x \in free : TRUE
  IN  /\ pc[r] = "store" /\ free # {}
      /\ active' = [active EXCEPT ![at[r]] = h]
      /\ run' = [run EXCEPT ![h] = "running"]
      /\ slotOf' = [slotOf EXCEPT ![h] = at[r]]
      /\ ctx' = [ctx EXCEPT ![h] = "live"]
      /\ takes' = [takes EXCEPT ![h] = Moved(r)]
      /\ sent' = [x \in Subs |-> IF x \in Moved(r) THEN current.node[at[r]] ELSE sent[x]]
      /\ overtaken' = overtaken \ Moved(r)
      /\ Go(r, "loop") /\ at' = [at EXCEPT ![r] = NoSlot]
      /\ found' = [found EXCEPT ![r] = @ \ Moved(r)]
      /\ UNCHANGED <<clusterVars, current, refreshMu, done, wg, fetched, phase, todo,
                     state, stopPc, failures>>

\* The refresh returns, with or without an error; its local variables are
\* gone.  The goroutine of a redirect ends with it; a lookup goes on.
Unlock(r) ==
  /\ pc[r] = "unlock"
  /\ refreshMu' = NoOne
  /\ Go(r, IF r = "monitor" THEN "wait" ELSE "over")
  /\ wg' = IF r \in Redirects THEN wg - 1 ELSE wg
  /\ fetched' = [fetched EXCEPT ![r] = EmptyState] /\ phase' = [phase EXCEPT ![r] = "handle"]
  /\ todo' = [todo EXCEPT ![r] = {}] /\ found' = [found EXCEPT ![r] = {}]
  /\ UNCHANGED <<clusterVars, current, done, active, at, goVars, state, stopPc, failures, history>>

-----------------------------------------------------------------------------
(* monitor, triggerRefresh and stop *)

\* The ticker; select may choose it although done is closed.
Tick ==
  /\ pc["monitor"] = "wait"
  /\ Go("monitor", "lock")
  /\ UNCHANGED <<clusterVars, current, refreshMu, done, wg, active, fetched, phase, todo, at, found,
                 goVars, state, stopPc, failures, history>>

\* Mutant: the loop does not look at done.
MonitorExits_Never ==
  /\ pc["monitor"] = "wait" /\ done
  /\ UNCHANGED vars

MonitorExits ==
  /\ pc["monitor"] = "wait" /\ done
  /\ Go("monitor", "over") /\ wg' = wg - 1
  /\ UNCHANGED <<clusterVars, current, refreshMu, done, active, fetched, phase, todo, at, found,
                 goVars, state, stopPc, failures, history>>

\* triggerRefresh, called by an event loop, at any time before Close closes the
\* connections, which is after stop.
TriggerRefresh(r) ==
  /\ pc[r] = "off" /\ MayHappen
  /\ Go(r, "added") /\ wg' = wg + 1
  /\ UNCHANGED <<clusterVars, current, refreshMu, done, active, fetched, phase, todo, at, found,
                 goVars, state, stopPc, failures, history>>

\* Mutant: done is not looked at again.
TriggerChecks_NoCheck(r) ==
  /\ pc[r] = "added"
  /\ Go(r, "lock")
  /\ UNCHANGED <<clusterVars, current, refreshMu, done, wg, active, fetched, phase, todo, at, found,
                 goVars, state, stopPc, failures, history>>

TriggerChecks(r) ==
  /\ pc[r] = "added"
  /\ IF done THEN Go(r, "over") /\ wg' = wg - 1
             ELSE Go(r, "lock") /\ UNCHANGED wg
  /\ UNCHANGED <<clusterVars, current, refreshMu, done, active, fetched, phase, todo, at, found,
                 goVars, state, stopPc, failures, history>>

\* pool.getNodeForHashslot, on the goroutine of a Subscribe or of a migration, finds no
\* node for its hashslot: a refresh that wg does not count and done does not prevent.
ForceRefresh(r) ==
  /\ pc[r] = "off" /\ MayHappen /\ \E s \in Slots : current.node[s] = NoNode
  /\ Go(r, "lock")
  /\ UNCHANGED <<clusterVars, current, refreshMu, done, wg, active, fetched, phase, todo, at, found,
                 goVars, state, stopPc, failures, history>>

Stop ==
  /\ stopPc = "running"
  /\ done' = TRUE /\ stopPc' = "waiting"
  /\ UNCHANGED <<clusterVars, current, refreshMu, wg, active, refreshVars, goVars, state,
                 failures, history>>

StopWaits ==
  /\ stopPc = "waiting" /\ wg = 0
  /\ stopPc' = "returned"
  /\ UNCHANGED <<clusterVars, current, refreshMu, done, wg, active, refreshVars, goVars,
                 state, failures, history>>

-----------------------------------------------------------------------------
(* The migration goroutines and the subscriptions *)

\* resubscribeOnNewNode at work: subscriptions are Closed for the time of the move.
MigrationMoves(h) ==
  /\ run[h] = "running"
  /\ \E S \in SUBSET {x \in takes[h] : state[x] # "closed"} :
       S # {} /\ state' = [x \in Subs |-> IF x \in S THEN "closed" ELSE state[x]]
  /\ UNCHANGED <<clusterVars, current, refreshMu, done, wg, active, refreshVars, goVars,
                 stopPc, failures, history>>

\* resubscribeOnNewNodeWithMonitoring returns, within migrationTimeout and its headroom:
\* its subscriptions are active, unless they have failed meanwhile; when it was cancelled,
\* timed out or could not connect they are left in any state, Closed included.
MigrationEnds(h) ==
  /\ run[h] = "running"
  /\ run' = [run EXCEPT ![h] = "ending"]
  /\ \E new \in [takes[h] -> {"live", "failed", "closed"}] :
       /\ state' = [x \in Subs |-> IF x \in takes[h] THEN new[x] ELSE state[x]]
       /\ \/ /\ \A x \in takes[h] : new[x] = "live" \/ (new[x] = "failed" /\ state[x] = "failed")
             /\ UNCHANGED failures
          \/ ctx[h] = "cancelled" /\ UNCHANGED failures
          \/ MayHappen /\ failures' = failures + 1
  /\ UNCHANGED <<clusterVars, current, refreshMu, done, wg, active, refreshVars, slotOf, ctx, takes,
                 stopPc, history>>

\* Mutant: Delete in place of CompareAndDelete.
Forget_Any(h) ==
  /\ run[h] = "ending"
  /\ active' = [active EXCEPT ![slotOf[h]] = NoHandle]
  /\ run' = [run EXCEPT ![h] = "forgotten"]
  /\ UNCHANGED <<clusterVars, current, refreshMu, done, wg, refreshVars, slotOf, ctx, takes,
                 state, stopPc, failures, history>>

\* The deferred CompareAndDelete ...
Forget(h) ==
  /\ run[h] = "ending"
  /\ active' = [active EXCEPT ![slotOf[h]] = IF @ = h THEN NoHandle ELSE @]
  /\ run' = [run EXCEPT ![h] = "forgotten"]
  /\ UNCHANGED <<clusterVars, current, refreshMu, done, wg, refreshVars, slotOf, ctx, takes,
                 state, stopPc, failures, history>>

\* ... and wg.Done.
MigrationDone(h) ==
  /\ run[h] = "forgotten"
  /\ run' = [run EXCEPT ![h] = "free"] /\ slotOf' = [slotOf EXCEPT ![h] = NoSlot]
  /\ ctx' = [ctx EXCEPT ![h] = "cancelled"] /\ takes' = [takes EXCEPT ![h] = {}]
  /\ wg' = wg - 1
  /\ UNCHANGED <<clusterVars, current, refreshMu, done, active, refreshVars, state, stopPc,
                 failures, history>>

\* A connection is lost: some or all of the subscriptions of a hashslot fail.
ConnectionLost(s) ==
  /\ MayHappen /\ failures' = failures + 1
  /\ \E S \in SUBSET {x \in Of(s) : state[x] = "live"} :
       S # {} /\ state' = [x \in Subs |-> IF x \in S THEN "failed" ELSE state[x]]
  /\ UNCHANGED <<clusterVars, current, refreshMu, done, wg, active, refreshVars, goVars,
                 stopPc, history>>

-----------------------------------------------------------------------------
ClusterChanges ==
  \/ \E s \in Slots, n \in Nodes \cup {NoNode} : Reshard(s, n)
  \/ \E n \in Nodes : Failover(n)

Refresh(r) ==
  \/ Lock(r) \/ FetchSlots(r) \/ FetchNodes(r) \/ Swap(r)
  \/ \E s \in Slots : HandleMigration(r, s) \/ RecoverFailed(r, s)
  \/ CollectFailed(r) \/ RecoveredAll(r)
  \/ LaunchRefused(r) \/ CancelPrevious(r) \/ Launch(r) \/ Unlock(r)

Migrate(h) == MigrationMoves(h) \/ MigrationEnds(h) \/ Forget(h) \/ MigrationDone(h)

Next ==
  \/ ClusterChanges
  \/ \E r \in Refreshers : Refresh(r) \/ FetchFails(r)
  \/ \E r \in Redirects : TriggerRefresh(r) \/ TriggerChecks(r)
  \/ \E r \in Callers : ForceRefresh(r)
  \/ Tick \/ MonitorExits \/ Stop \/ StopWaits
  \/ \E h \in Handles : Migrate(h)
  \/ \E s \in Slots : ConnectionLost(s)

\* What the goroutines do by themselves, and the ticker.
Proceed ==
  \/ \E r \in Refreshers : Refresh(r)
  \/ \E r \in Redirects : TriggerChecks(r)
  \/ Tick \/ StopWaits
  \/ \E h \in Handles : Migrate(h)

\* When goroutines can go on, one of them does; which one is left open, and it need not
\* be fair to each.  Select chooses at random, so that done is not passed over forever.
Fairness == WF_vars(Proceed) /\ SF_vars(MonitorExits)

Spec == Init /\ [][Next]_vars /\ Fairness

-----------------------------------------------------------------------------
(* Properties *)

TopoState == [node : [Slots -> Nodes \cup {NoNode}], nodes : [Slots -> Seq(Nodes)], at : Nat]

\* The variables have their types.
TypeOK ==
  /\ owner \in [Slots -> Nodes \cup {NoNode}] /\ masterOf \in [Nodes -> Nodes]
  /\ epoch \in Nat \ {0} /\ current \in TopoState
  /\ refreshMu \in Refreshers \cup {NoOne} /\ done \in BOOLEAN /\ wg \in Int
  /\ active \in [Slots -> Handles \cup {NoHandle}]
  /\ pc \in [Refreshers -> {"off", "added", "lock", "slots", "nodes", "swap", "loop", "check",
                            "store", "unlock", "wait", "over"}]
  /\ fetched \in [Refreshers -> TopoState] /\ phase \in [Refreshers -> {"handle", "recover"}]
  /\ todo \in [Refreshers -> SUBSET Slots] /\ at \in [Refreshers -> Slots \cup {NoSlot}]
  /\ found \in [Refreshers -> SUBSET Subs] /\ takes \in [Handles -> SUBSET Subs]
  /\ run \in [Handles -> {"free", "running", "ending", "forgotten"}]
  /\ slotOf \in [Handles -> Slots \cup {NoSlot}] /\ ctx \in [Handles -> {"live", "cancelled"}]
  /\ state \in [Subs -> {"live", "failed", "closed"}]
  /\ stopPc \in {"running", "waiting", "returned"} /\ failures \in Nat
  /\ sent \in [Subs -> Nodes \cup {NoNode}] /\ overtaken \subseteq Subs

\* wg counts the monitor, the refreshes of redirects and the migrations, with the ones
\* about to be started, so that what stop waits for is what runs, and the counter never
\* gets negative (tm.wg in topology.go).  It does not count a forced refresh, only the
\* migration that it is about to start.
WgCounts ==
  wg = Cardinality({r \in Counted : pc[r] \notin {"off", "over"}})
       + Cardinality({r \in Refreshers : pc[r] \in {"check", "store"}})
       + Cardinality({h \in Handles : run[h] # "free"})

\* The state that was fetched at the present epoch has exactly the masters of the
\* cluster, whatever ranges CLUSTER SLOTS made of them (update).
MastersAreTheClusters ==
  \A t \in {current} \cup {fetched[r] : r \in Refreshers} : t.at = epoch => t.node = owner

\* "Index 0 is always the master", and no node is in the list of a hashslot twice,
\* although CLUSTER SLOTS and CLUSTER NODES are answered at different times and the
\* first may have the replicas already (hashslotToNodes, enrichWithReplicaInfo).
NodeListsAreSound ==
  \A s \in Slots : LET l == current.nodes[s] IN
    /\ l = <<>> <=> current.node[s] = NoNode
    /\ l # <<>> => l[1] = current.node[s]
    /\ IsInjective(l)

\* What the monitor knows is what the cluster said, and wg counts what runs.
KnowledgeIsSound == TypeOK /\ WgCounts /\ MastersAreTheClusters /\ NodeListsAreSound

\* When no refresh is between its swap and its end, every subscription whose hashslot has a
\* node has had a migration launched for that node, whichever refresh saw the change, and
\* although subscriptions fail before, during and after it (compareAndDetectChanges,
\* handleMigrations, recoverFailedSubscriptions).  The exception: a subscription that an
\* earlier migration was moving, and that was neither active nor pending when the change
\* was handled, is passed by (topology.go:605-612).
NoMoveLost ==
  AutoResubscribe /\ ~done /\ (\A r \in Refreshers : pc[r] \notin {"loop", "check", "store"}) =>
    \A x \in Subs \ overtaken :
      LET node == current.node[HashslotOf[x]] IN node # NoNode => sent[x] = node

\* A migration that has not been cancelled is the one that activeMigrations has, so
\* that the next one for the hashslot can cancel it; with it, no two migrations of
\* a hashslot run uncancelled (cancel-and-replace, CompareAndDelete).
NewestIsCancellable ==
  \A h \in Handles : run[h] = "running" /\ ctx[h] = "live" => active[slotOf[h]] = h

\* When stop has returned no migration runs or will run, and no refresh of the monitor or of
\* a redirect, not even of one that an event loop sees later (wg.Add before the check of
\* done).  A refresh that a lookup forces may still run, since nothing joins it
\* (pool.go:778): it installs a topology, but launches nothing.
NothingAfterStop ==
  stopPc = "returned" =>
    /\ \A r \in Counted : pc[r] \in {"off", "added", "over"}
    /\ \A r \in Callers : pc[r] # "store"
    /\ \A h \in Handles : run[h] = "free"

\* The topology that lookups use is never replaced by one that was fetched before
\* it (refreshTopology's mutex over fetch and swap).
NeverBackwards == [][current'.at >= current.at]_vars

\* stop returns: the monitor, the refreshes in flight and the migrations, which
\* stop does not cancel, all end.
StopReturns == stopPc = "waiting" ~> stopPc = "returned"

\* The monitor catches up with the cluster after failed queries and changes in the
\* middle of a refresh, unless it is stopped.
CatchesUp == []<>(done \/ current.at = epoch)

=============================================================================
