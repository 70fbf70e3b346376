# A formal model of submux

`submux` is a Go library that multiplexes many Pub/Sub subscriptions of one process
over few connections to a Redis Cluster. This directory holds TLA+ modules that
model its core, TLC configurations that model-check them, and proofs checked by
TLAPS. `PROJECT.json` maps every definition to the source lines it models.

## Inventory

| Component | Source | State | Operations | Talks to |
|---|---|---|---|---|
| SubMux API | `submux.go` | `closed`, `subscriptions` (global map) | `SubscribeSync`, `PSubscribeSync`, `SSubscribeSync`, `Unsubscribe`, `Close` | pool, connection metadata, event loops (commands and channels) |
| subscription | `subscription.go` | `state`, `confirmCh`, `doneCh`, `confirmErr`, `pubsub` | `setState`, `waitForConfirmation`, `waitForActive`, `resetConfirmation` | written by callers, event loops, migrations and `Close` |
| connection metadata | `pool.go` | `subscriptions`, `pendingSubscriptions`, `state`, `cmdCh`, `done`, `loopDone` | `addSubscriptionAndCheckFirst`, `removeSubscription`, `removePendingSubscription`, `sendCommand`, `close` | callers and the event loop |
| event loop | `eventloop.go` | one goroutine per connection | send commands, confirmations, dispatch, failure, drain, exit | Redis, metadata, sequencers |
| connection pool | `pool.go` | `nodePubSubs`, `hashslotPubSubs`, `pubSubMetadata`, `pendingConnections` | lookup, create, remove, `closeAll` | topology monitor for the node of a slot |
| callback sequencer | `sequencer.go`, `callback.go` | `queue`, `active`, `overflowing`, `dropCount` | `enqueue`, the drain function, `executeCallback` | worker pool, `callbackWg` |
| ring buffer | `ringbuf.go` | `buf`, `head`, `tail`, `count`, `fixed` | `push`, `pop`, `grow` | owned by the sequencer |
| worker pool | `workerpool.go` | `started`, `stopped`, `ctx`, `taskQueue`, `submitMu` | `Start`, `Submit`, `SubmitWithContext`, `TrySubmit`, `Stop` | runs drain functions |
| topology monitor | `topology.go` | `currentState`, `refreshMu`, `done`, `wg`, `activeMigrations` | `monitor`, `triggerRefresh`, `refreshTopology`, `stop` | redirects from event loops |
| migration and recovery | `topology.go` | goroutines per hashslot | `handleMigration`, `resubscribeOnNewNode`, `recoverFailedSubscriptions` | pool, metadata, subscriptions, sequencers |
| hashslots, configuration, metrics, types | `hashslot.go`, `config.go`, `metrics*.go`, `types.go`, `errors.go` | none that controls behaviour | | |

What is hard here:

* One subscription's state is written by its caller, by the event loop, by failure
  notification, by migrations and by `Close`, each in its own critical section;
  `setState` does not look at the old state.
* "Am I the first subscriber of this channel?" and "am I the last?" are decided from
  registries that other callers change before the decision takes effect.
* Callers wait on channels that another goroutine fills, closes or abandons:
  deadlines, dying event loops and `Close` all race with the answer.
* The callbacks of a subscription's queued messages must be sequential and ordered
  although several goroutines enqueue and the drain task may run on a worker or on
  its own. (An overflow signal has a goroutine of its own and may run beside them.)
* The topology is read, cached and acted upon in different critical sections, while
  refreshes overlap, queries fail and the cluster changes between two answers of one
  refresh.
* Migrations of a hashslot overlap: a cancelled one keeps running next to its
  successor, on the same subscriptions.
* `Close` has to stop all of this from any state.

What makes the components correct: the callbacks of queued messages are sequential,
in order and never stranded (sequencer); no send on a closed queue, no rejected task
runs, `Stop` drains and ends (pool); no stale pending entry, no lost wake-up, no
deaf subscriber, no orphaned topic, in-order delivery, failed calls leave nothing
behind, calls return (SubMux and event loop); a FIFO queue through wrap-around and
growth (ring buffer); no doubled and no unlisted connections, waiters that return,
caches that follow the topology (connection pool); the topology never goes back, no
move is lost, `stop` joins what it counts (topology monitor); subscriptions end up
served or at least settled, and a late migration is told (migration).

## Plan

1. `CallbackSequencer` with proofs — done.
2. `WorkerPool` as an implementation of `TaskService`, with proofs — done.
3. `SubMux`: API, subscription, metadata and event loop together — done, with all
   its safety properties proved.
4. `RingBuf` implementing `FifoQueue`, with proofs — done.
5. `ConnPool`: the registries of the pool, the selection paths, `pendingConnections`
   and `closeAll`, with proofs — done.
6. `TopologyMonitor`: the topology state and its sources, refreshes, redirects, the
   launching of migrations, `stop`, with proofs — done.
7. `Migration`: what a migration does to the subscriptions, overlapping migrations,
   recovery, the progress goroutine, with proofs — done.
8. Left to model: the composition of sequencers, worker pool and event loop, for
   callbacks that call back into submux with a full pool.

## Modules

### CallbackSequencer

One subscription's sequencer. `queue`, `active`, `overflowing` and `dropCount` are
the fields of the struct. A call of `enqueue` is named by the message it carries,
and so is the drain task the call may create. `EnqueueDrop` and `EnqueuePush` are
the two outcomes of the critical section; `TrySubmitOk` .. `SpawnDrain` the
handover; `WorkerTakesTask`, `DrainPops`, `DrainEnds`, `StartCallback`,
`FinishCallback` the drain loop, whose callback may panic. The pool is seen through
its answers. `CloseBegins` .. `CloseWaits` are the part of `SubMux.Close` that
matters here. `Detached` holds the messages enqueued by a goroutine `Close` does not
join (the progress goroutine of a migration).

### WorkerPool and TaskService

Each task is submitted once, by one of the three methods. `submitMu` is who holds it
for reading plus whether a writer waits; the channel is a bounded sequence and a
closed flag, and a send on the closed channel sets `panicked`. `TaskService` says
what users rely on: a task is accepted or rejected, accepted tasks begin and finish
once, and nothing is accepted or left once the service is down. `WorkerPool!Service`
is the refinement mapping.

### SubMux

The callers (`Handles`), each making one Subscribe over its channels and one
Unsubscribe; one event loop per connection; `Close`; and Redis. A step is what a
goroutine does between two points of interference: a critical section of `sm.mu`,
the pool's, the metadata's or the subscription's mutex, or one channel operation.
`pc[h]` names the place in `subscribeToChannel` (`lookup` .. `unregister`) or in
`unsubscribeSubscription` (`uCheck` .. `uRemove`), `loop[c]` the place in
`runEventLoop` and its deferred calls.

The steps of the event loop that matter most for other goroutines are kept apart:
the check of a subscription's state (`LoopDispatches`) from the hand-over
(`LoopHandsOver`), and setting Failed (`LoopNotifies`) from the signal
(`LoopSignals`). So an Unsubscribe may close the subscription, and return, between
the two. `delivered` has the messages by their number and the signal as the number
after the last.

Abstractions: all channels hash to one slot of one node, so the pool is two sets of
connections, those with metadata (`inPool`) and those it lists (`listed`).
`createPubSubToNode` registers the metadata and starts the loop (`Create`); the
caller lists the connection afterwards (`List`), when it may be lost already. A
lookup takes a connection that is in both. The subscriptions of one handle on the
same channel are closed and removed together. Handing a message to a sequencer is a
step that does not block (`CallbackSequencer` is what happens next), and stopping
the worker pool is left out of `Close`. `go-redis` is external: a send reaches
Redis, or fails because the connection is lost or (for SUBSCRIBE, which carries the
caller's context) because the context is done; confirmations and messages arrive in
order; a lost connection loses any part of what was on the way and ends with the
message channel closed. A panic ends the process: what the model does after `done`
was closed twice is not the program's, and no passing run reaches it.

### RingBuf and FifoQueue

The fields of `pendingCallbackRing` and one action per outcome of `push` and `pop`;
`Regrown` is what `grow` copies, in its two cases. `limit` is the sequencer's
`maxQueueSize`, which decides at the first use whether the buffer is fixed.
`FifoQueue` is the sequence `CallbackSequencer` works with, with a bound or without;
the mapping (`Fifo`) reads `count` items from `head` on.

### ConnPool

`getPubSubForHashslot` for concurrent callers, a step per critical section of
`pool.mu`: the cache of the hashslot (`Fast`), the topology read without the lock
(`ReadView`, or `AskCluster` when the hashslot is unknown), the connections of the
node (`Reuse`) or of all nodes of the shard (`Select`, with `pendingConnections`),
`Dial`, `List`, `Resolve`, and the waiters (`Wait`, `Adopt`, `GiveUp`). Lists are
sequences, because the first of the least loaded is taken. The load of a connection
is the number of callers that hold it. `createPubSubToNode` only fails without a
topology monitor, which is set before the pool is used, so `Dial` succeeds; go-redis
connects later. A failed connection leaves the pool in one step (`Retire`, which
takes the first entry of it out of each list; the steps are in `SubMux`). The
monitor swaps the topology (`Move`) and later invalidates the hashslots whose master
changed (`Invalidate`). `raced` and `busyAtClose` are history.

### TopologyMonitor

The cluster (`owner`, `masterOf`, `epoch`, external) and its answers: ranges for
CLUSTER SLOTS, with or without replicas, and roles for CLUSTER NODES, with some
replicas flagged as failing. The monitor goroutine, the goroutines of redirects
(`TriggerRefresh`, `TriggerChecks`) and lookups that find no node for their hashslot
(`Callers`, `ForceRefresh`, `pool.go:778`) run the same refresh; `wg` counts the
first two kinds only, and the third looks at `done` only where a migration is
launched. The refresh: `Lock`, `FetchSlots` or `FetchFails`, `FetchNodes`, `Swap`,
`HandleMigration` for each change, `CollectFailed` and `RecoverFailed` for each
hashslot with failed subscriptions, `Unlock`. Launching a migration is `wg.Add`
(with the action before), the check of `done` (`LaunchRefused` or `CancelPrevious`)
and the new handle (`Launch`). Each subscription is live (active or pending), failed
or closed. A migration closes subscriptions for the time of the move
(`MigrationMoves`), leaves them live or, when it was cancelled or failed, in any
state (`MigrationEnds`), and runs its deferred calls (`Forget`, `MigrationDone`).
`at` (of a state), `sent` (the node of the last migration that was launched for a
subscription) and `overtaken` (the subscriptions that a migration was moving, and
that were neither active nor pending, when a later change was handled, until a
migration is launched for them again) are history. `MaxEvents` bounds the changes,
failures, redirects and forced refreshes together.

### Migration

One hashslot in detail: the goroutine of a migration (`NextChannel` .. `Join`), one
sender per subscription that was first on its new connection (`SendCommand` ..
`GivesUp`), the progress goroutine (`Tick`, `FinalCheck`) and the event loops
(`Execute` .. `Leave`). `subscriptions`, `pending` and `cmds` are the metadata of a
connection, `topics` what Redis has for it. `processed` is the set of what
`processedCount` has counted; `Counted` (a part of `TypeOK`) says that it and what
the goroutine and its senders still have to do do not overlap, so that nothing is
counted twice, and, while the context is live, are all the subscriptions of the
migration, so that nothing is forgotten. Between `NextChannel`, which looks at the
context, and the answer of the pool the context may end: an error then ends the
loops with the other channels uncounted (`GetAborted`, `topology.go:910-915`); with
a live context the channel is counted and the next one follows (`GetFails`). A
refresh that launches a migration is one step (its own are in `TopologyMonitor`),
and so are the choice of a connection (`ConnPool`) and a confirmation (`SubMux`). A
stall is told in the same way as a timeout, so `late` stands for both. The
subscriptions exist from the start and are not unsubscribed. A connection that went
is used again as a new one when nothing refers to it, which keeps the state finite.

## Runs

Passing:

| Run | Instance | Distinct states | Shows |
|---|---|---|---|
| `sequencer` | 4 calls (1 detached), queue of 1, callbacks may panic, `Close` | 43,000 | `OneDrainWhileNeeded` (`SequentialCallbacks`, `NeverStranded`), `FifoDelivery`, `OneSignalPerEpisode`, `CloseWaitsForCallbacks`, `AcceptedIsStarted`, `CloseReturns` |
| `pool_all` | 4 tasks over the 3 methods, 2 workers, queue of 1, 2 stoppers | 87,000 | `NoSendOnClosedChannel`, `TasksRunAsPromised` (`RejectedNeverRuns`, `StopDrainsQueue`), `CallsTerminate` (`StopTerminates`, `SubmitTerminates`), `ImplementsService` |
| `mux_concurrent` | a two-channel caller with a deadline, which rolls back when it fails, and a caller sharing its second channel; 1 connection that may break, no auto-resubscribe | 538,000 | `PendingHasOwner`, `NoLostWakeup`, `FailedLeavesNothing`, `SubscribeReturns` |
| `mux_delivery` | 2 callers on one channel that unsubscribe, one of which may give up waiting, 2 messages, 1 break | 3.2 million | `DeliveryInOrder`, `QuietAfterUnsubscribe`, `ConfirmedBeforeReturn` |
| `mux_serial` | the callers of `mux_concurrent`, one call at a time, no deadline, both unsubscribe, 2 connections, 1 break | 424,000 | `TopicsMatchSubscribers` (`NoDeafSubscriber`, `NoOrphan`), `UnsubscribeReturns`, `LostConnLeavesPool` |
| `mux_close` | 2 callers, one with a deadline, and `Close` | 395,000 | `CloseReturns` |
| `ringbuf` | 2 items, limits 0 and up to 3, growth from 2 to 8 | 8,600 | `OccupiedExactly`, `ImplementsFifo` |
| `connpool` | 2 callers, 3 calls, 2 nodes, 3 connections, the 3 preferences, 1 failure or change, `closeAll` | 855,000 | `RegistriesAgree` (`PendingHasMaker`, `OneSharedPerNode`, `CachedIsListed`), `FreshUnlessRaced`, `CloseClosesAll`, `WaitersReturn` |
| `topology` | 2 hashslots, 2 nodes, 1 subscription, 1 redirect, 1 lookup, 2 migrations at a time, 2 events (change of the cluster, failure, redirect, forced refresh) | 487,000 | `KnowledgeIsSound` (`WgCounts`, `MastersAreTheClusters`, `NodeListsAreSound`), `NoMoveLost`, `NewestIsCancellable`, `NothingAfterStop`, `NeverBackwards`, `StopReturns`, `CatchesUp` |
| `migration` | 2 subscriptions of one channel or of two, 2 nodes, 3 connections, 2 migrations at a time, 2 events (change, redirect, loss, send error, slow command, late migration, unknown node) | 899,000 | `RepairedUnlessCut`, `TimeoutIsTold`, `Settles` |

Two subscriptions on one channel are enough for the first/last decisions and for a
waiter; a second channel is needed for a rollback. The command channel has capacity
1 instead of 100, and the callback queue 1, so that a full one happens. A shard of
two nodes has a choice to make and a node to spread to; two calls race for it and a
third comes after. Two migrations can overlap, and two events are the least with
which a repair is itself disturbed; two channels are needed for a migration that
ends between them. The invariants of `topology` were also checked with two
subscriptions of one hashslot and three events, where a change is undone and
subscriptions fail next to others that are being moved; that takes longer than a
routine run. A buffer that grows twice from 2 wraps, and grows, with head at every
position. Deadlock is not checked (except in `ringbuf`): a program whose calls have
all returned rests; that a call in progress is not stuck is the subject of the
liveness properties. The type invariant of each module is a property of its own in a
run or a conjunct of `RegistriesAgree`, `KnowledgeIsSound` and `RepairedUnlessCut`;
that of `RingBuf` is proved.

`NoDeafSubscriber` holds when the application makes one call at a time
(`mux_serial`) and, for concurrent callers, as long as nothing disturbs them
(`ConfirmedBeforeReturn`, with the condition `Undisturbed`): nobody has begun to
unsubscribe, to roll back or to close, no deadline has passed, and no name is
subscribed to in two ways. Connections may be lost. For concurrent Subscribe and
Unsubscribe it does not hold (`mux_deaf`). `QuietAfterUnsubscribe`, and what
`FailedLeavesNothing` says of connections, are stated for calls that name no channel
twice (`DistinctChannels`), and the first for an Unsubscribe that did not find the
SubMux closed; the reasons are in the list below. `CloseReturns` is checked without
broken connections: with one, `done` may be closed twice (`mux_panic`).

What some properties leave open, because the code does:

* `QuietAfterUnsubscribe`. After Unsubscribe has returned the event loop takes the
  subscription into no snapshot and decides on no further message. The one it had
  decided on before still arrives, since an Unsubscribe that is not the last of its
  channel waits for nothing; so does the signal of a lost connection to a snapshot
  taken before, which asks for no state. The callback may also still run for what is
  in the sequencer's queue.
* `SubscribeReturns` is about callers with a deadline: the break of the connection
  and the other caller are in its run.
* `LostConnLeavesPool` is about the metadata, by which lookups choose. A connection
  that is lost before its caller lists it stays on the lists without metadata
  (`pool.go:521-524`).
* `NoMoveLost` excepts subscriptions that an earlier migration was moving when the
  change was handled: `findAffectedSubscriptions` takes active and pending ones
  only, so that a Closed one is passed by and stays on its old target.
* `NothingAfterStop` is about the monitor, redirects and migrations. A refresh that
  a lookup forces is not joined: after `stop` it may still install a topology, but
  it launches nothing.
* `OneDrainWhileNeeded` is about the callbacks of queued messages. The goroutine of
  an overflow signal (`sequencer.go:79-84`) may run the callback beside them.

Runs that refute what the repository says (each with a finding):

| Run | Statement | What happens |
|---|---|---|
| `mux_deaf` | Subscribe returns after Redis confirmed | the last subscriber's UNSUBSCRIBE removes the topic of one that just joined |
| `mux_panic` | cleanup only on failure, Close otherwise | both close `done` |

Behaviours of the code met while modelling that no run asserts, for whoever works on
it next:

* Subscribing and unsubscribing. Two concurrent Unsubscribes of the last two
  subscribers of a channel each count the other, so nobody sends UNSUBSCRIBE
  (`submux.go:514`). When the first subscriber times out, a second one without a
  deadline that waits for it is never woken (`submux.go:426`). A caller whose
  deadline passes while it sends, or whose SUBSCRIBE the loop finds expired, has its
  pending entry dropped before its subscription (`submux.go:418-421`): a second
  subscriber that registers in between finds a nonempty list without a pending entry
  and returns success although nothing was sent to Redis, while `pool.go:168` says
  "If needsSubscribe is false and existingPending is nil, the channel is already
  active". When a call names a channel twice and the connection changed in between,
  Unsubscribe closes both subscriptions but removes them from the connection of the
  first only (`submux.go:572-613`), or skips both if that connection is gone: the
  second stays registered and may be handed messages. A new subscriber drops the
  failed subscriptions of the channel from the map they are recovered from
  (`submux.go:675`). A subscriber that joins a channel of a dying connection after
  the failure snapshot stays Active. The registries are keyed by name only, so
  SSUBSCRIBE of a name with a SUBSCRIBE subscription is never sent. The loop that
  has confirmed a subscription removes the pending entry of the channel, whoever's
  it is (`eventloop.go:196-199`): if the confirmed subscriber has left and a new one
  has registered meanwhile, the new one's confirmation finds no entry.
* Close. A confirmation in progress turns a subscription that `Close` has closed
  back to Active. A Subscribe that passed the closed check opens a connection after
  `closeAll`, which nothing closes (hence `busyAtClose`). A second concurrent `Stop`
  of the worker pool returns before the first. A signal enqueued by a migration's
  progress goroutine can run after `Close` has returned (hence `DetachedIdle` of
  `CloseWaitsForCallbacks`). A redirect may add to the monitor's WaitGroup when it
  is zero and `stop` is already waiting (`topology.go:369`). A refresh forced by a
  lookup can be running when `stop`, and `Close`, have returned (`pool.go:778`).
* Connection pool. A lookup that read the old topology puts a connection to the old
  owner into the cache after the invalidation (hence `raced`). Changes of the
  replicas alone invalidate nothing. A connection that fails before it is listed
  stays listed, without metadata (`List` in `SubMux`). Outside `BalancedAll`, or
  with a hashslot the monitor does not know, concurrent callers make a connection
  each.
* Migrations. The second subscription of a channel becomes Active because the first
  has an entry on the new connection, even if the first one's SUBSCRIBE was skipped
  because the context ended, timed out or failed: the channel is then never sent to
  Redis (hence `cut`). A subscription taken off its old connection stays Closed when
  the migration is cancelled at that point or the new connection has left the pool
  (`topology.go:947-951`), and only failed ones are recovered; a change that comes
  while it is Closed passes it by (hence `overtaken`). A migration that finds no
  node leaves its subscriptions where they were, and one whose context ends during
  that search does not count the channels that are left (`topology.go:910-915`).
  `recoverFailedSubscriptions` cancels the migration that the same refresh has just
  started. A change that affects no active subscription does not cancel the
  migration in flight. The waiter of a cancelled migration can set Failed, or take
  the confirmation of, a subscription that its successor has moved. A command queued
  to a loop that has just ended waits its ten seconds. A subscription that is
  unsubscribed during its migration is registered again. The old node is never sent
  UNSUBSCRIBE.
* Callbacks. One that calls `SubscribeSync` holds a worker while the event loop it
  needs may be blocked handing over to the full pool (`sequencer.go:110`).

## Fairness

`CallbackSequencer` and `WorkerPool`: weak fairness of every goroutine that is
inside a call, of workers and of callbacks (the Go scheduler runs what can run;
callbacks are assumed to return). `SubMux`: weak fairness of the callers, the event
loops, `Close` and the deadlines together (`Proceed`), so that something happens as
long as anything can; this is less than the scheduler gives, and enough, because
what each of them can do is bounded. None for starting a call, publishing, breaking
a connection or calling Close.

`ConnPool`: weak fairness of each call in progress; a waiter need not have a
deadline. `TopologyMonitor`: weak fairness of refreshes (their queries have
timeouts), of the ticker and of migrations (bounded by their timeout) together
(`Proceed`), and strong fairness of the monitor's exit, since `select` chooses at
random among the ready cases and so does not pass over `done` forever. Failing
queries are not fair and bounded by `MaxEvents`. `Migration`: weak fairness of all
system steps together, with no event required to happen. A poll comes when
everything else that can run has run, because the poll interval is long compared
with a step; refreshes at other times are events.

## Proofs

`CallbackSequencer_proofs`, for any set of messages and any limit. The invariant
`IInv` is `TypeOK`, the ownership of the active flag (`active` is set exactly while
one and only one call or drain task is responsible for it, and a queued message
implies it), and conservation (`accepted` is `started`, then the message popped but
not started, then `queue`). Sequentiality alone is not inductive: that the next
drain is created by at most one caller rests on ownership, and FIFO on conservation.
`DrainIsUnique` is the theorem for `OneDrainWhileNeeded`; like
`CallbacksAreSequential` it is about drain tasks, not about the goroutine of an
overflow signal. `SignalInv` adds what the overflow fields say about the last
verdict. `CloseInv` says what each stage of `Close` has emptied as long as no
detached goroutine has enqueued (`CloseWaitsForJoined`).

`WorkerPool_proofs`, for any tasks, workers, stoppers and capacity. The invariant
says that at most one Stop gets past the check, that the queue is closed only by it
and only with no reader of `submitMu`, when workers may be gone, and in which one
place each accepted task is. `TasksAreRunAsPromised` follows from it.
`PoolImplementsService` shows that every step maps to a step or a stutter of
`TaskService!Next`.

`SubMux_proofs`, for any callers, channels, connections, bounds and configuration,
`Close` and broken connections included. `NoLostWakeup` is not inductive: `setState`
signals only when it finds the subscription Pending, so one has to know that a
subscription somebody moves exists already and, if it is not Pending any more, has
been signalled before. The invariant `IInv` is `TypeOK`; `Placed`, what a caller's
local variables hold at each place (the index is within its subscriptions, the
current one has a connection, the channels still to unsubscribe are its own);
`AllAlive`, that every subscription in a registry, a command, an event loop's hands
or `Close`'s list was created; and `Signalled`, that one that has left Pending has
closed `doneCh` and, until its caller has received it, holds the confirmation. That
the confirmation is received only by the caller it is for (`CurDistinct`) rests on
the assumption that handles do not share subscriptions, each being created inside
one `subscribeToChannel`. `FirstSubExists` takes the least index from the
well-foundedness of the naturals.

`RingBuf_proofs`, for any items, limits and initial capacity. The invariant adds to
`TypeOK` that `tail` is `(head + count) % cap` and that exactly the slots from
`head` on hold items; the modular arithmetic of wrapping is in lemmas of its own.
`RingImplementsFifo` maps every step to a step or a stutter of `FifoQueue`: the case
that needs the invariant is growth with a wrapped buffer, where both parts of the
copy together are the old contents in order.

`SubMux_safety_proofs` extends `SubMux_proofs`, with the same generality. Its
invariant `SafeInv` is inductive together with `IInv`:

* `NotYet` and `Homes`: a subscription is untouched before `Track` creates it and
  lives on one connection, which exists. Everything else rests on these two, since
  event loops, callers and `Close` find a subscription by different ways.
* `InOrder`: what is in a connection's inbox is newer than what its loop received,
  and what a subscription was handed is older than what it may still be handed
  (`HandedOver`): strictly older than the message at hand while it is in the
  snapshot or in the loop's hands (`MessageOwed`), and not the signal as long as
  that may still come (`SignalOwed`). What the loop has in its hands has left the
  snapshot (`TakenOnce`), so it is not handed over twice. `DeliveryInOrder` alone
  says nothing about messages on their way.
* `Registry`: a pending entry is a registered subscription of that channel; one that
  has not been registered yet is known to no connection; and a caller that was told
  nil has no pending entry of its own that stays, except one its event loop removes
  next. The last is why `PendingHasOwner` survives the three critical sections of
  `handleSubscriptionConfirmation`.
* `Leaving`: how far each rollback or Unsubscribe has come. A subscription whose
  channel is not left to do is silenced (closed, failed, or its loop is over) and
  removed, or its channel awaits a response, or its connection has left the pool. A
  loop never confirms a subscription whose caller is past its wait (`NotReturned`),
  or it would bring a closed one back.

`DeliveryTheorem`, `OwnerTheorem`, `RollbackTheorem` and `QuietTheorem` follow. For
the last, that Unsubscribe silenced the subscription before it returned means that
the next check of its state finds it closed or failed: what is handed over later was
in hand. `ConfirmTheorem` needs a further invariant, `ConfirmInv`: while nothing
disturbs (`Undisturbed`), whatever anybody was told is true (`Backed`). A
confirmation on its way, a registered subscription without a pending entry, an
Active state, a nil in `confirmCh` or `doneCh` and a caller about to set Active all
mean that Redis has the topic or the connection is lost; a failed state, an error
and a caller in its cleanup mean that the connection is lost; and only SUBSCRIBEs
are queued. That it holds now if it held before rests on disturbances being
irrevocable (`UndisturbedBefore`).

`SerialTheorem` and `TopicsTheorem` are about `TopicsMatchSubscribers`, which is
true only of an application that makes one call at a time: with overlapping calls an
Unsubscribe counts the other subscribers of its channel, and by the time its command
reaches Redis somebody has joined. The hypothesis is `Orderly`: calls do not
overlap, no name is subscribed to in two ways, `Close` has not begun and no deadline
of Subscribe has passed. `TopicsTheorem` states this of the constants, as in the
configuration of `mux_serial`. TLC refutes the property on small instances when
calls overlap, when a name is subscribed to in two ways or when a deadline may pass;
that `Close` is excluded is a limit of the proof. Losses of connections are not
excluded. What makes the proof long is that one caller at a time is not one
goroutine at a time: the caller, Redis and the event loop of each connection are
each at some point of the same exchange. The invariant `SerialInv` says, besides
that a connection has finitely many subscriptions and that a command is sent to the
connection of its subscription (`Addressed`), that an orderly state is `Settled`:

* at most one handle is in a call and at most one connection is usable, listed or
  about to be listed by its maker (`OneCall`, `Single`), so that a caller joins the
  others of its channel. A connection that was lost stays lost, and a failed state,
  an error in `confirmCh` or a caller in its rollback means a lost connection
  (`LostOnly`, `BadNews`);
* whoever is registered is served, or its caller is still waiting for the
  confirmation, or it is leaving and its UNSUBSCRIBE is queued (`Served`); a topic
  is somebody's, or its UNSUBSCRIBE is queued (`Wanted`). These are the two parts of
  the property, said of the moments between the critical sections as well;
* the SUBSCRIBE of the waiting caller is in exactly one place: last in the command
  channel, answered in the inbox, or in the hands of the loop (`OnItsWay`). So no
  UNSUBSCRIBE is queued behind it, and the confirmation a caller takes is true;
* how far an Unsubscribe has come: what it has concluded, what it has still to do is
  as it was, the subscriptions of one channel are on one connection, the count of
  `channelsToUnsub` is right when it is used, and every response it awaits is queued
  or done (`Concluded`, `Kept`, `Together`, `Decided`, `Awaited`). `Decided` is
  where the counting under one lock and the removal under another meet.

TLC checked `SerialInv` as an invariant on the configuration of `mux_serial` before
it was proved.

`ConnPool_proofs`, for any callers, hashslots, nodes, connections, preference and
bounds. `RegistriesAgree` is not inductive because each of its parts speaks of one
registry while calls are between two critical sections. The invariant says what the
local variables of a call hold (`Placed`, `Making`), that a connection has one maker
(`OneMaker`), that nothing is known of a connection nobody made (`Unborn`), that an
announcement in `pendingConnections` has its maker and vice versa (`Announced`), and
that a working connection is registered and listed, or about to be (`Registered`,
`Shared`). `Current` adds, for PreferMasters, what a call in progress has read, and
`Closing` what `closeAll` has in hand. `Budget` shows that the connections of the
model last for all calls, so that `Dial` never lacks one. The lemmas on
`LeastLoaded` and on the lists are about any sequence.

`TopologyMonitor_proofs`, for any hashslots, nodes, redirects and handles. `Mutex`
says that a refresh is between its lock and its unlock if and only if it holds
`refreshMu`; with it, what a refresh has fetched is not older than what is installed
(`Known`), which gives `NeverBackwards`. `Moves`: a subscription that has not been
sent to the node of its hashslot, and was not overtaken, is one some refresh still
owes a migration (`Owes`): its hashslot is still to be handled, it has been found,
or it has failed and will be collected, or was. The recovery of failed subscriptions
is thus part of the argument: a subscription that fails between the swap and the
handling of its hashslot is not among the affected ones. `WgCounts` says what the
WaitGroup counts, the migration that a forced refresh is about to start included, so
that its being zero means that nothing of it runs (`Stopped`); the arithmetic is in
`CountIn`. `Replaced`: before a migration is stored the one it replaces has been
cancelled.

`Migration_proofs`, for any subscriptions, channels, nodes, connections, handles and
number of events. `Inv` is the types, what the goroutine of a migration holds at
each point (`Control`) and `Counted`; it holds however migrations overlap and gives
`CountTheorem`, `EndTheorem` and `ToldTheorem`. That everything is counted at the
end is so only with a live context, because of the return at `topology.go:915`.
`RepairedUnlessCut` speaks of the moment when all is done, so nearly everything has
to be said about the way there. The invariant for it is `Inv`, `Static` and, as long
as nothing has cut in, `Repair`:

* one migration at a time, in time and with no connection lost during it (`Alone`,
  `InTime`, `Calm`), on connections to the owner (`Held`);
* a subscription is in the metadata of its own connection only (`Home`), and an
  Active one is on the owner, about to be set Failed or still to be moved
  (`Placed`);
* a sender's subscription is Pending with its command or reply on its way, or Active
  with the confirmation waiting (`SentTo`, `Sent`, and for the queues `Queued`,
  `Distinct`, `Replied`, `Expected`). So what a sender takes from `confirmCh` is its
  own confirmation, which is not so once migrations overlap;
* nobody is Pending or Closed that the migration does not see to (`Waiting`), and
  the channel of whoever is on a connection is subscribed there or will be
  (`Cover`). This is what makes it right to set a subscription Active without a
  SUBSCRIBE of its own.

Between migrations the invariant implies that nothing at all is on its way
(`BetweenMigrations`), so the next launch starts from a state at rest; `NoFailure`
shows that every step on an error path is impossible then or is itself a cut. TLC
checked `Repair` as an invariant with one and with two channels before it was
proved.

Assumptions are the named `ASSUME`s of the modules, which TLC evaluates on every
run. Those of `ConnPool` and `TopologyMonitor` include that the sets whose members
are counted or listed (callers, connections, nodes, redirects, handles) are finite,
as they are in a running process. Only model-checked: all liveness properties and
the fairness part of `TaskService` (out of the prover's reach). Every invariant and
every action property of a passing run is stated by a theorem.

## Not modelled

Subscribe and Unsubscribe during a migration, and callbacks that call back into
submux: each needs two of the large modules together, beyond TLC at bounds where the
cases happen. The content of signals and messages. Metrics, logging, configuration
and type names, which do not influence control; the hashslot of a channel (CRC16 and
the hash-tag rule), which the models take as given; the integration test
infrastructure.
