-------------------------- MODULE CallbackSequencer --------------------------
(***************************************************************************)
(* The callback sequencer of one subscription (sequencer.go), the callback *)
(* execution it hands messages to (callback.go), and the tail of           *)
(* SubMux.Close that waits for it (submux.go).                             *)
(*                                                                         *)
(* enqueue is called by several goroutines: the event loop of the          *)
(* connection, the topology monitor, and the progress goroutine of a       *)
(* migration.  Close joins the first two before it stops the worker pool   *)
(* and does not join the third; the messages the third one enqueues are    *)
(* the set Detached.                                                       *)
(*                                                                         *)
(* A call of enqueue is named by the message it carries, and so is the     *)
(* drain task that call creates: every message is enqueued at most once.   *)
(* The worker pool is seen only through TrySubmit and Submit (module       *)
(* WorkerPool models its inside): its queue may be full with the tasks of  *)
(* other subscriptions at any moment.                                      *)
(***************************************************************************)
EXTENDS Naturals, Sequences, FiniteSets

CONSTANTS Msg,             \* the messages offered to this subscription
          Detached,        \* those enqueued by a goroutine Close does not join
          MaxQueueSize     \* maxQueueSize; 0 means unlimited

ASSUME SequencerAssumption == /\ Detached \subseteq Msg
                              /\ MaxQueueSize \in Nat

VARIABLES
  queue,        \* pendingCallbackRing, front first
  active,       \* TRUE while a drain task is submitted or running
  overflowing,  \* the signal of this overflow episode has been sent
  dropCount,    \* drops since the episode started
  callPc,       \* where the call enqueue(m) is
  drain,        \* where the drain task created by enqueue(m) is
  host,         \* what runs that task: the pool, or a goroutine of its own
  item,         \* the message that drain task popped last
  signal,       \* the goroutine delivering the overflow signal of enqueue(m)
  closePc,      \* progress of SubMux.Close
  accepted,     \* history: messages pushed, in the order of the lock
  started,      \* history: messages whose callback was started, in order
  verdicts      \* history: what each call did with its message, in the same order

seqVars  == <<queue, active, overflowing, dropCount>>
histVars == <<accepted, started, verdicts>>
vars     == <<queue, active, overflowing, dropCount, callPc, drain, host,
              item, signal, closePc, accepted, started, verdicts>>

CallPcs   == {"new", "trySubmit", "submit", "submitSelect", "spawn", "returned"}
DrainPcs  == {"none", "queued", "loop", "popped", "exec", "done"}
ClosePcs  == {"open", "joining", "stopping", "waiting", "closed"}

Init ==
  /\ queue = <<>>
  /\ active = FALSE
  /\ overflowing = FALSE
  /\ dropCount = 0
  /\ callPc = [m \in Msg |-> "new"]
  /\ drain = [m \in Msg |-> "none"]
  /\ host = [m \in Msg |-> "none"]
  /\ item = [m \in Msg |-> m]
  /\ signal = [m \in Msg |-> "none"]
  /\ closePc = "open"
  /\ accepted = <<>>
  /\ started = <<>>
  /\ verdicts = <<>>

-----------------------------------------------------------------------------
(* The critical section of enqueue *)

QueueFull_OffByOne == MaxQueueSize > 0 /\ Len(queue) > MaxQueueSize

QueueFull == MaxQueueSize > 0 /\ Len(queue) >= MaxQueueSize

\* The pool's context is cancelled by WorkerPool.Stop.
PoolCancelled == closePc \in {"stopping", "waiting", "closed"}

\* A goroutine that Close joins makes no call after Close has joined it.
MayCall(m) == m \in Detached \/ closePc \in {"open", "joining"}

\* Drop the newest message; the first drop of an episode spawns a goroutine
\* that delivers the overflow signal past the queue.
EnqueueDrop(m) ==
  /\ callPc[m] = "new" /\ MayCall(m)
  /\ QueueFull
  /\ dropCount' = dropCount + 1
  /\ overflowing' = TRUE
  /\ signal' = IF overflowing THEN signal
                              ELSE [signal EXCEPT ![m] = "running"]
  /\ callPc' = [callPc EXCEPT ![m] = "returned"]
  /\ verdicts' = Append(verdicts, [msg |-> m, dropped |-> TRUE])
  /\ UNCHANGED <<queue, active, drain, host, item, closePc, accepted, started>>

EnqueuePush_NoReset(m) ==
  /\ callPc[m] = "new" /\ MayCall(m)
  /\ ~QueueFull
  /\ queue' = Append(queue, m)
  /\ active' = TRUE
  /\ callPc' = [callPc EXCEPT ![m] = IF active THEN "returned" ELSE "trySubmit"]
  /\ accepted' = Append(accepted, m)
  /\ verdicts' = Append(verdicts, [msg |-> m, dropped |-> FALSE])
  /\ UNCHANGED <<overflowing, dropCount, drain, host, item, signal, closePc,
                 started>>

\* Push the message; the caller that finds no active drain task creates one.
EnqueuePush(m) ==
  /\ callPc[m] = "new" /\ MayCall(m)
  /\ ~QueueFull
  /\ overflowing' = FALSE
  /\ dropCount' = IF overflowing THEN 0 ELSE dropCount
  /\ queue' = Append(queue, m)
  /\ active' = TRUE
  /\ callPc' = [callPc EXCEPT ![m] = IF active THEN "returned" ELSE "trySubmit"]
  /\ accepted' = Append(accepted, m)
  /\ verdicts' = Append(verdicts, [msg |-> m, dropped |-> FALSE])
  /\ UNCHANGED <<drain, host, item, signal, closePc, started>>

-----------------------------------------------------------------------------
(* Handing the drain task to the pool, or to a goroutine of its own *)

SubmitTask(m) ==
  /\ drain' = [drain EXCEPT ![m] = "queued"]
  /\ host' = [host EXCEPT ![m] = "pool"]
  /\ callPc' = [callPc EXCEPT ![m] = "returned"]
  /\ UNCHANGED <<seqVars, item, signal, closePc, histVars>>

CallTo(m, pc) ==
  /\ callPc' = [callPc EXCEPT ![m] = pc]
  /\ UNCHANGED <<seqVars, drain, host, item, signal, closePc, histVars>>

TrySubmitOk(m) == callPc[m] = "trySubmit" /\ ~PoolCancelled /\ SubmitTask(m)

\* The pool's queue is full, or its context is cancelled.
TrySubmitFails(m) == callPc[m] = "trySubmit" /\ CallTo(m, "submit")

\* Submit looks at the pool's context first, then blocks in a select on the
\* queue and the context; with both ready the select picks either.
SubmitChecksContext(m) ==
  /\ callPc[m] = "submit"
  /\ CallTo(m, IF PoolCancelled THEN "spawn" ELSE "submitSelect")

SubmitSends(m) == callPc[m] = "submitSelect" /\ SubmitTask(m)

SubmitCancelled(m) ==
  callPc[m] = "submitSelect" /\ PoolCancelled /\ CallTo(m, "spawn")

\* Fallback: the drain task runs on a goroutine counted by callbackWg.
SpawnDrain(m) ==
  /\ callPc[m] = "spawn"
  /\ callPc' = [callPc EXCEPT ![m] = "returned"]
  /\ drain' = [drain EXCEPT ![m] = "loop"]
  /\ host' = [host EXCEPT ![m] = "goroutine"]
  /\ UNCHANGED <<seqVars, item, signal, closePc, histVars>>

-----------------------------------------------------------------------------
(* The drain task d *)

DrainTo(d, pc) == drain' = [drain EXCEPT ![d] = pc]

WorkerTakesTask(d) ==
  /\ drain[d] = "queued"
  /\ DrainTo(d, "loop")
  /\ UNCHANGED <<seqVars, callPc, host, item, signal, closePc, histVars>>

DrainPops_ClearsActive(d) ==
  /\ drain[d] = "loop"
  /\ queue # <<>>
  /\ item' = [item EXCEPT ![d] = Head(queue)]
  /\ queue' = Tail(queue)
  /\ active' = (Len(queue) > 1)
  /\ DrainTo(d, "popped")
  /\ UNCHANGED <<overflowing, dropCount, callPc, host, signal, closePc,
                 histVars>>

\* One critical section: pop the front, or give up the active flag.
DrainPops(d) ==
  /\ drain[d] = "loop"
  /\ queue # <<>>
  /\ item' = [item EXCEPT ![d] = Head(queue)]
  /\ queue' = Tail(queue)
  /\ DrainTo(d, "popped")
  /\ UNCHANGED <<active, overflowing, dropCount, callPc, host, signal,
                 closePc, histVars>>

DrainEnds_KeepsActive(d) ==
  /\ drain[d] = "loop"
  /\ queue = <<>>
  /\ DrainTo(d, "done")
  /\ UNCHANGED <<seqVars, callPc, host, item, signal, closePc, histVars>>

DrainEnds(d) ==
  /\ drain[d] = "loop"
  /\ queue = <<>>
  /\ active' = FALSE
  /\ DrainTo(d, "done")
  /\ UNCHANGED <<queue, overflowing, dropCount, callPc, host, item, signal,
                 closePc, histVars>>

StartCallback(d) ==
  /\ drain[d] = "popped"
  /\ started' = Append(started, item[d])
  /\ DrainTo(d, "exec")
  /\ UNCHANGED <<seqVars, callPc, host, item, signal, closePc, accepted,
                 verdicts>>

AfterCallback_NoRecover(panicked) == IF panicked THEN "done" ELSE "loop"

\* executeCallback recovers the callback's panic: the drain loop goes on
\* whether the callback returned or panicked.
AfterCallback(panicked) == "loop"

FinishCallback(d) ==
  /\ drain[d] = "exec"
  /\ \E panicked \in BOOLEAN : DrainTo(d, AfterCallback(panicked))
  /\ UNCHANGED <<seqVars, callPc, host, item, signal, closePc, histVars>>

FinishSignal_NoDone(m) ==
  /\ signal[m] = "running"
  /\ UNCHANGED vars

\* The goroutine of an overflow signal returns from the callback.
FinishSignal(m) ==
  /\ signal[m] = "running"
  /\ signal' = [signal EXCEPT ![m] = "done"]
  /\ UNCHANGED <<seqVars, callPc, drain, host, item, closePc, histVars>>

-----------------------------------------------------------------------------
(* SubMux.Close: join the callers, stop the pool, wait on callbackWg *)

Running(d)      == drain[d] \in {"queued", "loop", "popped", "exec"}
InEnqueue(m)    == callPc[m] \notin {"new", "returned"}

\* A submitter inside Submit or TrySubmit holds submitMu for reading.
InSubmit(m)     == callPc[m] = "submitSelect"

\* wg.Wait of the pool: the queue is closed and drained, the workers are gone.
PoolDrained     == \A m \in Msg : ~InSubmit(m) /\ ~(Running(m) /\ host[m] = "pool")

\* Mutant: the signal goroutines are not counted.
CallbackWgZero_SignalsUncounted ==
  \A m \in Msg : ~(Running(m) /\ host[m] = "goroutine")

\* callbackWg is zero: no signal goroutine and no fallback drain.
CallbackWgZero == \A m \in Msg : /\ signal[m] # "running"
                                 /\ ~(Running(m) /\ host[m] = "goroutine")

CloseTo(pc) ==
  /\ closePc' = pc
  /\ UNCHANGED <<seqVars, callPc, drain, host, item, signal, histVars>>

CloseBegins == closePc = "open" /\ CloseTo("joining")

\* topologyMonitor.stop and closeAll have waited for the joined goroutines;
\* WorkerPool.Stop cancels the pool's context.
CloseStopsPool ==
  /\ closePc = "joining"
  /\ \A m \in Msg \ Detached : ~InEnqueue(m)
  /\ CloseTo("stopping")

CloseJoinsPool   == closePc = "stopping" /\ PoolDrained /\ CloseTo("waiting")

CloseWaits       == closePc = "waiting" /\ CallbackWgZero /\ CloseTo("closed")

-----------------------------------------------------------------------------

Enqueue(m) == EnqueueDrop(m) \/ EnqueuePush(m)

Handover(m) ==
  \/ TrySubmitOk(m) \/ TrySubmitFails(m) \/ SubmitChecksContext(m)
  \/ SubmitSends(m) \/ SubmitCancelled(m) \/ SpawnDrain(m)

DrainStep(d) ==
  \/ WorkerTakesTask(d) \/ DrainPops(d) \/ DrainEnds(d)
  \/ StartCallback(d) \/ FinishCallback(d)

Close == CloseBegins \/ CloseStopsPool \/ CloseJoinsPool \/ CloseWaits

Next ==
  \/ \E m \in Msg : Enqueue(m) \/ Handover(m) \/ FinishSignal(m)
  \/ \E d \in Msg : DrainStep(d)
  \/ Close

\* Goroutines in the middle of a call, workers and callbacks keep running;
\* nobody is obliged to offer another message or to call Close.
Fairness ==
  /\ \A m \in Msg : WF_vars(Handover(m)) /\ WF_vars(FinishSignal(m))
  /\ \A d \in Msg : WF_vars(DrainStep(d))
  /\ WF_vars(CloseStopsPool) /\ WF_vars(CloseJoinsPool) /\ WF_vars(CloseWaits)

Spec == Init /\ [][Next]_vars /\ Fairness
-----------------------------------------------------------------------------
(* Properties *)

\* The types, the bound of the queue (sequencer.go:45), and the agreement of
\* the two overflow fields: drops are counted exactly during an episode.
TypeOK ==
  /\ queue \in Seq(Msg)
  /\ MaxQueueSize > 0 => Len(queue) <= MaxQueueSize
  /\ active \in BOOLEAN
  /\ overflowing \in BOOLEAN
  /\ dropCount \in Nat
  /\ overflowing <=> dropCount > 0
  /\ callPc \in [Msg -> CallPcs]
  /\ drain \in [Msg -> DrainPcs]
  /\ host \in [Msg -> {"none", "pool", "goroutine"}]
  /\ item \in [Msg -> Msg]
  /\ signal \in [Msg -> {"none", "running", "done"}]
  /\ closePc \in ClosePcs
  /\ accepted \in Seq(Msg)
  /\ started \in Seq(Msg)
  /\ verdicts \in Seq([msg : Msg, dropped : BOOLEAN])

\* No two callbacks of the queue run at the same time, whatever goroutines
\* enqueue concurrently and wherever the drain task runs ("At most one drain
\* task runs per sequencer at any time", sequencer.go:12).
SequentialCallbacks ==
  \A d1, d2 \in Msg :
    drain[d1] \in {"popped", "exec"} /\ drain[d2] \in {"popped", "exec"} => d1 = d2

\* Callbacks start in the order in which enqueue took the lock, none is
\* skipped and none is started twice (callback.go:12-13).
FifoDelivery ==
  /\ Len(started) <= Len(accepted)
  /\ \A i \in 1..Len(started) : started[i] = accepted[i]

\* Whoever is responsible for the active flag: the call that set it and has
\* not handed the drain task over, or the drain task.
Owner(m) == InEnqueue(m) \/ Running(m)

\* The active flag is never left set without a drain task to clear it, and a
\* queued message always has a drain task coming (sequencer.go:96-101, 136-140).
NeverStranded ==
  /\ active <=> \E m \in Msg : Owner(m)
  /\ queue # <<>> => active

\* There is a drain task exactly while there is something to drain or to finish:
\* never two that overlap, never none (sequencer.go:96-101, 136-140).
OneDrainWhileNeeded == SequentialCallbacks /\ NeverStranded

\* One signal per overflow episode, sent by the call that opens it: a call
\* spawns the signal goroutine exactly when it drops its message and the call
\* that held the lock before it did not (sequencer.go:49-54, 90-93).
OneSignalPerEpisode ==
  \A k \in 1..Len(verdicts) :
    signal[verdicts[k].msg] # "none"
      <=> verdicts[k].dropped /\ (k > 1 => ~verdicts[k - 1].dropped)

\* No goroutine that Close does not join has called enqueue.
DetachedIdle == \A m \in Detached : callPc[m] = "new"

\* When Close returns every accepted message has been delivered and no
\* callback is running (submux.go:739-745, "Wait for any fallback callback
\* goroutines to complete"), as long as only goroutines it joins enqueue.
CloseWaitsForCallbacks ==
  closePc = "closed" /\ DetachedIdle =>
    /\ Len(started) = Len(accepted)
    /\ \A m \in Msg : drain[m] # "exec" /\ signal[m] # "running"

\* Every accepted message is eventually handed to the callback: nothing is
\* lost between the check of the active flag and its reset.
AcceptedIsStarted ==
  \A n \in 1..Cardinality(Msg) : Len(accepted) >= n ~> Len(started) >= n

\* Close returns: the pool's workers and the fallback goroutines all end.
CloseReturns == closePc = "joining" ~> closePc = "closed"
=============================================================================
