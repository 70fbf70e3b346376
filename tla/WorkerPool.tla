------------------------------ MODULE WorkerPool ------------------------------
(***************************************************************************)
(* The bounded worker pool (workerpool.go).  Each task is submitted once,  *)
(* by a goroutine named after it, with one of the three submit methods.    *)
(* sync.RWMutex is modelled by who holds it for reading and whether a      *)
(* writer has announced itself (new readers then wait); a Go channel by a  *)
(* bounded queue and a closed flag.                                        *)
(***************************************************************************)
EXTENDS Naturals, Sequences

CONSTANTS Tasks,       \* the tasks, and the goroutines that submit them
          Method,      \* the submit method used for each task
          Workers,     \* the worker goroutines
          QueueSize,   \* the capacity of taskQueue
          Stoppers,    \* the goroutines that call Stop
          NoTask       \* an idle worker's task

ASSUME PoolAssumption ==
  /\ Method \in [Tasks -> {"Submit", "SubmitWithContext", "TrySubmit"}]
  /\ QueueSize \in Nat \ {0}
  /\ Workers # {}
  /\ NoTask \notin Tasks

VARIABLES
  started, stopped,  \* the flags under mu
  cancelled,         \* wp.ctx is done
  taskQueue,         \* the buffered channel
  queueClosed,       \* taskQueue has been closed
  pc,                \* where the submit call of each task is
  result,            \* what it returned
  ctxDone,           \* the caller's own context is done (SubmitWithContext)
  current,           \* the task each worker executes, or NoTask
  worker,            \* whether each worker goroutine runs
  stopPc,            \* where each call of Stop is
  executed,          \* history: how often each task has been executed
  panicked           \* a send on the closed channel happened

poolVars   == <<started, stopped, cancelled>>
submitVars == <<pc, result, ctxDone>>
workVars   == <<current, worker, executed>>
vars == <<started, stopped, cancelled, taskQueue, queueClosed, pc, result,
          ctxDone, current, worker, stopPc, executed, panicked>>

Init ==
  /\ started = FALSE /\ stopped = FALSE /\ cancelled = FALSE
  /\ taskQueue = <<>>
  /\ queueClosed = FALSE
  /\ pc = [t \in Tasks |-> "new"]
  /\ result = [t \in Tasks |-> "none"]
  /\ ctxDone = [t \in Tasks |-> "no"]
  /\ current = [w \in Workers |-> NoTask]
  /\ worker = [w \in Workers |-> "off"]
  /\ stopPc = [s \in Stoppers |-> "new"]
  /\ executed = [t \in Tasks |-> 0]
  /\ panicked = FALSE

-----------------------------------------------------------------------------
(* Start *)

\* A second call finds started set and changes nothing.
Start ==
  /\ ~started
  /\ started' = TRUE
  /\ worker' = [w \in Workers |-> "on"]
  /\ UNCHANGED <<stopped, cancelled, taskQueue, queueClosed, submitVars, current,
                 stopPc, executed, panicked>>

-----------------------------------------------------------------------------
(* Submit, SubmitWithContext and TrySubmit *)

\* submitMu.RLock is held from here until the call returns.
HoldsRLock(t) == pc[t] \in {"check", "select"}

WriterWaiting == \E s \in Stoppers : stopPc[s] = "lock"

CallerDone(t) == Method[t] = "SubmitWithContext" /\ ctxDone[t] = "yes"

\* The deferred RUnlock is part of the return.
Return(t, r) ==
  /\ pc' = [pc EXCEPT ![t] = "returned"]
  /\ result' = [result EXCEPT ![t] = r]

SubmitLocks(t) ==
  /\ pc[t] = "new"
  /\ ~WriterWaiting
  /\ pc' = [pc EXCEPT ![t] = "check"]
  /\ UNCHANGED <<poolVars, taskQueue, queueClosed, result, ctxDone, workVars,
                 stopPc, panicked>>

\* The first select.
SubmitChecks(t) ==
  /\ pc[t] = "check"
  /\ IF cancelled \/ CallerDone(t)
       THEN Return(t, "false")
       ELSE pc' = [pc EXCEPT ![t] = "select"] /\ UNCHANGED result
  /\ UNCHANGED <<poolVars, taskQueue, queueClosed, ctxDone, workVars, stopPc,
                 panicked>>

SubmitSends_Unbounded(t) ==
  /\ pc[t] = "select"
  /\ IF queueClosed
       THEN /\ panicked' = TRUE
            /\ Return(t, "panic")
            /\ UNCHANGED taskQueue
       ELSE /\ taskQueue' = Append(taskQueue, t)
            /\ Return(t, "true")
            /\ UNCHANGED panicked
  /\ UNCHANGED <<poolVars, queueClosed, ctxDone, workVars, stopPc>>

SubmitSends_RechecksContext(t) ==
  /\ pc[t] = "select"
  /\ ~queueClosed /\ Len(taskQueue) < QueueSize
  /\ taskQueue' = Append(taskQueue, t)
  /\ Return(t, IF cancelled \/ CallerDone(t) THEN "false" ELSE "true")
  /\ UNCHANGED <<poolVars, queueClosed, ctxDone, workVars, stopPc, panicked>>

\* The send case of the second select; on a closed channel it panics.
SubmitSends(t) ==
  /\ pc[t] = "select"
  /\ queueClosed \/ Len(taskQueue) < QueueSize
  /\ IF queueClosed
       THEN /\ panicked' = TRUE
            /\ Return(t, "panic")
            /\ UNCHANGED taskQueue
       ELSE /\ taskQueue' = Append(taskQueue, t)
            /\ Return(t, "true")
            /\ UNCHANGED panicked
  /\ UNCHANGED <<poolVars, queueClosed, ctxDone, workVars, stopPc>>

\* The other cases: cancellation for the blocking methods, default for
\* TrySubmit when the queue has no room.
SubmitGivesUp(t) ==
  /\ pc[t] = "select"
  /\ IF Method[t] = "TrySubmit"
       THEN ~queueClosed /\ Len(taskQueue) >= QueueSize
       ELSE cancelled \/ CallerDone(t)
  /\ Return(t, "false")
  /\ UNCHANGED <<poolVars, taskQueue, queueClosed, ctxDone, workVars, stopPc,
                 panicked>>

\* The caller's context expires or is cancelled at any time.
CallerCancels(t) ==
  /\ Method[t] = "SubmitWithContext" /\ ctxDone[t] = "no"
  /\ ctxDone' = [ctxDone EXCEPT ![t] = "yes"]
  /\ UNCHANGED <<poolVars, taskQueue, queueClosed, pc, result, workVars, stopPc,
                 panicked>>

-----------------------------------------------------------------------------
(* The worker loop *)

WorkerTakes(w) ==
  /\ worker[w] = "on" /\ current[w] = NoTask
  /\ taskQueue # <<>>
  /\ current' = [current EXCEPT ![w] = Head(taskQueue)]
  /\ taskQueue' = Tail(taskQueue)
  /\ UNCHANGED <<poolVars, queueClosed, submitVars, worker, stopPc, executed,
                 panicked>>

WorkerFinishes(w) ==
  /\ current[w] # NoTask
  /\ executed' = [executed EXCEPT ![current[w]] = @ + 1]
  /\ current' = [current EXCEPT ![w] = NoTask]
  /\ UNCHANGED <<poolVars, taskQueue, queueClosed, submitVars, worker, stopPc,
                 panicked>>

\* The range loop ends on a closed channel only when the buffer is empty.
WorkerExits_OnClose(w) ==
  /\ worker[w] = "on" /\ current[w] = NoTask
  /\ queueClosed
  /\ worker' = [worker EXCEPT ![w] = "off"]
  /\ UNCHANGED <<poolVars, taskQueue, queueClosed, submitVars, current, stopPc,
                 executed, panicked>>

WorkerExits(w) ==
  /\ worker[w] = "on" /\ current[w] = NoTask
  /\ queueClosed /\ taskQueue = <<>>
  /\ worker' = [worker EXCEPT ![w] = "off"]
  /\ UNCHANGED <<poolVars, taskQueue, queueClosed, submitVars, current, stopPc,
                 executed, panicked>>

-----------------------------------------------------------------------------
(* Stop *)

StopTo(s, p) == stopPc' = [stopPc EXCEPT ![s] = p]

\* One critical section of mu.
StopChecks(s) ==
  /\ stopPc[s] = "new"
  /\ IF ~started \/ stopped
       THEN StopTo(s, "ignored") /\ UNCHANGED stopped
       ELSE StopTo(s, "cancel") /\ stopped' = TRUE
  /\ UNCHANGED <<started, cancelled, taskQueue, queueClosed, submitVars, workVars,
                 panicked>>

\* cancel(), then submitMu.Lock announces the writer.
StopCancels(s) ==
  /\ stopPc[s] = "cancel"
  /\ cancelled' = TRUE
  /\ StopTo(s, "lock")
  /\ UNCHANGED <<started, stopped, taskQueue, queueClosed, submitVars, workVars,
                 panicked>>

StopCloses_NoLock(s) ==
  /\ stopPc[s] = "lock"
  /\ queueClosed' = TRUE
  /\ StopTo(s, "wait")
  /\ UNCHANGED <<poolVars, taskQueue, submitVars, workVars, panicked>>

StopCloses_LeavesOpen(s) ==
  /\ stopPc[s] = "lock"
  /\ \A t \in Tasks : ~HoldsRLock(t)
  /\ StopTo(s, "wait")
  /\ UNCHANGED <<poolVars, taskQueue, queueClosed, submitVars, workVars, panicked>>

\* The exclusive lock is granted, the channel is closed, the lock released.
StopCloses(s) ==
  /\ stopPc[s] = "lock"
  /\ \A t \in Tasks : ~HoldsRLock(t)
  /\ queueClosed' = TRUE
  /\ StopTo(s, "wait")
  /\ UNCHANGED <<poolVars, taskQueue, submitVars, workVars, panicked>>

\* wg.Wait.
StopReturns(s) ==
  /\ stopPc[s] = "wait"
  /\ \A w \in Workers : worker[w] = "off"
  /\ StopTo(s, "returned")
  /\ UNCHANGED <<poolVars, taskQueue, queueClosed, submitVars, workVars, panicked>>

-----------------------------------------------------------------------------

SubmitStep(t) == SubmitLocks(t) \/ SubmitChecks(t) \/ SubmitSends(t) \/ SubmitGivesUp(t)
WorkerStep(w) == WorkerTakes(w) \/ WorkerFinishes(w) \/ WorkerExits(w)
StopStep(s)   == StopChecks(s) \/ StopCancels(s) \/ StopCloses(s) \/ StopReturns(s)

Next ==
  \/ Start
  \/ \E t \in Tasks : SubmitStep(t) \/ CallerCancels(t)
  \/ \E w \in Workers : WorkerStep(w)
  \/ \E s \in Stoppers : StopStep(s)

\* New starts the pool; a submit call in progress, a worker and a Stop in
\* progress keep running, and tasks end.  Nobody has to submit or to stop.
Fairness ==
  /\ WF_vars(Start)
  /\ \A t \in Tasks : WF_vars(pc[t] # "new" /\ SubmitStep(t))
  /\ \A w \in Workers : WF_vars(WorkerStep(w))
  /\ \A s \in Stoppers : WF_vars(stopPc[s] # "new" /\ StopStep(s))

Spec == Init /\ [][Next]_vars /\ Fairness

-----------------------------------------------------------------------------
(* Properties *)

\* The types of the fields and of the calls in progress; taskQueue never holds
\* more than its capacity (workerpool.go:57).
TypeOK ==
  /\ started \in BOOLEAN /\ stopped \in BOOLEAN /\ cancelled \in BOOLEAN
  /\ taskQueue \in Seq(Tasks) /\ Len(taskQueue) <= QueueSize
  /\ queueClosed \in BOOLEAN
  /\ pc \in [Tasks -> {"new", "check", "select", "returned"}]
  /\ result \in [Tasks -> {"none", "true", "false", "panic"}]
  /\ ctxDone \in [Tasks -> {"no", "yes"}]
  /\ current \in [Workers -> Tasks \cup {NoTask}]
  /\ worker \in [Workers -> {"off", "on"}]
  /\ stopPc \in [Stoppers -> {"new", "ignored", "cancel", "lock", "wait", "returned"}]
  /\ executed \in [Tasks -> Nat]
  /\ panicked \in BOOLEAN

\* No submit ever sends on the channel Stop has closed (workerpool.go:170-175).
NoSendOnClosedChannel == ~panicked

\* A task whose submit returned false is never executed: enqueue runs the same
\* drain function on a goroutine of its own in that case (sequencer.go:110-126),
\* and two drains would break the ordering.  No task is executed twice.
RejectedNeverRuns ==
  \A t \in Tasks : executed[t] <= IF result[t] = "true" THEN 1 ELSE 0

\* When the Stop that stopped the pool returns, every task accepted before has
\* been executed ("Tasks still in the queue will be processed before workers
\* exit", workerpool.go:155).
StopDrainsQueue ==
  \A s \in Stoppers : stopPc[s] = "returned" =>
    \A t \in Tasks : result[t] = "true" => executed[t] = 1

\* Every task is executed as often as its submit said: not at all if it was
\* rejected, and once, before Stop returns, if it was accepted.
TasksRunAsPromised == RejectedNeverRuns /\ StopDrainsQueue

\* Stop returns: cancelling first unblocks the submitters it waits for.
StopTerminates ==
  \A s \in Stoppers : stopPc[s] = "cancel" ~> stopPc[s] = "returned"

\* A submit call returns even if the queue is full when the pool is stopped.
SubmitTerminates ==
  \A t \in Tasks : pc[t] = "check" ~> pc[t] = "returned"

\* Neither Stop nor a submit is stuck, although each may hold what the other waits
\* for (submitMu, room in the queue; workerpool.go:92-108, 166-178).
CallsTerminate == StopTerminates /\ SubmitTerminates

(* The pool implements the task service. *)

Status(t) ==
  IF executed[t] > 0 THEN "done"
  ELSE IF \E w \in Workers : current[w] = t THEN "running"
  ELSE IF result[t] = "true" THEN "accepted"
  ELSE IF result[t] = "false" THEN "rejected"
  ELSE "new"

Service == INSTANCE TaskService WITH
             status <- [t \in Tasks |-> Status(t)],
             down   <- \E s \in Stoppers : stopPc[s] = "returned"

\* Every behaviour of the pool is one of the task service: accepted tasks run
\* exactly once, rejected ones never, and none is left when Stop returns.
ImplementsService == Service!Spec
=============================================================================
