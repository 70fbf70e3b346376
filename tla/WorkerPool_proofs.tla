--------------------------- MODULE WorkerPool_proofs ---------------------------
(***************************************************************************)
(* The worker pool keeps its promises for any number of tasks, workers and *)
(* calls of Stop and any capacity, and implements the task service.        *)
(***************************************************************************)
EXTENDS WorkerPool, TLAPS

-----------------------------------------------------------------------------
(* The inductive invariant *)

\* Where Stop is, what it has done already.  Only one call gets past mu.
StopInv ==
  /\ \A s \in Stoppers : stopPc[s] \notin {"new", "ignored"} => started /\ stopped
  /\ \A r, s \in Stoppers :
       stopPc[r] \notin {"new", "ignored"} /\ stopPc[s] \notin {"new", "ignored"} => r = s
  /\ \A s \in Stoppers : stopPc[s] \in {"lock", "wait", "returned"} => cancelled
  /\ \A s \in Stoppers : stopPc[s] \in {"wait", "returned"} => queueClosed
  /\ \A s \in Stoppers : stopPc[s] = "returned" => \A w \in Workers : worker[w] = "off"

\* Once the channel is closed no submit is between its check and its send, and
\* none gets there, because the context was cancelled first.
CloseInv ==
  /\ queueClosed => cancelled /\ started /\ \A t \in Tasks : pc[t] # "select"
  /\ ~panicked

\* A worker that is gone left nothing behind.
WorkerInv ==
  /\ \A w \in Workers : worker[w] = "off" => current[w] = NoTask
  /\ started => \A w \in Workers : worker[w] = "off" => queueClosed /\ taskQueue = <<>>

\* A task that has not left the pool: queued or being executed.
InQueue(t)   == \E i \in 1..Len(taskQueue) : taskQueue[i] = t
Executing(t) == \E w \in Workers : current[w] = t

\* A task is in at most one place, at most once, and accepted if anywhere.
PlaceInv ==
  /\ \A i, j \in 1..Len(taskQueue) : taskQueue[i] = taskQueue[j] => i = j
  /\ \A v, w \in Workers : current[v] = current[w] /\ current[w] # NoTask => v = w
  /\ \A t \in Tasks : InQueue(t) => ~Executing(t)
  /\ \A t \in Tasks : InQueue(t) \/ Executing(t) => result[t] = "true" /\ executed[t] = 0
  /\ \A t \in Tasks : result[t] = "true" => InQueue(t) \/ Executing(t) \/ executed[t] = 1
  /\ \A t \in Tasks : result[t] # "true" => executed[t] = 0
  /\ \A t \in Tasks : pc[t] # "returned" => result[t] = "none"
  /\ \A t \in Tasks : executed[t] \in {0, 1}

IInv == TypeOK /\ StopInv /\ CloseInv /\ WorkerInv /\ PlaceInv

-----------------------------------------------------------------------------

LEMMA TypeStep == TypeOK /\ [Next]_vars => TypeOK'
<1> SUFFICES ASSUME TypeOK, [Next]_vars PROVE TypeOK'
    OBVIOUS
<1> USE PoolAssumption DEF TypeOK, poolVars, submitVars, workVars
<1>1. CASE Start
      BY <1>1 DEF Start
<1>2. ASSUME NEW t \in Tasks, SubmitStep(t) PROVE TypeOK'
  <2>1. CASE SubmitLocks(t)
        BY <2>1 DEF SubmitLocks
  <2>2. CASE SubmitChecks(t)
        BY <2>2 DEF SubmitChecks, Return
  <2>3. CASE SubmitSends(t)
    <3>1. pc' \in [Tasks -> {"new", "check", "select", "returned"}]
          /\ result' \in [Tasks -> {"none", "true", "false", "panic"}]
          BY <2>3 DEF SubmitSends, Return
    <3>2. taskQueue' \in Seq(Tasks) /\ Len(taskQueue') <= QueueSize
      <4>1. CASE queueClosed
            BY <2>3, <4>1 DEF SubmitSends
      <4>2. CASE ~queueClosed
        <5>1. taskQueue' = Append(taskQueue, t) /\ Len(taskQueue) < QueueSize
              BY <2>3, <4>2 DEF SubmitSends
        <5> QED BY <5>1
      <4> QED BY <4>1, <4>2
    <3>3. panicked' \in BOOLEAN
          BY <2>3 DEF SubmitSends
    <3> QED BY <2>3, <3>1, <3>2, <3>3 DEF SubmitSends
  <2>4. CASE SubmitGivesUp(t)
        BY <2>4 DEF SubmitGivesUp, Return
  <2> QED BY <1>2, <2>1, <2>2, <2>3, <2>4 DEF SubmitStep
<1>3. ASSUME NEW t \in Tasks, CallerCancels(t) PROVE TypeOK'
      BY <1>3 DEF CallerCancels
<1>4. ASSUME NEW w \in Workers, WorkerStep(w) PROVE TypeOK'
  <2>1. CASE WorkerTakes(w)
        BY <2>1 DEF WorkerTakes
  <2>2. CASE WorkerFinishes(w)
        BY <2>2 DEF WorkerFinishes
  <2>3. CASE WorkerExits(w)
        BY <2>3 DEF WorkerExits
  <2> QED BY <1>4, <2>1, <2>2, <2>3 DEF WorkerStep
<1>5. ASSUME NEW s \in Stoppers, StopStep(s) PROVE TypeOK'
  <2>1. CASE StopChecks(s)
        BY <2>1 DEF StopChecks, StopTo
  <2>2. CASE StopCancels(s)
        BY <2>2 DEF StopCancels, StopTo
  <2>3. CASE StopCloses(s)
        BY <2>3 DEF StopCloses, StopTo
  <2>4. CASE StopReturns(s)
        BY <2>4 DEF StopReturns, StopTo
  <2> QED BY <1>5, <2>1, <2>2, <2>3, <2>4 DEF StopStep
<1>6. CASE UNCHANGED vars
      BY <1>6 DEF vars
<1> QED BY <1>1, <1>2, <1>3, <1>4, <1>5, <1>6 DEF Next

LEMMA StopStepInv == TypeOK /\ StopInv /\ WorkerInv /\ [Next]_vars => StopInv'
<1> SUFFICES ASSUME TypeOK, StopInv, WorkerInv, [Next]_vars PROVE StopInv'
    OBVIOUS
<1> USE DEF StopInv, poolVars, submitVars, workVars
<1>0. stopPc \in [Stoppers -> {"new", "ignored", "cancel", "lock", "wait", "returned"}]
      /\ worker \in [Workers -> {"off", "on"}]
      BY DEF TypeOK
<1>1. CASE Start
      BY <1>0, <1>1 DEF Start
<1>2. ASSUME NEW t \in Tasks, SubmitStep(t) \/ CallerCancels(t) PROVE StopInv'
      BY <1>2 DEF SubmitStep, SubmitLocks, SubmitChecks, SubmitSends, SubmitGivesUp,
         CallerCancels
<1>3. ASSUME NEW w \in Workers, WorkerStep(w) PROVE StopInv'
      BY <1>0, <1>3 DEF WorkerStep, WorkerTakes, WorkerFinishes, WorkerExits
<1>4. ASSUME NEW s \in Stoppers, StopStep(s) PROVE StopInv'
  <2>1. CASE StopChecks(s)
        BY <1>0, <2>1 DEF StopChecks, StopTo
  <2>2. CASE StopCancels(s)
        BY <1>0, <2>2 DEF StopCancels, StopTo
  <2>3. CASE StopCloses(s)
        BY <1>0, <2>3 DEF StopCloses, StopTo
  <2>4. CASE StopReturns(s)
        BY <1>0, <2>4 DEF StopReturns, StopTo
  <2> QED BY <1>4, <2>1, <2>2, <2>3, <2>4 DEF StopStep
<1>5. CASE UNCHANGED vars
      BY <1>5 DEF vars
<1> QED BY <1>1, <1>2, <1>3, <1>4, <1>5 DEF Next

LEMMA CloseStepInv == TypeOK /\ StopInv /\ CloseInv /\ [Next]_vars => CloseInv'
<1> SUFFICES ASSUME TypeOK, StopInv, CloseInv, [Next]_vars PROVE CloseInv'
    OBVIOUS
<1> USE DEF CloseInv, poolVars, submitVars, workVars
<1>0. pc \in [Tasks -> {"new", "check", "select", "returned"}]
      BY DEF TypeOK
<1>1. CASE Start
      BY <1>1 DEF Start
<1>2. ASSUME NEW t \in Tasks, SubmitStep(t) PROVE CloseInv'
      BY <1>0, <1>2 DEF SubmitStep, SubmitLocks, SubmitChecks, SubmitSends,
         SubmitGivesUp, Return
<1>3. ASSUME NEW t \in Tasks, CallerCancels(t) PROVE CloseInv'
      BY <1>3 DEF CallerCancels
<1>4. ASSUME NEW w \in Workers, WorkerStep(w) PROVE CloseInv'
      BY <1>4 DEF WorkerStep, WorkerTakes, WorkerFinishes, WorkerExits
<1>5. ASSUME NEW s \in Stoppers, StopStep(s) PROVE CloseInv'
  <2>1. CASE StopCloses(s)
        BY <2>1 DEF StopCloses, HoldsRLock, StopInv
  <2>2. CASE StopChecks(s) \/ StopCancels(s) \/ StopReturns(s)
        BY <2>2 DEF StopChecks, StopCancels, StopReturns
  <2> QED BY <1>5, <2>1, <2>2 DEF StopStep
<1>6. CASE UNCHANGED vars
      BY <1>6 DEF vars
<1> QED BY <1>1, <1>2, <1>3, <1>4, <1>5, <1>6 DEF Next

LEMMA WorkerStepInv == TypeOK /\ CloseInv /\ WorkerInv /\ [Next]_vars => WorkerInv'
<1> SUFFICES ASSUME TypeOK, CloseInv, WorkerInv, [Next]_vars PROVE WorkerInv'
    OBVIOUS
<1> USE DEF WorkerInv, poolVars, submitVars, workVars
<1>0. /\ worker \in [Workers -> {"off", "on"}]
      /\ current \in [Workers -> Tasks \cup {NoTask}]
      /\ taskQueue \in Seq(Tasks)
      BY DEF TypeOK
<1>1. CASE Start
      BY <1>1 DEF Start
<1>2. ASSUME NEW t \in Tasks, SubmitSends(t) PROVE WorkerInv'
      BY <1>2 DEF SubmitSends, CloseInv
<1>3. ASSUME NEW t \in Tasks, SubmitLocks(t) \/ SubmitChecks(t) \/ SubmitGivesUp(t)
                                \/ CallerCancels(t)
      PROVE  WorkerInv'
      BY <1>3 DEF SubmitLocks, SubmitChecks, SubmitGivesUp, CallerCancels
<1>4. ASSUME NEW w \in Workers, WorkerStep(w) PROVE WorkerInv'
  <2>1. CASE WorkerTakes(w)
        BY <1>0, <2>1 DEF WorkerTakes
  <2>2. CASE WorkerFinishes(w)
        BY <1>0, <2>2 DEF WorkerFinishes
  <2>3. CASE WorkerExits(w)
        BY <1>0, <2>3 DEF WorkerExits
  <2> QED BY <1>4, <2>1, <2>2, <2>3 DEF WorkerStep
<1>5. ASSUME NEW s \in Stoppers, StopStep(s) PROVE WorkerInv'
      BY <1>5 DEF StopStep, StopChecks, StopCancels, StopCloses, StopReturns
<1>6. CASE UNCHANGED vars
      BY <1>6 DEF vars
<1> QED BY <1>1, <1>2, <1>3, <1>4, <1>5, <1>6 DEF Next, SubmitStep

-----------------------------------------------------------------------------
(* A task is in one place at a time *)

\* Sending appends to the queue.
LEMMA SendInQueue ==
  ASSUME taskQueue \in Seq(Tasks), NEW t \in Tasks,
         taskQueue' = Append(taskQueue, t), ~InQueue(t),
         \A i, j \in 1..Len(taskQueue) : taskQueue[i] = taskQueue[j] => i = j
  PROVE  /\ \A x \in Tasks : InQueue(x)' <=> InQueue(x) \/ x = t
         /\ \A i, j \in 1..Len(taskQueue') : taskQueue'[i] = taskQueue'[j] => i = j
<1>1. /\ Len(taskQueue) \in Nat /\ Len(taskQueue') = Len(taskQueue) + 1
      /\ \A i \in 1..Len(taskQueue) : taskQueue'[i] = taskQueue[i]
      /\ taskQueue'[Len(taskQueue) + 1] = t
      OBVIOUS
<1>2. \A i \in 1..Len(taskQueue) : taskQueue[i] # t
      BY DEF InQueue
<1> QED BY <1>1, <1>2 DEF InQueue

\* Receiving removes the front, which then is nowhere else in the queue.
LEMMA ReceiveInQueue ==
  ASSUME taskQueue \in Seq(Tasks), taskQueue # <<>>, taskQueue' = Tail(taskQueue),
         \A i, j \in 1..Len(taskQueue) : taskQueue[i] = taskQueue[j] => i = j
  PROVE  /\ Head(taskQueue) \in Tasks /\ InQueue(Head(taskQueue))
         /\ \A x \in Tasks : InQueue(x)' <=> InQueue(x) /\ x # Head(taskQueue)
         /\ \A i, j \in 1..Len(taskQueue') : taskQueue'[i] = taskQueue'[j] => i = j
<1>1. /\ Len(taskQueue) \in Nat \ {0} /\ Len(taskQueue') = Len(taskQueue) - 1
      /\ \A i \in 1..Len(taskQueue') : i + 1 \in 1..Len(taskQueue)
      /\ \A i \in 1..Len(taskQueue') : taskQueue'[i] = taskQueue[i + 1]
      /\ Head(taskQueue) = taskQueue[1] /\ Head(taskQueue) \in Tasks
      OBVIOUS
<1>2. InQueue(Head(taskQueue))
      BY <1>1 DEF InQueue
<1>3. ASSUME NEW x \in Tasks, InQueue(x)' PROVE InQueue(x) /\ x # Head(taskQueue)
  <2>1. PICK i \in 1..Len(taskQueue') : taskQueue'[i] = x
        BY <1>3 DEF InQueue
  <2>2. i + 1 \in 1..Len(taskQueue) /\ taskQueue[i + 1] = x /\ i + 1 # 1
        BY <1>1, <2>1
  <2> QED BY <1>1, <2>2 DEF InQueue
<1>4. ASSUME NEW x \in Tasks, InQueue(x), x # Head(taskQueue) PROVE InQueue(x)'
  <2>1. PICK i \in 1..Len(taskQueue) : taskQueue[i] = x
        BY <1>4 DEF InQueue
  <2>2. i # 1 /\ i - 1 \in 1..Len(taskQueue') /\ (i - 1) + 1 = i
        BY <1>1, <1>4, <2>1
  <2>3. taskQueue'[i - 1] = x
        BY <1>1, <2>1, <2>2
  <2> QED BY <2>2, <2>3 DEF InQueue
<1>5. ASSUME NEW i \in 1..Len(taskQueue'), NEW j \in 1..Len(taskQueue'),
             taskQueue'[i] = taskQueue'[j]
      PROVE  i = j
  <2>1. i + 1 = j + 1
        BY <1>1, <1>5
  <2> QED BY <2>1
<1> QED BY <1>1, <1>2, <1>3, <1>4, <1>5

LEMMA PlaceStepInv == TypeOK /\ CloseInv /\ PlaceInv /\ [Next]_vars => PlaceInv'
<1> SUFFICES ASSUME TypeOK, CloseInv, PlaceInv, [Next]_vars PROVE PlaceInv'
    OBVIOUS
<1> USE PoolAssumption DEF poolVars, submitVars, workVars
<1>0. /\ taskQueue \in Seq(Tasks)
      /\ pc \in [Tasks -> {"new", "check", "select", "returned"}]
      /\ result \in [Tasks -> {"none", "true", "false", "panic"}]
      /\ current \in [Workers -> Tasks \cup {NoTask}]
      /\ executed \in [Tasks -> Nat]
      BY DEF TypeOK
<1>1. CASE UNCHANGED <<taskQueue, current, executed, pc, result>>
      BY <1>1 DEF PlaceInv, InQueue, Executing
<1>2. ASSUME NEW t \in Tasks, SubmitSends(t) PROVE PlaceInv'
  <2>1. /\ pc[t] = "select" /\ ~queueClosed
        BY <1>2 DEF SubmitSends, CloseInv
  <2>2. /\ taskQueue' = Append(taskQueue, t)
        /\ pc' = [pc EXCEPT ![t] = "returned"]
        /\ result' = [result EXCEPT ![t] = "true"]
        /\ current' = current /\ executed' = executed
        BY <1>2, <2>1 DEF SubmitSends, Return
  <2>3. result[t] = "none" /\ ~InQueue(t) /\ ~Executing(t) /\ executed[t] = 0
        BY <2>1 DEF PlaceInv
  <2>4. /\ \A x \in Tasks : InQueue(x)' <=> InQueue(x) \/ x = t
        /\ \A i, j \in 1..Len(taskQueue') : taskQueue'[i] = taskQueue'[j] => i = j
        BY <1>0, <2>2, <2>3, SendInQueue DEF PlaceInv
  <2>5. \A x \in Tasks : Executing(x)' <=> Executing(x)
        BY <2>2 DEF Executing
  <2> QED BY <1>0, <2>2, <2>3, <2>4, <2>5 DEF PlaceInv
<1>3. ASSUME NEW t \in Tasks, SubmitLocks(t) \/ SubmitChecks(t) \/ SubmitGivesUp(t)
      PROVE  PlaceInv'
  <2>1. UNCHANGED <<taskQueue, current, executed>> /\ pc[t] # "returned"
        BY <1>3 DEF SubmitLocks, SubmitChecks, SubmitGivesUp
  <2>2. \/ \E p \in {"check", "select"} :
              pc' = [pc EXCEPT ![t] = p] /\ result' = result
        \/ /\ pc' = [pc EXCEPT ![t] = "returned"]
           /\ result' = [result EXCEPT ![t] = "false"]
        BY <1>3 DEF SubmitLocks, SubmitChecks, SubmitGivesUp, Return
  <2>3. result[t] = "none"
        BY <2>1 DEF PlaceInv
  <2>4. \A x \in Tasks : (InQueue(x)' <=> InQueue(x)) /\ (Executing(x)' <=> Executing(x))
        BY <2>1 DEF InQueue, Executing
  <2> QED BY <1>0, <2>1, <2>2, <2>3, <2>4 DEF PlaceInv
<1>4. ASSUME NEW w \in Workers, WorkerTakes(w) PROVE PlaceInv'
  <2>1. /\ current[w] = NoTask /\ taskQueue # <<>> /\ taskQueue' = Tail(taskQueue)
        /\ current' = [current EXCEPT ![w] = Head(taskQueue)]
        /\ UNCHANGED <<executed, pc, result>>
        BY <1>4 DEF WorkerTakes
  <2>2. /\ Head(taskQueue) \in Tasks /\ InQueue(Head(taskQueue))
        /\ \A x \in Tasks : InQueue(x)' <=> InQueue(x) /\ x # Head(taskQueue)
        /\ \A i, j \in 1..Len(taskQueue') : taskQueue'[i] = taskQueue'[j] => i = j
        BY <1>0, <2>1, ReceiveInQueue DEF PlaceInv
  <2>3. \A x \in Tasks : Executing(x)' <=> Executing(x) \/ x = Head(taskQueue)
        BY <1>0, <2>1, <2>2 DEF Executing
  <2>4. \A v \in Workers : current[v] # Head(taskQueue)
        BY <2>2 DEF PlaceInv, Executing
  <2>5. \A u, v \in Workers : current'[u] = current'[v] /\ current'[v] # NoTask => u = v
        BY <1>0, <2>1, <2>4 DEF PlaceInv
  <2> QED BY <2>1, <2>2, <2>3, <2>5 DEF PlaceInv
<1>5. ASSUME NEW w \in Workers, WorkerFinishes(w) PROVE PlaceInv'
  <2>1. PICK t \in Tasks : t = current[w]
        BY <1>0, <1>5 DEF WorkerFinishes
  <2>2. /\ current' = [current EXCEPT ![w] = NoTask]
        /\ executed' = [executed EXCEPT ![t] = executed[t] + 1]
        /\ UNCHANGED <<taskQueue, pc, result>>
        BY <1>5, <2>1 DEF WorkerFinishes
  <2>3. Executing(t) /\ ~InQueue(t) /\ result[t] = "true" /\ executed[t] = 0
        BY <2>1 DEF PlaceInv, Executing
  <2>4. \A x \in Tasks : Executing(x)' <=> Executing(x) /\ x # t
    <3>1. \A v \in Workers : current[v] = t => v = w
          BY <2>1 DEF PlaceInv
    <3> QED BY <1>0, <2>1, <2>2, <3>1 DEF Executing
  <2>5. \A x \in Tasks : InQueue(x)' <=> InQueue(x)
        BY <2>2 DEF InQueue
  <2>6. \A u, v \in Workers : current'[u] = current'[v] /\ current'[v] # NoTask => u = v
        BY <1>0, <2>2 DEF PlaceInv
  <2>7. executed'[t] = 1 /\ \A x \in Tasks \ {t} : executed'[x] = executed[x]
        BY <1>0, <2>2, <2>3
  <2> QED BY <2>2, <2>3, <2>4, <2>5, <2>6, <2>7 DEF PlaceInv
<1>6. CASE Start \/ (\E t \in Tasks : CallerCancels(t))
                \/ (\E w \in Workers : WorkerExits(w))
                \/ (\E s \in Stoppers : StopStep(s)) \/ UNCHANGED vars
      BY <1>1, <1>6 DEF Start, CallerCancels, WorkerExits, StopStep, StopChecks,
         StopCancels, StopCloses, StopReturns, vars
<1> QED BY <1>2, <1>3, <1>4, <1>5, <1>6 DEF Next, SubmitStep, WorkerStep

-----------------------------------------------------------------------------
(* The theorems *)

\* The inductive invariant holds in every reachable state.
THEOREM Invariance == Spec => []IInv
<1>1. Init => IInv
  <2> SUFFICES ASSUME Init PROVE IInv
      OBVIOUS
  <2>1. TypeOK
    <3>1. /\ started \in BOOLEAN /\ stopped \in BOOLEAN /\ cancelled \in BOOLEAN
          /\ queueClosed \in BOOLEAN /\ panicked \in BOOLEAN
          BY DEF Init
    <3>2. taskQueue \in Seq(Tasks) /\ Len(taskQueue) <= QueueSize
          BY PoolAssumption DEF Init
    <3>3. /\ pc \in [Tasks -> {"new", "check", "select", "returned"}]
          /\ result \in [Tasks -> {"none", "true", "false", "panic"}]
          /\ ctxDone \in [Tasks -> {"no", "yes"}]
          /\ current \in [Workers -> Tasks \cup {NoTask}]
          /\ worker \in [Workers -> {"off", "on"}]
          /\ stopPc \in [Stoppers -> {"new", "ignored", "cancel", "lock", "wait", "returned"}]
          /\ executed \in [Tasks -> Nat]
          BY DEF Init
    <3> QED BY <3>1, <3>2, <3>3 DEF TypeOK
  <2>2. StopInv /\ CloseInv /\ WorkerInv
        BY DEF Init, StopInv, CloseInv, WorkerInv
  <2>3. \A t \in Tasks : ~InQueue(t) /\ ~Executing(t)
    <3>1. Len(taskQueue) = 0 /\ \A w \in Workers : current[w] = NoTask
          BY DEF Init
    <3> QED BY <3>1, PoolAssumption DEF InQueue, Executing
  <2>4. PlaceInv
    <3>1. \A i, j \in 1..Len(taskQueue) : taskQueue[i] = taskQueue[j] => i = j
          BY DEF Init
    <3>2. \A v, w \in Workers : current[v] = current[w] /\ current[w] # NoTask => v = w
          BY DEF Init
    <3>3. \A t \in Tasks : executed[t] = 0 /\ result[t] = "none"
          BY DEF Init
    <3> QED BY <2>3, <3>1, <3>2, <3>3 DEF PlaceInv
  <2> QED BY <2>1, <2>2, <2>4 DEF IInv
<1>2. IInv /\ [Next]_vars => IInv'
      BY TypeStep, StopStepInv, CloseStepInv, WorkerStepInv, PlaceStepInv DEF IInv
<1> QED BY <1>1, <1>2, PTL DEF Spec

\* The pool's variables keep their types and the queue its capacity.
THEOREM TypeCorrect == Spec => []TypeOK
<1>1. IInv => TypeOK
      BY DEF IInv
<1> QED BY <1>1, Invariance, PTL

\* Whatever the interleaving of Submit, SubmitWithContext, TrySubmit and Stop,
\* nothing is sent on the closed channel.
THEOREM NoSendAfterClose == Spec => []NoSendOnClosedChannel
<1>1. IInv => NoSendOnClosedChannel
      BY DEF IInv, CloseInv, NoSendOnClosedChannel
<1> QED BY <1>1, Invariance, PTL

\* A rejected task never runs and no task runs twice.
THEOREM RejectedTasksNeverRun == Spec => []RejectedNeverRuns
<1>1. IInv => RejectedNeverRuns
  <2> SUFFICES ASSUME IInv, NEW t \in Tasks
               PROVE  executed[t] <= IF result[t] = "true" THEN 1 ELSE 0
      BY DEF RejectedNeverRuns
  <2>1. executed[t] \in {0, 1} /\ (result[t] # "true" => executed[t] = 0)
        BY DEF IInv, PlaceInv
  <2> QED BY <2>1
<1> QED BY <1>1, Invariance, PTL

\* When Stop returns, every accepted task has been executed.
THEOREM StopDrains == Spec => []StopDrainsQueue
<1>1. IInv => StopDrainsQueue
  <2> SUFFICES ASSUME IInv, NEW s \in Stoppers, stopPc[s] = "returned",
                      NEW t \in Tasks, result[t] = "true"
               PROVE  executed[t] = 1
      BY DEF StopDrainsQueue
  <2>1. started /\ \A w \in Workers : worker[w] = "off" /\ current[w] = NoTask
        BY DEF IInv, StopInv, WorkerInv
  <2>2. taskQueue = <<>>
        BY <2>1, PoolAssumption DEF IInv, WorkerInv
  <2>3. ~InQueue(t) /\ ~Executing(t)
        BY <2>1, <2>2, PoolAssumption DEF InQueue, Executing
  <2> QED BY <2>3 DEF IInv, PlaceInv
<1> QED BY <1>1, Invariance, PTL

\* A task is executed once, before Stop returns, if its submit returned true, and
\* never otherwise.
THEOREM TasksAreRunAsPromised == Spec => []TasksRunAsPromised
<1>1. RejectedNeverRuns /\ StopDrainsQueue => TasksRunAsPromised
      BY DEF TasksRunAsPromised
<1> QED BY <1>1, RejectedTasksNeverRun, StopDrains, PTL

-----------------------------------------------------------------------------
(* The pool implements the task service *)

Down == \E s \in Stoppers : stopPc[s] = "returned"

\* A step after which every task has its old status and Stop has returned only
\* if it had before is a stutter of the task service.
LEMMA Stutter ==
  ASSUME \A t \in Tasks : Status(t)' = Status(t), Down' <=> Down
  PROVE  UNCHANGED Service!svars
BY DEF Service!svars, Down

\* A step that changes the status of one task moves that task only.
LEMMA MovesOne ==
  ASSUME NEW t \in Tasks, NEW to, Status(t)' = to,
         \A x \in Tasks \ {t} : Status(x)' = Status(x), Down' <=> Down
  PROVE  Service!Move(t, Status(t), to)
BY DEF Service!Move, Down

\* Every step of the pool is a step of the task service or a stutter.
LEMMA ServiceStep == IInv /\ [Next]_vars => [Service!Next]_(Service!svars)
<1> SUFFICES ASSUME IInv, [Next]_vars PROVE Service!Next \/ UNCHANGED Service!svars
    OBVIOUS
<1> USE PoolAssumption DEF poolVars, submitVars, workVars
<1>0. /\ pc \in [Tasks -> {"new", "check", "select", "returned"}]
      /\ result \in [Tasks -> {"none", "true", "false", "panic"}]
      /\ current \in [Workers -> Tasks \cup {NoTask}]
      /\ executed \in [Tasks -> Nat]
      /\ stopPc \in [Stoppers -> {"new", "ignored", "cancel", "lock", "wait", "returned"}]
      /\ taskQueue \in Seq(Tasks)
      BY DEF IInv, TypeOK
<1>1. CASE UNCHANGED <<current, executed, result>> /\ (Down' <=> Down)
  <2>1. \A t \in Tasks : Status(t)' = Status(t)
        BY <1>1 DEF Status
  <2> QED BY <1>1, <2>1, Stutter
<1>2. ASSUME NEW t \in Tasks, SubmitSends(t) PROVE Service!Next
  <2>1. pc[t] = "select" /\ ~queueClosed /\ result[t] = "none"
        BY <1>2 DEF SubmitSends, IInv, CloseInv, PlaceInv
  <2>2. /\ result' = [result EXCEPT ![t] = "true"]
        /\ current' = current /\ executed' = executed /\ stopPc' = stopPc
        BY <1>2, <2>1 DEF SubmitSends, Return
  <2>3. ~Executing(t) /\ executed[t] = 0
        BY <2>1 DEF IInv, PlaceInv
  <2>4. Status(t) = "new" /\ Status(t)' = "accepted"
        BY <1>0, <2>1, <2>2, <2>3 DEF Status, Executing
  <2>5. \A x \in Tasks \ {t} : Status(x)' = Status(x)
        BY <1>0, <2>2 DEF Status
  <2>6. ~Down /\ (Down' <=> Down)
        BY <2>1, <2>2 DEF Down, IInv, StopInv
  <2>7. Service!Move(t, "new", "accepted")
        BY <2>4, <2>5, <2>6, MovesOne
  <2> QED BY <2>6, <2>7 DEF Service!Next, Service!Accept, Down
<1>3. ASSUME NEW t \in Tasks, SubmitChecks(t) \/ SubmitGivesUp(t)
      PROVE  Service!Next \/ UNCHANGED Service!svars
  <2>1. /\ pc[t] \in {"check", "select"} /\ result[t] = "none"
        /\ current' = current /\ executed' = executed /\ stopPc' = stopPc
        BY <1>3 DEF SubmitChecks, SubmitGivesUp, IInv, PlaceInv
  <2>2. ~Executing(t) /\ executed[t] = 0
        BY <2>1 DEF IInv, PlaceInv
  <2>3. Down' <=> Down
        BY <2>1 DEF Down
  <2>4. CASE result' = result
        BY <1>1, <2>1, <2>3, <2>4
  <2>5. CASE result' = [result EXCEPT ![t] = "false"]
    <3>1. Status(t) = "new" /\ Status(t)' = "rejected"
          BY <1>0, <2>1, <2>2, <2>5 DEF Status, Executing
    <3>2. \A x \in Tasks \ {t} : Status(x)' = Status(x)
          BY <1>0, <2>1, <2>5 DEF Status
    <3>3. Service!Move(t, "new", "rejected")
          BY <2>3, <3>1, <3>2, MovesOne
    <3> QED BY <3>3 DEF Service!Next, Service!Reject
  <2> QED BY <1>3, <2>4, <2>5 DEF SubmitChecks, SubmitGivesUp, Return
<1>4. ASSUME NEW w \in Workers, WorkerTakes(w) PROVE Service!Next
  <2>1. /\ current[w] = NoTask /\ worker[w] = "on"
        /\ taskQueue # <<>> /\ taskQueue' = Tail(taskQueue)
        /\ current' = [current EXCEPT ![w] = Head(taskQueue)]
        /\ UNCHANGED <<executed, result, stopPc>>
        BY <1>4 DEF WorkerTakes
  <2>2. Head(taskQueue) \in Tasks /\ InQueue(Head(taskQueue))
        BY <1>0, <2>1, ReceiveInQueue DEF IInv, PlaceInv
  <2>3. PICK t \in Tasks : t = Head(taskQueue)
        BY <2>2
  <2>4. ~Executing(t) /\ executed[t] = 0 /\ result[t] = "true"
        BY <2>2, <2>3 DEF IInv, PlaceInv
  <2>5. Status(t) = "accepted" /\ Status(t)' = "running"
        BY <1>0, <2>1, <2>3, <2>4 DEF Status, Executing
  <2>6. \A x \in Tasks \ {t} : Status(x)' = Status(x)
    <3>1. \A x \in Tasks \ {t} : Executing(x)' <=> Executing(x)
          BY <1>0, <2>1, <2>3 DEF Executing
    <3> QED BY <2>1, <3>1 DEF Status, Executing
  <2>7. ~Down /\ (Down' <=> Down)
        BY <2>1 DEF Down, IInv, StopInv
  <2>8. Service!Move(t, "accepted", "running")
        BY <2>5, <2>6, <2>7, MovesOne
  <2> QED BY <2>7, <2>8 DEF Service!Next, Service!Begin, Down
<1>5. ASSUME NEW w \in Workers, WorkerFinishes(w) PROVE Service!Next
  <2>1. PICK t \in Tasks : t = current[w]
        BY <1>0, <1>5 DEF WorkerFinishes
  <2>2. /\ current' = [current EXCEPT ![w] = NoTask]
        /\ executed' = [executed EXCEPT ![t] = executed[t] + 1]
        /\ UNCHANGED <<result, stopPc>>
        BY <1>5, <2>1 DEF WorkerFinishes
  <2>3. Executing(t) /\ executed[t] = 0 /\ executed'[t] = 1
    <3>1. Executing(t) /\ executed[t] = 0
          BY <2>1 DEF IInv, PlaceInv, Executing
    <3> QED BY <1>0, <2>2, <3>1
  <2>4. Status(t) = "running" /\ Status(t)' = "done"
        BY <2>3 DEF Status, Executing
  <2>5. \A x \in Tasks \ {t} : Status(x)' = Status(x)
    <3>1. \A x \in Tasks \ {t} : Executing(x)' <=> Executing(x)
          BY <1>0, <2>1, <2>2 DEF Executing
    <3>2. \A x \in Tasks \ {t} : executed'[x] = executed[x]
          BY <1>0, <2>2
    <3> QED BY <2>2, <3>1, <3>2 DEF Status, Executing
  <2>6. Down' <=> Down
        BY <2>2 DEF Down
  <2>7. Service!Move(t, "running", "done")
        BY <2>4, <2>5, <2>6, MovesOne
  <2> QED BY <2>7 DEF Service!Next, Service!Finish
<1>6. ASSUME NEW s \in Stoppers, StopReturns(s) PROVE Service!Next
  <2>1. /\ stopPc[s] = "wait" /\ stopPc' = [stopPc EXCEPT ![s] = "returned"]
        /\ UNCHANGED <<current, executed, result>>
        /\ \A w \in Workers : worker[w] = "off"
        BY <1>6 DEF StopReturns, StopTo
  <2>2. ~Down /\ Down'
        BY <1>0, <2>1 DEF Down, IInv, StopInv
  <2>3. taskQueue = <<>> /\ \A w \in Workers : current[w] = NoTask
        BY <2>1 DEF IInv, StopInv, WorkerInv
  <2>4. \A t \in Tasks : ~InQueue(t) /\ ~Executing(t)
        BY <2>3 DEF InQueue, Executing
  <2>5. \A t \in Tasks : Status(t) \notin {"accepted", "running"}
    <3> SUFFICES ASSUME NEW t \in Tasks PROVE Status(t) \notin {"accepted", "running"}
        OBVIOUS
    <3>1. result[t] = "true" => executed[t] > 0
      <4>1. result[t] = "true" => executed[t] = 1
            BY <2>4 DEF IInv, PlaceInv
      <4> QED BY <4>1
    <3> QED BY <2>4, <3>1 DEF Status, Executing
  <2>6. \A t \in Tasks : Status(t)' = Status(t)
        BY <2>1 DEF Status
  <2> QED BY <2>2, <2>5, <2>6 DEF Service!Next, Service!ShutDown, Down
<1>7. CASE Start \/ (\E t \in Tasks : SubmitLocks(t) \/ CallerCancels(t))
                \/ (\E w \in Workers : WorkerExits(w)) \/ UNCHANGED vars
      BY <1>1, <1>7 DEF Start, SubmitLocks, CallerCancels, WorkerExits, Down, vars
<1>8. ASSUME NEW s \in Stoppers, StopChecks(s) \/ StopCancels(s) \/ StopCloses(s)
      PROVE  UNCHANGED Service!svars
  <2>1. /\ UNCHANGED <<current, executed, result>> /\ stopPc[s] # "returned"
        /\ \E p \in {"ignored", "cancel", "lock", "wait"} :
             stopPc' = [stopPc EXCEPT ![s] = p]
        BY <1>8 DEF StopChecks, StopCancels, StopCloses, StopTo
  <2>2. Down' <=> Down
        BY <1>0, <2>1 DEF Down
  <2>3. \A t \in Tasks : Status(t)' = Status(t)
        BY <2>1 DEF Status
  <2> QED BY <2>2, <2>3, Stutter
<1> QED BY <1>2, <1>3, <1>4, <1>5, <1>6, <1>7, <1>8
        DEF Next, SubmitStep, WorkerStep, StopStep

\* The worker pool implements the safety part of the task service.
THEOREM PoolImplementsService == Spec => Service!Safety
<1>1. Init => Service!Init
  <2> SUFFICES ASSUME Init PROVE Service!Init
      OBVIOUS
  <2>1. ASSUME NEW t \in Tasks PROVE Status(t) = "new"
    <3>1. executed[t] = 0 /\ result[t] = "none" /\ \A w \in Workers : current[w] # t
          BY PoolAssumption DEF Init
    <3> QED BY <3>1 DEF Status
  <2>2. ~Down
        BY DEF Init, Down
  <2> QED BY <2>1, <2>2 DEF Service!Init, Down
<1>2. IInv /\ [Next]_vars => [Service!Next]_(Service!svars)
      BY ServiceStep
<1> QED BY <1>1, <1>2, Invariance, PTL DEF Spec, Service!Safety
=============================================================================
