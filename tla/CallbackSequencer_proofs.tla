----------------------- MODULE CallbackSequencer_proofs -----------------------
(***************************************************************************)
(* Proofs that the sequencer keeps its promises for every set of messages, *)
(* every queue limit and every choice of detached callers.                 *)
(***************************************************************************)
EXTENDS CallbackSequencer, TLAPS

-----------------------------------------------------------------------------
(* The inductive invariant *)

\* A drain task exists only once the call that created it has let go of it.
HandedOver == \A m \in Msg : drain[m] # "none" => callPc[m] = "returned"

\* The active flag has exactly one owner, and a non-empty queue has one.
Ownership ==
  /\ \A m1, m2 \in Msg : Owner(m1) /\ Owner(m2) => m1 = m2
  /\ \A m \in Msg : Owner(m) => active
  /\ active => \E m \in Msg : Owner(m)
  /\ queue # <<>> => active

Popped == \E d \in Msg : drain[d] = "popped"

\* The accepted messages are those started, then the one a drain task has
\* popped and not started yet, then the queue.
Conservation ==
  /\ Len(accepted) = Len(started) + Len(queue) + (IF Popped THEN 1 ELSE 0)
  /\ \A i \in 1..Len(started) : started[i] = accepted[i]
  /\ \A d \in Msg : drain[d] = "popped" => item[d] = accepted[Len(started) + 1]
  /\ \A i \in 1..Len(queue) :
       queue[i] = accepted[Len(accepted) - Len(queue) + i]

IInv == TypeOK /\ HandedOver /\ Ownership /\ Conservation

-----------------------------------------------------------------------------

\* The initial state is well typed.
LEMMA TypeInit == Init => TypeOK
<1> SUFFICES ASSUME Init PROVE TypeOK
    OBVIOUS
<1> USE SequencerAssumption DEF Init
<1>1. active \in BOOLEAN /\ overflowing \in BOOLEAN
      OBVIOUS
<1>2. dropCount \in Nat /\ ~(dropCount > 0)
      OBVIOUS
<1>3. overflowing <=> dropCount > 0
      BY <1>2, Zenon
<1>4. /\ queue \in Seq(Msg) /\ (MaxQueueSize > 0 => Len(queue) <= MaxQueueSize)
      /\ accepted \in Seq(Msg) /\ started \in Seq(Msg)
      /\ verdicts \in Seq([msg : Msg, dropped : BOOLEAN])
      OBVIOUS
<1>5. /\ callPc \in [Msg -> CallPcs]
      /\ drain \in [Msg -> DrainPcs]
      /\ host \in [Msg -> {"none", "pool", "goroutine"}]
      /\ item \in [Msg -> Msg]
      /\ signal \in [Msg -> {"none", "running", "done"}]
      /\ closePc \in ClosePcs
      BY DEF CallPcs, DrainPcs, ClosePcs
<1> QED BY <1>1, <1>2, <1>3, <1>4, <1>5 DEF TypeOK

\* The type invariant is inductive by itself.
LEMMA TypeStep == TypeOK /\ [Next]_vars => TypeOK'
<1> SUFFICES ASSUME TypeOK, [Next]_vars PROVE TypeOK'
    OBVIOUS
<1> USE SequencerAssumption DEF TypeOK, CallPcs, DrainPcs, ClosePcs
<1>1. ASSUME NEW m \in Msg, EnqueueDrop(m) PROVE TypeOK'
  <2> USE <1>1 DEF EnqueueDrop
  <2>1. dropCount' \in Nat /\ dropCount' > 0
        OBVIOUS
  <2>2. (overflowing <=> dropCount > 0)' /\ overflowing' \in BOOLEAN
        BY <2>1, Zenon
  <2>3. callPc' \in [Msg -> CallPcs] /\ signal' \in [Msg -> {"none", "running", "done"}]
        OBVIOUS
  <2>4. verdicts' \in Seq([msg : Msg, dropped : BOOLEAN])
    <3>1. [msg |-> m, dropped |-> TRUE] \in [msg : Msg, dropped : BOOLEAN]
          BY Zenon
    <3> QED BY <3>1
  <2> QED BY <2>1, <2>2, <2>3, <2>4
<1>2. ASSUME NEW m \in Msg, EnqueuePush(m) PROVE TypeOK'
  <2> USE <1>2 DEF EnqueuePush
  <2>1. dropCount' = 0
    <3>1. CASE overflowing
          BY <3>1
    <3>2. CASE ~overflowing
          BY <3>2
    <3> QED BY <3>1, <3>2
  <2>2. (overflowing <=> dropCount > 0)' /\ overflowing' \in BOOLEAN
    <3>1. dropCount' \in Nat /\ ~(dropCount' > 0)
          BY <2>1
    <3> QED BY <3>1, Zenon
  <2>3. queue' \in Seq(Msg) /\ (MaxQueueSize > 0 => Len(queue') <= MaxQueueSize)
        BY DEF QueueFull
  <2>4. callPc' \in [Msg -> CallPcs] /\ active' \in BOOLEAN /\ accepted' \in Seq(Msg)
        OBVIOUS
  <2>5. verdicts' \in Seq([msg : Msg, dropped : BOOLEAN])
    <3>1. [msg |-> m, dropped |-> FALSE] \in [msg : Msg, dropped : BOOLEAN]
          BY Zenon
    <3> QED BY <3>1
  <2> QED BY <2>1, <2>2, <2>3, <2>4, <2>5
<1>3. ASSUME NEW m \in Msg, Handover(m) PROVE TypeOK'
  <2>1. CASE SubmitTask(m)
        BY <2>1 DEF SubmitTask, seqVars, histVars
  <2>2. ASSUME NEW pc \in CallPcs, CallTo(m, pc) PROVE TypeOK'
        BY <2>2 DEF CallTo, seqVars, histVars
  <2>3. CASE SpawnDrain(m)
        BY <2>3 DEF SpawnDrain, seqVars, histVars
  <2> QED BY <1>3, <2>1, <2>2, <2>3 DEF Handover, TrySubmitOk, TrySubmitFails,
             SubmitChecksContext, SubmitSends, SubmitCancelled
<1>4. ASSUME NEW m \in Msg, FinishSignal(m) PROVE TypeOK'
      BY <1>4 DEF FinishSignal, seqVars, histVars
<1>5. ASSUME NEW d \in Msg, DrainStep(d) PROVE TypeOK'
  <2>1. CASE WorkerTakesTask(d)
        BY <2>1 DEF WorkerTakesTask, DrainTo, seqVars, histVars
  <2>2. CASE DrainPops(d)
        BY <2>2 DEF DrainPops, DrainTo, histVars
  <2>3. CASE DrainEnds(d)
        BY <2>3 DEF DrainEnds, DrainTo, histVars
  <2>4. CASE StartCallback(d)
        BY <2>4 DEF StartCallback, DrainTo, seqVars
  <2>5. CASE FinishCallback(d)
        BY <2>5 DEF FinishCallback, AfterCallback, DrainTo, seqVars, histVars
  <2> QED BY <1>5, <2>1, <2>2, <2>3, <2>4, <2>5 DEF DrainStep
<1>6. CASE Close
      BY <1>6 DEF Close, CloseBegins, CloseStopsPool, CloseJoinsPool,
         CloseWaits, CloseTo, seqVars, histVars
<1>7. CASE UNCHANGED vars
      BY <1>7 DEF vars
<1> QED BY <1>1, <1>2, <1>3, <1>4, <1>5, <1>6, <1>7 DEF Next, Enqueue

-----------------------------------------------------------------------------
(* Ownership of the active flag *)

\* A step that changes neither the owners nor the flag nor the emptiness of
\* the queue for the worse keeps the ownership invariant.
LEMMA SameOwners ==
  ASSUME Ownership, active' <=> active,
         queue' # <<>> => queue # <<>>,
         \A m \in Msg : Owner(m)' <=> Owner(m)
  PROVE  Ownership'
BY DEF Ownership

LEMMA OwnershipStep ==
  TypeOK /\ HandedOver /\ Ownership /\ [Next]_vars => HandedOver' /\ Ownership'
<1> SUFFICES ASSUME TypeOK, HandedOver, Ownership, [Next]_vars
             PROVE  HandedOver' /\ Ownership'
    OBVIOUS
<1> USE DEF Owner, InEnqueue, Running, HandedOver
<1>0. /\ callPc \in [Msg -> CallPcs]
      /\ drain \in [Msg -> DrainPcs]
      BY DEF TypeOK
<1>1. ASSUME NEW m \in Msg, EnqueueDrop(m) PROVE HandedOver' /\ Ownership'
  <2>1. \A x \in Msg : Owner(x)' <=> Owner(x)
        BY <1>0, <1>1 DEF EnqueueDrop
  <2>2. HandedOver'
        BY <1>0, <1>1 DEF EnqueueDrop
  <2> QED BY <1>1, <2>1, <2>2, SameOwners DEF EnqueueDrop
<1>2. ASSUME NEW m \in Msg, EnqueuePush(m) PROVE HandedOver' /\ Ownership'
  <2>1. HandedOver'
        BY <1>0, <1>2 DEF EnqueuePush
  <2>2. CASE active
    <3>1. \A x \in Msg : Owner(x)' <=> Owner(x)
          BY <1>0, <1>2, <2>2 DEF EnqueuePush
    <3> QED BY <1>2, <2>1, <2>2, <3>1 DEF EnqueuePush, Ownership
  <2>3. CASE ~active
    <3>1. \A x \in Msg : Owner(x)' <=> x = m
          BY <1>0, <1>2, <2>3 DEF EnqueuePush, Ownership
    <3>2. active'
          BY <1>2 DEF EnqueuePush
    <3> QED BY <2>1, <3>1, <3>2 DEF Ownership
  <2> QED BY <2>2, <2>3
<1>3. ASSUME NEW m \in Msg, Handover(m) PROVE HandedOver' /\ Ownership'
  <2>1. InEnqueue(m)
        BY <1>3 DEF Handover, TrySubmitOk, TrySubmitFails, SubmitChecksContext,
                    SubmitSends, SubmitCancelled, SpawnDrain
  <2>2. CASE SubmitTask(m) \/ SpawnDrain(m)
    <3>1. HandedOver' /\ \A x \in Msg : Owner(x)' <=> Owner(x)
          BY <1>0, <2>1, <2>2 DEF SubmitTask, SpawnDrain
    <3> QED BY <2>2, <3>1, SameOwners DEF SubmitTask, SpawnDrain, seqVars
  <2>3. ASSUME NEW pc \in {"submit", "submitSelect", "spawn"}, CallTo(m, pc)
        PROVE  HandedOver' /\ Ownership'
    <3>1. HandedOver' /\ \A x \in Msg : Owner(x)' <=> Owner(x)
          BY <1>0, <2>1, <2>3 DEF CallTo
    <3> QED BY <2>3, <3>1, SameOwners DEF CallTo, seqVars
  <2> QED BY <1>3, <2>2, <2>3 DEF Handover, TrySubmitOk, TrySubmitFails,
             SubmitChecksContext, SubmitSends, SubmitCancelled
<1>4. ASSUME NEW m \in Msg, FinishSignal(m) PROVE HandedOver' /\ Ownership'
      BY <1>4 DEF FinishSignal, seqVars, Ownership
<1>5. ASSUME NEW d \in Msg, DrainStep(d) PROVE HandedOver' /\ Ownership'
  <2>1. CASE DrainEnds(d)
    <3>1. HandedOver' /\ \A x \in Msg : ~Owner(x)'
          BY <1>0, <2>1 DEF DrainEnds, DrainTo, Ownership
    <3>2. ~active' /\ queue' = <<>>
          BY <2>1 DEF DrainEnds
    <3> QED BY <3>1, <3>2 DEF Ownership
  <2>2. CASE ~DrainEnds(d)
    <3>1. drain[d] # "none" /\ Running(d) /\ Running(d)' /\ active' = active
          BY <1>0, <1>5, <2>2 DEF DrainStep, WorkerTakesTask, DrainPops,
             StartCallback, FinishCallback, AfterCallback, DrainTo, seqVars
    <3>2. callPc' = callPc /\ \A x \in Msg \ {d} : drain'[x] = drain[x]
          BY <1>0, <1>5, <2>2 DEF DrainStep, WorkerTakesTask, DrainPops,
             StartCallback, FinishCallback, DrainTo
    <3>3. queue' # <<>> => queue # <<>>
          BY <1>5, <2>2 DEF DrainStep, WorkerTakesTask, DrainPops,
             StartCallback, FinishCallback, seqVars
    <3>4. HandedOver' /\ \A x \in Msg : Owner(x)' <=> Owner(x)
          BY <3>1, <3>2
    <3> QED BY <3>1, <3>3, <3>4, SameOwners
  <2> QED BY <2>1, <2>2
<1>6. CASE Close
      BY <1>6 DEF Close, CloseBegins, CloseStopsPool, CloseJoinsPool,
         CloseWaits, CloseTo, seqVars, Ownership
<1>7. CASE UNCHANGED vars
      BY <1>7 DEF vars, Ownership
<1> QED BY <1>1, <1>2, <1>3, <1>4, <1>5, <1>6, <1>7 DEF Next, Enqueue

-----------------------------------------------------------------------------
(* No message is lost, duplicated or overtaken *)

\* A step that moves no message keeps the conservation invariant.
LEMMA NoFlow ==
  ASSUME Conservation,
         UNCHANGED <<queue, accepted, started, item>>,
         \A d \in Msg : drain'[d] = "popped" <=> drain[d] = "popped"
  PROVE  Conservation'
<1>1. Popped' <=> Popped
      BY DEF Popped
<1>2. CASE Popped
      BY <1>1, <1>2 DEF Conservation
<1>3. CASE ~Popped
      BY <1>1, <1>3 DEF Conservation
<1> QED BY <1>2, <1>3

LEMMA ConservationStep ==
  TypeOK /\ HandedOver /\ Ownership /\ Conservation /\ [Next]_vars => Conservation'
<1> SUFFICES ASSUME TypeOK, HandedOver, Ownership, Conservation, [Next]_vars
             PROVE  Conservation'
    OBVIOUS
<1>0. /\ queue \in Seq(Msg) /\ accepted \in Seq(Msg) /\ started \in Seq(Msg)
      /\ callPc \in [Msg -> CallPcs] /\ drain \in [Msg -> DrainPcs]
      /\ item \in [Msg -> Msg]
      BY DEF TypeOK
<1>1. ASSUME NEW m \in Msg, EnqueueDrop(m) PROVE Conservation'
      BY <1>1, NoFlow DEF EnqueueDrop
<1>2. ASSUME NEW m \in Msg, EnqueuePush(m) PROVE Conservation'
  <2>1. /\ queue' = Append(queue, m) /\ accepted' = Append(accepted, m)
        /\ started' = started /\ drain' = drain /\ item' = item
        BY <1>2 DEF EnqueuePush
  <2>2. /\ Len(queue') = Len(queue) + 1 /\ Len(accepted') = Len(accepted) + 1
        /\ \A i \in 1..Len(accepted) : accepted'[i] = accepted[i]
        /\ accepted'[Len(accepted) + 1] = m
        /\ \A i \in 1..Len(queue) : queue'[i] = queue[i]
        /\ queue'[Len(queue) + 1] = m
        BY <1>0, <2>1
  <2>3. Popped' <=> Popped
        BY <2>1 DEF Popped
  <2>4. Len(accepted') = Len(started') + Len(queue') + (IF Popped' THEN 1 ELSE 0)
    <3>1. CASE Popped
          BY <1>0, <2>1, <2>2, <2>3, <3>1 DEF Conservation
    <3>2. CASE ~Popped
          BY <1>0, <2>1, <2>2, <2>3, <3>2 DEF Conservation
    <3> QED BY <3>1, <3>2
  <2>5. Len(started) + Len(queue) <= Len(accepted)
        BY <1>0 DEF Conservation
  <2>6. \A i \in 1..Len(started') : started'[i] = accepted'[i]
        BY <1>0, <2>1, <2>2, <2>5 DEF Conservation
  <2>7. \A d \in Msg : drain'[d] = "popped" => item'[d] = accepted'[Len(started') + 1]
    <3> SUFFICES ASSUME NEW d \in Msg, drain[d] = "popped"
                 PROVE  item[d] = accepted'[Len(started) + 1]
        BY <2>1
    <3>1. Len(started) + 1 \in 1..Len(accepted)
          BY <1>0 DEF Conservation, Popped
    <3> QED BY <2>2, <3>1 DEF Conservation
  <2>8. \A i \in 1..Len(queue') :
          queue'[i] = accepted'[Len(accepted') - Len(queue') + i]
    <3>0. Len(accepted') - Len(queue') = Len(accepted) - Len(queue)
          BY <1>0, <2>2
    <3> SUFFICES ASSUME NEW i \in 1..Len(queue')
                 PROVE  queue'[i] = accepted'[Len(accepted) - Len(queue) + i]
        BY <3>0
    <3>1. CASE i = Len(queue) + 1
      <4>1. Len(accepted) - Len(queue) + i = Len(accepted) + 1
            BY <1>0, <3>1
      <4> QED BY <2>2, <3>1, <4>1
    <3>2. CASE i \in 1..Len(queue)
      <4>1. Len(accepted) - Len(queue) + i \in 1..Len(accepted)
            BY <1>0, <2>5, <3>2
      <4> QED BY <2>2, <3>2, <4>1 DEF Conservation
    <3> QED BY <1>0, <2>2, <3>1, <3>2
  <2> QED BY <2>4, <2>6, <2>7, <2>8 DEF Conservation
<1>3. ASSUME NEW m \in Msg, Handover(m) PROVE Conservation'
  <2>1. UNCHANGED <<queue, accepted, started, item>>
        BY <1>3 DEF Handover, TrySubmitOk, TrySubmitFails, SubmitChecksContext,
           SubmitSends, SubmitCancelled, SpawnDrain, SubmitTask, CallTo,
           seqVars, histVars
  <2>2. InEnqueue(m)
        BY <1>3 DEF InEnqueue, Handover, TrySubmitOk, TrySubmitFails,
           SubmitChecksContext, SubmitSends, SubmitCancelled, SpawnDrain
  <2>3. drain[m] = "none"
        BY <1>0, <2>2 DEF HandedOver, InEnqueue
  <2>4. drain' = drain \/ \E pc \in {"queued", "loop"} : drain' = [drain EXCEPT ![m] = pc]
        BY <1>3 DEF Handover, TrySubmitOk, TrySubmitFails,
           SubmitChecksContext, SubmitSends, SubmitCancelled, SpawnDrain,
           SubmitTask, CallTo
  <2>5. \A d \in Msg : drain'[d] = "popped" <=> drain[d] = "popped"
        BY <1>0, <2>3, <2>4
  <2> QED BY <2>1, <2>5, NoFlow
<1>4. ASSUME NEW m \in Msg, FinishSignal(m) PROVE Conservation'
      BY <1>4, NoFlow DEF FinishSignal, seqVars, histVars
<1>5. ASSUME NEW d \in Msg, DrainPops(d) PROVE Conservation'
  <2>1. /\ queue # <<>> /\ queue' = Tail(queue)
        /\ item' = [item EXCEPT ![d] = Head(queue)]
        /\ drain' = [drain EXCEPT ![d] = "popped"]
        /\ drain[d] = "loop" /\ accepted' = accepted /\ started' = started
        BY <1>5 DEF DrainPops, DrainTo, histVars
  <2>2. \A x \in Msg : drain[x] # "popped"
        BY <2>1 DEF Ownership, Owner, Running
  <2>3. ~Popped /\ Popped'
        BY <1>0, <2>1, <2>2 DEF Popped
  <2>4. /\ Len(queue) >= 1 /\ Len(queue') = Len(queue) - 1
        /\ Head(queue) = queue[1]
        /\ \A i \in 1..Len(queue') : queue'[i] = queue[i + 1]
        BY <1>0, <2>1
  <2>5. Len(accepted) = Len(started) + Len(queue)
        BY <1>0, <2>3 DEF Conservation
  <2>6. Len(accepted') = Len(started') + Len(queue') + (IF Popped' THEN 1 ELSE 0)
        BY <1>0, <2>1, <2>3, <2>4, <2>5
  <2>7. \A x \in Msg : drain'[x] = "popped" => item'[x] = accepted'[Len(started') + 1]
    <3>1. Head(queue) = accepted[Len(started) + 1]
          BY <1>0, <2>4, <2>5 DEF Conservation
    <3> QED BY <1>0, <2>1, <2>2, <3>1
  <2>8. \A i \in 1..Len(queue') :
          queue'[i] = accepted'[Len(accepted') - Len(queue') + i]
    <3> SUFFICES ASSUME NEW i \in 1..Len(queue')
                 PROVE  queue'[i] = accepted[Len(accepted) - Len(queue') + i]
        BY <2>1
    <3>1. i + 1 \in 1..Len(queue)
          BY <1>0, <2>4
    <3>2. queue[i + 1] = accepted[Len(accepted) - Len(queue) + (i + 1)]
          BY <3>1 DEF Conservation
    <3>3. Len(accepted) - Len(queue) + (i + 1) = Len(accepted) - Len(queue') + i
          BY <1>0, <2>4
    <3> QED BY <2>4, <3>2, <3>3
  <2> QED BY <2>1, <2>6, <2>7, <2>8 DEF Conservation
<1>6. ASSUME NEW d \in Msg, StartCallback(d) PROVE Conservation'
  <2>1. /\ queue' = queue /\ accepted' = accepted /\ item' = item
        /\ drain' = [drain EXCEPT ![d] = "exec"]
        /\ drain[d] = "popped" /\ started' = Append(started, item[d])
        BY <1>6 DEF StartCallback, DrainTo, seqVars
  <2>2. \A x \in Msg : drain[x] = "popped" => x = d
        BY <2>1 DEF Ownership, Owner, Running
  <2>3. Popped /\ \A x \in Msg : drain'[x] # "popped"
        BY <1>0, <2>1, <2>2 DEF Popped
  <2>4. ~Popped'
        BY <2>3 DEF Popped
  <2>5. /\ Len(started') = Len(started) + 1
        /\ \A i \in 1..Len(started) : started'[i] = started[i]
        /\ started'[Len(started) + 1] = accepted[Len(started) + 1]
        BY <1>0, <2>1 DEF Conservation
  <2>6. Len(accepted) = Len(started) + Len(queue) + 1
        BY <1>0, <2>3 DEF Conservation
  <2>7. Len(accepted') = Len(started') + Len(queue') + (IF Popped' THEN 1 ELSE 0)
        BY <1>0, <2>1, <2>4, <2>5, <2>6
  <2>8. \A i \in 1..Len(started') : started'[i] = accepted'[i]
        BY <1>0, <2>1, <2>5 DEF Conservation
  <2>9. \A i \in 1..Len(queue') :
          queue'[i] = accepted'[Len(accepted') - Len(queue') + i]
        BY <2>1 DEF Conservation
  <2> QED BY <2>3, <2>7, <2>8, <2>9 DEF Conservation
<1>7. ASSUME NEW d \in Msg,
             WorkerTakesTask(d) \/ DrainEnds(d) \/ FinishCallback(d)
      PROVE  Conservation'
  <2>1. UNCHANGED <<queue, accepted, started, item>>
        BY <1>7 DEF WorkerTakesTask, DrainEnds, FinishCallback, seqVars, histVars
  <2>2. /\ drain[d] # "popped"
        /\ \E pc \in {"loop", "done"} : drain' = [drain EXCEPT ![d] = pc]
        BY <1>7 DEF WorkerTakesTask, DrainEnds, FinishCallback, AfterCallback, DrainTo
  <2>3. \A x \in Msg : drain'[x] = "popped" <=> drain[x] = "popped"
        BY <1>0, <2>2
  <2> QED BY <2>1, <2>3, NoFlow
<1>8. CASE Close
      BY <1>8, NoFlow DEF Close, CloseBegins, CloseStopsPool, CloseJoinsPool,
         CloseWaits, CloseTo, seqVars, histVars
<1>9. CASE UNCHANGED vars
      BY <1>9, NoFlow DEF vars
<1> QED BY <1>1, <1>2, <1>3, <1>4, <1>5, <1>6, <1>7, <1>8, <1>9
        DEF Next, Enqueue, DrainStep

-----------------------------------------------------------------------------
(* The theorems *)

\* The inductive invariant holds in every reachable state.
THEOREM Invariance == Spec => []IInv
<1>1. Init => IInv
  <2> SUFFICES ASSUME Init PROVE IInv
      OBVIOUS
  <2>1. TypeOK
        BY TypeInit
  <2>2. HandedOver /\ \A m \in Msg : ~Owner(m)
        BY DEF Init, HandedOver, Owner, InEnqueue, Running
  <2>3. ~active /\ queue = <<>>
        BY DEF Init
  <2>4. Ownership
        BY <2>2, <2>3 DEF Ownership
  <2>5. ~Popped
        BY DEF Init, Popped
  <2>6. Conservation
        BY <2>5 DEF Init, Conservation
  <2> QED BY <2>1, <2>2, <2>4, <2>6 DEF IInv
<1>2. IInv /\ [Next]_vars => IInv'
      BY TypeStep, OwnershipStep, ConservationStep DEF IInv
<1> QED BY <1>1, <1>2, PTL DEF Spec

\* The sequencer's variables keep their types, the queue never exceeds its
\* limit, and drops are counted exactly during an overflow episode.
THEOREM TypeCorrect == Spec => []TypeOK
<1>1. IInv => TypeOK
      BY DEF IInv
<1> QED BY <1>1, Invariance, PTL

\* However many goroutines enqueue, the callbacks of the queued messages of one
\* subscription never overlap: one drain task at a time pops and runs them.  The goroutine
\* of an overflow signal may run the same callback beside them (sequencer.go:79-84).
THEOREM CallbacksAreSequential == Spec => []SequentialCallbacks
<1>1. IInv => SequentialCallbacks
      BY DEF IInv, Ownership, Owner, Running, SequentialCallbacks
<1> QED BY <1>1, Invariance, PTL

\* Callbacks start in the order in which enqueue accepted their messages.
THEOREM DeliveryIsFifo == Spec => []FifoDelivery
<1>1. IInv => FifoDelivery
  <2> SUFFICES ASSUME IInv PROVE FifoDelivery
      OBVIOUS
  <2>1. /\ Len(started) \in Nat /\ Len(queue) \in Nat /\ Len(accepted) \in Nat
        BY DEF IInv, TypeOK
  <2>2. Len(started) <= Len(accepted)
        BY <2>1 DEF IInv, Conservation
  <2> QED BY <2>2 DEF IInv, Conservation, FifoDelivery
<1> QED BY <1>1, Invariance, PTL

\* The active flag always has an owner that will clear it, and a queued
\* message always has a drain task on its way.
THEOREM NothingStranded == Spec => []NeverStranded
<1>1. IInv => NeverStranded
      BY DEF IInv, Ownership, NeverStranded
<1> QED BY <1>1, Invariance, PTL

\* There is exactly one drain task while the queue needs one, whatever goroutines
\* enqueue and wherever the task runs.
THEOREM DrainIsUnique == Spec => []OneDrainWhileNeeded
<1>1. SequentialCallbacks /\ NeverStranded => OneDrainWhileNeeded
      BY DEF OneDrainWhileNeeded
<1> QED BY <1>1, CallbacksAreSequential, NothingStranded, PTL

-----------------------------------------------------------------------------
(* Overflow signals *)

\* The overflow flag remembers the verdict of the last call; a call that has
\* not taken the lock has neither a verdict nor a signal.
SignalInv ==
  /\ \A k \in 1..Len(verdicts) : callPc[verdicts[k].msg] # "new"
  /\ \A m \in Msg : callPc[m] = "new" => signal[m] = "none"
  /\ overflowing <=> (Len(verdicts) > 0 /\ verdicts[Len(verdicts)].dropped)
  /\ OneSignalPerEpisode

LEMMA VerdictsNameMessages ==
  ASSUME TypeOK PROVE \A k \in 1..Len(verdicts) : verdicts[k].msg \in Msg
<1>1. verdicts \in Seq([msg : Msg, dropped : BOOLEAN])
      BY DEF TypeOK
<1>2. ASSUME NEW k \in 1..Len(verdicts) PROVE verdicts[k].msg \in Msg
  <2> DEFINE Verdict == [msg : Msg, dropped : BOOLEAN]
  <2>1. verdicts \in Seq(Verdict)
        BY <1>1
  <2> HIDE DEF Verdict
  <2>2. verdicts[k] \in Verdict
        BY <2>1
  <2> QED BY <2>2 DEF Verdict
<1> QED BY <1>2

\* What appending the verdict of call m does to the history.
LEMMA AppendVerdict ==
  ASSUME TypeOK, NEW m \in Msg, NEW b \in BOOLEAN,
         verdicts' = Append(verdicts, [msg |-> m, dropped |-> b])
  PROVE  /\ Len(verdicts') = Len(verdicts) + 1 /\ Len(verdicts) \in Nat
         /\ \A k \in 1..Len(verdicts) : verdicts'[k] = verdicts[k]
         /\ verdicts'[Len(verdicts')].msg = m
         /\ verdicts'[Len(verdicts')].dropped = b
         /\ \A k \in 1..Len(verdicts) : verdicts[k].msg \in Msg
<1>1. [msg |-> m, dropped |-> b] \in [msg : Msg, dropped : BOOLEAN]
      BY Zenon
<1> DEFINE Verdict == [msg : Msg, dropped : BOOLEAN]
<1>2. verdicts \in Seq(Verdict)
      BY DEF TypeOK
<1> HIDE DEF Verdict
<1>3. [msg |-> m, dropped |-> b] \in Verdict
      BY <1>1 DEF Verdict
<1>4. /\ Len(verdicts') = Len(verdicts) + 1 /\ Len(verdicts) \in Nat
      /\ \A k \in 1..Len(verdicts) : verdicts'[k] = verdicts[k]
      /\ verdicts'[Len(verdicts')] = [msg |-> m, dropped |-> b]
      BY <1>2, <1>3
<1> QED BY <1>4, VerdictsNameMessages

LEMMA SignalStep == TypeOK /\ SignalInv /\ [Next]_vars => SignalInv'
<1> SUFFICES ASSUME TypeOK, SignalInv, [Next]_vars PROVE SignalInv'
    OBVIOUS
<1>0. /\ callPc \in [Msg -> CallPcs]
      /\ signal \in [Msg -> {"none", "running", "done"}]
      BY DEF TypeOK
<1>1. ASSUME NEW m \in Msg, EnqueueDrop(m) PROVE SignalInv'
  <2>1. /\ callPc[m] = "new" /\ callPc' = [callPc EXCEPT ![m] = "returned"]
        /\ signal' = IF overflowing THEN signal
                                    ELSE [signal EXCEPT ![m] = "running"]
        /\ overflowing'
        BY <1>1 DEF EnqueueDrop
  <2>2. verdicts' = Append(verdicts, [msg |-> m, dropped |-> TRUE])
        BY <1>1 DEF EnqueueDrop
  <2>3. /\ Len(verdicts') = Len(verdicts) + 1 /\ Len(verdicts) \in Nat
        /\ \A k \in 1..Len(verdicts) : verdicts'[k] = verdicts[k]
        /\ verdicts'[Len(verdicts')].msg = m
        /\ verdicts'[Len(verdicts')].dropped = TRUE
        /\ \A k \in 1..Len(verdicts) : verdicts[k].msg \in Msg
        BY <2>2, AppendVerdict
  <2>4. \A k \in 1..Len(verdicts) : verdicts[k].msg # m
        BY <2>1 DEF SignalInv
  <2>5. \A k \in 1..Len(verdicts') : callPc'[verdicts'[k].msg] # "new"
        BY <1>0, <2>1, <2>3, <2>4 DEF SignalInv
  <2>6. \A x \in Msg : callPc'[x] = "new" => signal'[x] = "none"
        BY <1>0, <2>1 DEF SignalInv
  <2>7. \A k \in 1..Len(verdicts) : signal'[verdicts[k].msg] = signal[verdicts[k].msg]
        BY <1>0, <2>1, <2>3, <2>4
  <2>8. signal'[m] # "none" <=> ~overflowing
        BY <1>0, <2>1 DEF SignalInv
  <2>9. OneSignalPerEpisode'
    <3> SUFFICES ASSUME NEW k \in 1..Len(verdicts')
                 PROVE  signal'[verdicts'[k].msg] # "none"
                          <=> verdicts'[k].dropped /\ (k > 1 => ~verdicts'[k - 1].dropped)
        BY DEF OneSignalPerEpisode
    <3>1. CASE k \in 1..Len(verdicts)
      <4>1. k > 1 => k - 1 \in 1..Len(verdicts)
            BY <2>3, <3>1
      <4> QED BY <2>3, <2>7, <3>1, <4>1 DEF SignalInv, OneSignalPerEpisode
    <3>2. CASE k = Len(verdicts) + 1
      <4>1. verdicts'[k].dropped /\ verdicts'[k].msg = m
            BY <2>3, <3>2
      <4>2. (k > 1 => ~verdicts'[k - 1].dropped) <=> ~overflowing
        <5>1. CASE Len(verdicts) = 0
              BY <2>3, <3>2, <5>1 DEF SignalInv
        <5>2. CASE Len(verdicts) > 0
          <6>1. k > 1 /\ k - 1 = Len(verdicts) /\ k - 1 \in 1..Len(verdicts)
                BY <2>3, <3>2, <5>2
          <6> QED BY <2>3, <5>2, <6>1 DEF SignalInv
        <5> QED BY <2>3, <5>1, <5>2
      <4> QED BY <2>8, <4>1, <4>2
    <3> QED BY <2>3, <3>1, <3>2
  <2> QED BY <2>1, <2>3, <2>5, <2>6, <2>9 DEF SignalInv
<1>2. ASSUME NEW m \in Msg, EnqueuePush(m) PROVE SignalInv'
  <2>1. /\ callPc[m] = "new" /\ signal' = signal /\ ~overflowing'
        /\ \E pc \in {"returned", "trySubmit"} : callPc' = [callPc EXCEPT ![m] = pc]
        BY <1>2 DEF EnqueuePush
  <2>2. verdicts' = Append(verdicts, [msg |-> m, dropped |-> FALSE])
        BY <1>2 DEF EnqueuePush
  <2>3. /\ Len(verdicts') = Len(verdicts) + 1 /\ Len(verdicts) \in Nat
        /\ \A k \in 1..Len(verdicts) : verdicts'[k] = verdicts[k]
        /\ verdicts'[Len(verdicts')].msg = m
        /\ verdicts'[Len(verdicts')].dropped = FALSE
        /\ \A k \in 1..Len(verdicts) : verdicts[k].msg \in Msg
        BY <2>2, AppendVerdict
  <2>4. signal[m] = "none" /\ \A k \in 1..Len(verdicts) : verdicts[k].msg # m
        BY <2>1 DEF SignalInv
  <2>5. \A k \in 1..Len(verdicts') : callPc'[verdicts'[k].msg] # "new"
        BY <1>0, <2>1, <2>3, <2>4 DEF SignalInv
  <2>6. \A x \in Msg : callPc'[x] = "new" => signal'[x] = "none"
        BY <1>0, <2>1 DEF SignalInv
  <2>7. OneSignalPerEpisode'
    <3> SUFFICES ASSUME NEW k \in 1..Len(verdicts')
                 PROVE  signal'[verdicts'[k].msg] # "none"
                          <=> verdicts'[k].dropped /\ (k > 1 => ~verdicts'[k - 1].dropped)
        BY DEF OneSignalPerEpisode
    <3>1. CASE k \in 1..Len(verdicts)
      <4>1. k > 1 => k - 1 \in 1..Len(verdicts)
            BY <2>3, <3>1
      <4> QED BY <2>1, <2>3, <3>1, <4>1 DEF SignalInv, OneSignalPerEpisode
    <3>2. CASE k = Len(verdicts')
          BY <2>1, <2>3, <2>4, <3>2
    <3> QED BY <2>3, <3>1, <3>2
  <2>8. ~(overflowing') /\ ~(verdicts'[Len(verdicts')].dropped)
        BY <2>1, <2>3
  <2> QED BY <2>5, <2>6, <2>7, <2>8 DEF SignalInv
<1>3. ASSUME NEW m \in Msg, Handover(m) PROVE SignalInv'
  <2>1. /\ UNCHANGED <<verdicts, overflowing, signal>>
        /\ callPc[m] # "new"
        /\ \E pc \in CallPcs \ {"new"} : callPc' = [callPc EXCEPT ![m] = pc]
        BY <1>3 DEF Handover, TrySubmitOk, TrySubmitFails, SubmitChecksContext,
           SubmitSends, SubmitCancelled, SpawnDrain, SubmitTask, CallTo, CallPcs,
           seqVars, histVars
  <2>2. \A x \in Msg : callPc'[x] = "new" <=> callPc[x] = "new"
        BY <1>0, <2>1
  <2>3. \A k \in 1..Len(verdicts) : verdicts[k].msg \in Msg
        BY VerdictsNameMessages
  <2> QED BY <2>1, <2>2, <2>3 DEF SignalInv, OneSignalPerEpisode
<1>4. ASSUME NEW m \in Msg, FinishSignal(m) PROVE SignalInv'
  <2>1. /\ UNCHANGED <<verdicts, overflowing, callPc>>
        /\ \A x \in Msg : signal'[x] = "none" <=> signal[x] = "none"
        BY <1>0, <1>4 DEF FinishSignal, seqVars, histVars
  <2>2. \A k \in 1..Len(verdicts) : verdicts[k].msg \in Msg
        BY VerdictsNameMessages
  <2> QED BY <2>1, <2>2 DEF SignalInv, OneSignalPerEpisode
<1>5. CASE UNCHANGED <<verdicts, overflowing, callPc, signal>>
      BY <1>5 DEF SignalInv, OneSignalPerEpisode
<1>6. ASSUME NEW d \in Msg, DrainStep(d) PROVE SignalInv'
      BY <1>5, <1>6 DEF DrainStep, WorkerTakesTask, DrainPops, DrainEnds,
         StartCallback, FinishCallback, seqVars, histVars
<1>7. CASE Close
      BY <1>5, <1>7 DEF Close, CloseBegins, CloseStopsPool, CloseJoinsPool,
         CloseWaits, CloseTo, seqVars, histVars
<1> QED BY <1>1, <1>2, <1>3, <1>4, <1>5, <1>6, <1>7 DEF Next, Enqueue, vars

\* Every overflow episode is signalled exactly once, by the call that opens it.
THEOREM EpisodesAreSignalledOnce == Spec => []OneSignalPerEpisode
<1>1. Init => SignalInv
  <2> SUFFICES ASSUME Init PROVE SignalInv
      OBVIOUS
  <2>1. Len(verdicts) = 0 /\ ~overflowing /\ \A m \in Msg : signal[m] = "none"
        BY DEF Init
  <2> QED BY <2>1 DEF SignalInv, OneSignalPerEpisode
<1>2. TypeOK /\ SignalInv /\ [Next]_vars => SignalInv'
      BY SignalStep
<1>3. SignalInv => OneSignalPerEpisode
      BY DEF SignalInv
<1> QED BY <1>1, <1>2, <1>3, TypeCorrect, PTL DEF Spec

-----------------------------------------------------------------------------
(* Close, when only goroutines that it joins enqueue *)

\* Each stage of Close has emptied what it waits for, and nothing refills it.
CloseStages ==
  /\ PoolCancelled => \A m \in Msg : ~InEnqueue(m)
  /\ closePc \in {"waiting", "closed"} => PoolDrained
  /\ closePc = "closed" => CallbackWgZero
  /\ \A m \in Msg : Running(m) => host[m] \in {"pool", "goroutine"}

CloseInv == DetachedIdle => CloseStages

LEMMA CloseStep == TypeOK /\ CloseInv /\ [Next]_vars => CloseInv'
<1> SUFFICES ASSUME TypeOK, CloseInv, [Next]_vars, DetachedIdle' PROVE CloseStages'
    BY DEF CloseInv
<1>0. /\ callPc \in [Msg -> CallPcs]
      /\ drain \in [Msg -> DrainPcs]
      /\ host \in [Msg -> {"none", "pool", "goroutine"}]
      /\ signal \in [Msg -> {"none", "running", "done"}]
      /\ Detached \subseteq Msg
      BY SequencerAssumption DEF TypeOK
<1>a. ASSUME \A x \in Msg : callPc'[x] = "new" => callPc[x] = "new"
      PROVE  CloseStages
  <2>1. DetachedIdle
        BY <1>0, <1>a DEF DetachedIdle
  <2> QED BY <2>1 DEF CloseInv
<1> USE DEF CloseStages, PoolCancelled, InEnqueue, InSubmit, Running, PoolDrained,
        CallbackWgZero
<1>1. ASSUME NEW m \in Msg, Enqueue(m) PROVE CloseStages'
  <2>1. /\ callPc' = [callPc EXCEPT ![m] = callPc'[m]]
        /\ callPc'[m] # "new"
        BY <1>0, <1>1 DEF Enqueue, EnqueueDrop, EnqueuePush
  <2>2. m \notin Detached /\ DetachedIdle
        BY <1>0, <1>1, <2>1 DEF DetachedIdle, Enqueue, EnqueueDrop, EnqueuePush
  <2>3. CloseStages
        BY <2>2 DEF CloseInv
  <2>4. closePc \in {"open", "joining"} /\ closePc' = closePc
        BY <1>1, <2>2 DEF Enqueue, EnqueueDrop, EnqueuePush, MayCall
  <2>5. drain' = drain /\ host' = host
        BY <1>1 DEF Enqueue, EnqueueDrop, EnqueuePush
  <2> QED BY <2>3, <2>4, <2>5
<1>2. ASSUME NEW m \in Msg, Handover(m) PROVE CloseStages'
  <2>1. callPc[m] \notin {"new", "returned"} /\ closePc' = closePc
        BY <1>2 DEF Handover, TrySubmitOk, TrySubmitFails, SubmitChecksContext,
           SubmitSends, SubmitCancelled, SpawnDrain, SubmitTask, CallTo
  <2>2. \E p \in CallPcs \ {"new"} : callPc' = [callPc EXCEPT ![m] = p]
        BY <1>2 DEF Handover, TrySubmitOk, TrySubmitFails, SubmitChecksContext,
           SubmitSends, SubmitCancelled, SpawnDrain, SubmitTask, CallTo, CallPcs
  <2>3. CloseStages
    <3>1. \A x \in Msg : callPc'[x] = "new" => callPc[x] = "new"
          BY <1>0, <2>2
    <3> QED BY <1>a, <3>1
  <2>4. ~PoolCancelled
        BY <2>1, <2>3
  <2>5. \A x \in Msg : Running(x)' => host'[x] \in {"pool", "goroutine"}
        BY <1>0, <1>2, <2>3 DEF Handover, TrySubmitOk, TrySubmitFails, SubmitChecksContext,
           SubmitSends, SubmitCancelled, SpawnDrain, SubmitTask, CallTo
  <2> QED BY <2>1, <2>4, <2>5
<1>3. ASSUME NEW m \in Msg, FinishSignal(m) PROVE CloseStages'
  <2>1. CloseStages
        BY <1>a, <1>3 DEF FinishSignal, seqVars, histVars
  <2> QED BY <1>0, <1>3, <2>1 DEF FinishSignal
<1>4. ASSUME NEW d \in Msg, DrainStep(d) PROVE CloseStages'
  <2>1. Running(d) /\ UNCHANGED <<callPc, host, signal, closePc>>
        BY <1>4 DEF DrainStep, WorkerTakesTask, DrainPops, DrainEnds,
           StartCallback, FinishCallback
  <2>2. \A x \in Msg : Running(x)' => Running(x)
        BY <1>0, <1>4, <2>1 DEF DrainStep, WorkerTakesTask, DrainPops, DrainEnds,
           StartCallback, FinishCallback, AfterCallback, DrainTo
  <2>3. CloseStages
        BY <1>a, <2>1
  <2> QED BY <2>1, <2>2, <2>3
<1>5. CASE Close
  <2>1. UNCHANGED <<callPc, drain, host, signal>>
        BY <1>5 DEF Close, CloseBegins, CloseStopsPool, CloseJoinsPool, CloseWaits, CloseTo
  <2>2. DetachedIdle
        BY <2>1 DEF DetachedIdle
  <2>3. CloseStages
        BY <2>2 DEF CloseInv
  <2> QED BY <1>0, <1>5, <2>1, <2>2, <2>3 DEF Close, CloseBegins, CloseStopsPool,
         CloseJoinsPool, CloseWaits, CloseTo, DetachedIdle
<1>6. CASE UNCHANGED vars
  <2>1. UNCHANGED <<callPc, drain, host, signal, closePc>>
        BY <1>6 DEF vars
  <2>2. CloseStages
        BY <2>1 DEF CloseInv, DetachedIdle
  <2> QED BY <2>1, <2>2
<1> QED BY <1>1, <1>2, <1>3, <1>4, <1>5, <1>6 DEF Next

\* As long as only goroutines that Close joins have enqueued, Close returns
\* only after all accepted messages have been delivered and all callbacks have
\* ended.
THEOREM CloseWaitsForJoined == Spec => []CloseWaitsForCallbacks
<1>1. Init => CloseInv
      BY DEF Init, CloseInv, CloseStages, PoolCancelled, Running
<1>2. TypeOK /\ CloseInv /\ [Next]_vars => CloseInv'
      BY CloseStep
<1>3. IInv /\ CloseInv => CloseWaitsForCallbacks
  <2> SUFFICES ASSUME IInv, CloseInv, closePc = "closed", DetachedIdle
               PROVE  /\ Len(started) = Len(accepted)
                      /\ \A m \in Msg : drain[m] # "exec" /\ signal[m] # "running"
      BY DEF CloseWaitsForCallbacks
  <2>1. \A m \in Msg : ~Running(m) /\ ~InEnqueue(m) /\ signal[m] # "running"
        BY DEF CloseInv, CloseStages, PoolCancelled, PoolDrained, CallbackWgZero
  <2>2. queue = <<>>
        BY <2>1 DEF IInv, Ownership, Owner
  <2>3. ~Popped
        BY <2>1 DEF Popped, Running
  <2>4. Len(started) = Len(accepted)
    <3>1. Len(accepted) = Len(started) + 0 + 0
          BY <2>2, <2>3 DEF IInv, Conservation
    <3>2. Len(started) \in Nat
          BY DEF IInv, TypeOK
    <3> QED BY <3>1, <3>2
  <2> QED BY <2>1, <2>4 DEF Running
<1> QED BY <1>1, <1>2, <1>3, Invariance, TypeCorrect, PTL DEF Spec
=============================================================================
