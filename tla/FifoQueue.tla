------------------------------ MODULE FifoQueue ------------------------------
(***************************************************************************)
(* What the pending-callback ring promises to the sequencer: a FIFO queue  *)
(* with an optional limit.  A push on a full queue is refused and changes  *)
(* nothing, a pop on an empty one reports so; an item comes out exactly as *)
(* it went in, however often the storage has wrapped around or grown.      *)
(***************************************************************************)
EXTENDS Naturals, Sequences

CONSTANTS Items, Zero

VARIABLES
  queue,    \* the items, oldest first
  limit,    \* 0 for no limit
  result    \* what the last call returned

fifoVars == <<queue, limit, result>>

FifoInit == queue = <<>> /\ limit \in Nat /\ result = <<"new">>

FifoPush(x) ==
  /\ limit = 0 \/ Len(queue) < limit
  /\ queue' = Append(queue, x)
  /\ result' = <<"push", TRUE>>
  /\ UNCHANGED limit

FifoRefuse ==
  /\ limit # 0 /\ Len(queue) = limit
  /\ result' = <<"push", FALSE>>
  /\ UNCHANGED <<queue, limit>>

FifoPop ==
  /\ queue # <<>>
  /\ result' = <<"pop", Head(queue)>>
  /\ queue' = Tail(queue)
  /\ UNCHANGED limit

FifoEmpty ==
  /\ queue = <<>>
  /\ result' = <<"pop", Zero>>
  /\ UNCHANGED <<queue, limit>>

FifoNext == (\E x \in Items : FifoPush(x)) \/ FifoRefuse \/ FifoPop \/ FifoEmpty

FifoSpec == FifoInit /\ [][FifoNext]_fifoVars

=============================================================================
