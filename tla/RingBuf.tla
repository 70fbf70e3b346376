------------------------------- MODULE RingBuf -------------------------------
(***************************************************************************)
(* pendingCallbackRing (ringbuf.go): the circular buffer behind a          *)
(* subscription's callback queue.  It is initialised on the first push     *)
(* (sequencer.go:41-43), with a fixed capacity when the queue is limited   *)
(* and growing by doubling otherwise.  All calls are made under the        *)
(* sequencer's lock, so each is one step.                                  *)
(*                                                                         *)
(* A slice is its length and a function on its indices.  The fields of a   *)
(* pendingCallback are one item; Zero is the zero value.                   *)
(***************************************************************************)
EXTENDS Integers, Sequences

CONSTANTS
  Items,        \* the callbacks that may be queued
  Zero,         \* pendingCallback{}
  Limits,       \* the values of maxQueueSize to consider, 0 for unlimited
  InitialCap,   \* ringBufInitialCap (16 in the code)
  MaxCap        \* bound on the capacity a growable ring reaches

ASSUME RingBufAssumption ==
  /\ Zero \notin Items
  /\ Limits \subseteq Nat
  /\ InitialCap \in Nat \ {0} /\ MaxCap \in Nat

VARIABLES
  buf, cap,     \* r.buf and len(r.buf); cap is 0 while r.buf is nil
  head, tail, count, fixed,
  limit,        \* s.maxQueueSize of the sequencer
  result        \* what the last call returned

vars == <<buf, cap, head, tail, count, fixed, limit, result>>

ring == <<buf, cap, head, tail, count, fixed>>

Indices(n) == 0..(n - 1)

Init ==
  /\ buf = [i \in {} |-> Zero] /\ cap = 0
  /\ head = 0 /\ tail = 0 /\ count = 0 /\ fixed = FALSE
  /\ limit \in Limits
  /\ result = <<"new">>

\* initRing, called by the first enqueue.
InitRing ==
  LET size == IF limit > 0 THEN limit ELSE InitialCap
  IN  /\ cap = 0
      /\ buf' = [i \in Indices(size) |-> Zero]
      /\ cap' = size
      /\ fixed' = (limit > 0)
      /\ head' = 0 /\ tail' = 0 /\ count' = 0
      /\ UNCHANGED <<limit, result>>

\* Mutant: the slots are copied where they are, not from head on.
Regrown_StorageOrder == [i \in Indices(2 * cap) |-> IF i < cap THEN buf[i] ELSE Zero]

\* grow: head..tail, or head..end and then 0..tail, copied to the front.
Regrown ==
  IF head < tail
    THEN [i \in Indices(2 * cap) |-> IF i < tail - head THEN buf[head + i] ELSE Zero]
    ELSE [i \in Indices(2 * cap) |->
            IF i < cap - head THEN buf[head + i]
            ELSE IF i < cap - head + tail THEN buf[i - (cap - head)]
            ELSE Zero]

\* The rest of push on a buffer b of length n with the tail at t.
Put(x, b, n, t) ==
  /\ buf' = [b EXCEPT ![t] = x]
  /\ cap' = n
  /\ tail' = (t + 1) % n
  /\ count' = count + 1
  /\ result' = <<"push", TRUE>>
  /\ UNCHANGED <<fixed, limit>>

Push(x) ==
  /\ cap > 0 /\ count < cap
  /\ Put(x, buf, cap, tail)
  /\ UNCHANGED head

PushGrows(x) ==
  /\ cap > 0 /\ count = cap /\ ~fixed
  /\ 2 * cap <= MaxCap
  /\ Put(x, Regrown, 2 * cap, count)
  /\ head' = 0

PushRefused ==
  /\ cap > 0 /\ count = cap /\ fixed
  /\ result' = <<"push", FALSE>>
  /\ UNCHANGED <<ring, limit>>

\* Mutant: the vacated slot keeps its item.
Pop_KeepsItem ==
  /\ count > 0
  /\ result' = <<"pop", buf[head]>>
  /\ head' = (head + 1) % cap
  /\ count' = count - 1
  /\ UNCHANGED <<buf, cap, tail, fixed, limit>>

Pop ==
  /\ count > 0
  /\ result' = <<"pop", buf[head]>>
  /\ buf' = [buf EXCEPT ![head] = Zero]
  /\ head' = (head + 1) % cap
  /\ count' = count - 1
  /\ UNCHANGED <<cap, tail, fixed, limit>>

PopEmpty ==
  /\ count = 0
  /\ result' = <<"pop", Zero>>
  /\ UNCHANGED <<ring, limit>>

Next ==
  \/ InitRing
  \/ \E x \in Items : Push(x) \/ PushGrows(x)
  \/ PushRefused \/ Pop \/ PopEmpty

Spec == Init /\ [][Next]_vars

-----------------------------------------------------------------------------
(* Properties *)

\* Where the i-th oldest item is, i from 0.
Slot(i) == IF head + i < cap THEN head + i ELSE head + i - cap

Contents == [i \in 1..count |-> buf[Slot(i - 1)]]

\* The fields of the ring are in range, whatever its mode.
TypeOK ==
  /\ cap \in Nat /\ count \in 0..cap
  /\ buf \in [Indices(cap) -> Items \cup {Zero}]
  /\ head \in Nat /\ tail \in Nat /\ (cap > 0 => head < cap /\ tail < cap)
  /\ (cap = 0 => head = 0 /\ tail = 0 /\ ~fixed)
  /\ fixed \in BOOLEAN /\ limit \in Limits
  /\ cap > 0 => (fixed <=> limit > 0) /\ (fixed => cap = limit)

\* The occupied slots are the count slots from head on, cyclically: tail is
\* where they end, each holds a queued item, and every other slot is the zero
\* value, so that no delivered message stays reachable (ringbuf.go:50-60).
OccupiedExactly ==
  cap > 0 =>
    /\ tail = (IF head + count < cap THEN head + count ELSE head + count - cap)
    /\ \A k \in Indices(cap) :
         buf[k] # Zero <=> \E i \in Indices(count) : k = Slot(i)

\* The ring is a FIFO queue with the limit it was initialised with: push, grow,
\* wrap-around and pop together never lose, repeat, reorder or refuse an item
\* they should not (ringbuf.go:34-80).
Fifo == INSTANCE FifoQueue WITH queue <- Contents

ImplementsFifo == Fifo!FifoSpec

=============================================================================
