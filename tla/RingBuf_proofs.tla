--------------------------- MODULE RingBuf_proofs ---------------------------
(***************************************************************************)
(* For any items, limits and initial capacity, and however far the ring    *)
(* grows: its fields stay in range, the occupied slots are exactly the     *)
(* count slots from head on, and the ring implements the FIFO queue.       *)
(***************************************************************************)
EXTENDS RingBuf, SequenceTheorems, TLAPS

\* What the modulo of push and pop does to an index of the buffer.
LEMMA Wrap ==
  ASSUME NEW n \in Nat, n > 0, NEW t \in Nat, t < n
  PROVE  (t + 1) % n = IF t + 1 = n THEN 0 ELSE t + 1
  OBVIOUS

\* How far slot k is behind head h in a buffer of length c.
Offset(k, h, c) == IF k >= h THEN k - h ELSE k - h + c

\* The slots that the quantifier of OccupiedExactly describes are those whose
\* offset is less than the count.
LEMMA OffsetOccupied ==
  ASSUME NEW c \in Nat, NEW h \in Nat, h < c, NEW n \in 0..c, NEW k \in Indices(c)
  PROVE  (\E i \in Indices(n) : k = IF h + i < c THEN h + i ELSE h + i - c)
           <=> Offset(k, h, c) < n
<1>1. ASSUME NEW i \in Indices(n), k = IF h + i < c THEN h + i ELSE h + i - c
      PROVE  Offset(k, h, c) < n
  BY <1>1 DEF Offset, Indices
<1>2. ASSUME Offset(k, h, c) < n
      PROVE  \E i \in Indices(n) : k = IF h + i < c THEN h + i ELSE h + i - c
  <2>1. Offset(k, h, c) \in Indices(n)
    BY <1>2 DEF Offset, Indices
  <2>2. k = IF h + Offset(k, h, c) < c THEN h + Offset(k, h, c) ELSE h + Offset(k, h, c) - c
    BY DEF Offset, Indices
  <2>3. QED  BY <2>1, <2>2
<1>3. QED  BY <1>1, <1>2

\* The occupied slots without a quantifier over offsets.
Ends == tail = (IF head + count < cap THEN head + count ELSE head + count - cap)
Filled == \A k \in Indices(cap) : buf[k] # Zero <=> Offset(k, head, cap) < count
Occupied == cap > 0 => Ends /\ Filled

LEMMA OccupiedIsExact == TypeOK => (Occupied <=> OccupiedExactly)
<1> SUFFICES ASSUME TypeOK, cap > 0 PROVE Occupied <=> OccupiedExactly
  BY DEF Occupied, OccupiedExactly
<1>1. \A k \in Indices(cap) :
        (\E i \in Indices(count) : k = Slot(i)) <=> Offset(k, head, cap) < count
  BY OffsetOccupied DEF TypeOK, Slot
<1>2. QED  BY <1>1 DEF Occupied, OccupiedExactly, Ends, Filled

-----------------------------------------------------------------------------
(* Every step keeps the fields in range *)

IInv == TypeOK /\ Occupied

LEMMA InitIInv == Init => IInv
<1> SUFFICES ASSUME Init PROVE IInv
  OBVIOUS
<1>1. Indices(cap) = {} /\ cap \in Nat /\ count \in 0..cap /\ head \in Nat /\ tail \in Nat
      /\ ~(cap > 0) /\ head = 0 /\ tail = 0
  BY DEF Init, Indices
<1>2. buf \in [Indices(cap) -> Items \cup {Zero}]
  BY <1>1 DEF Init
<1>3. fixed \in BOOLEAN /\ ~fixed /\ limit \in Limits
  BY DEF Init
<1>4. QED  BY <1>1, <1>2, <1>3 DEF IInv, TypeOK, Occupied

LEMMA InitRingIInv == IInv /\ InitRing => IInv'
<1> SUFFICES ASSUME IInv, InitRing PROVE IInv'
  OBVIOUS
<1> USE RingBufAssumption
<1>1. /\ cap' \in Nat /\ cap' > 0 /\ (limit > 0 => cap' = limit)
      /\ (fixed' <=> limit > 0) /\ fixed' \in BOOLEAN
  <2>1. limit \in Nat /\ cap' = IF limit > 0 THEN limit ELSE InitialCap
    BY DEF InitRing, IInv, TypeOK
  <2>2. fixed' = (limit > 0)
    BY DEF InitRing
  <2>3. cap' \in Nat /\ cap' > 0 /\ (limit > 0 => cap' = limit)
    BY <2>1
  <2>4. ASSUME limit > 0 PROVE fixed' = TRUE
    BY <2>2, <2>4, Zenon
  <2>5. (limit > 0) \in BOOLEAN
    BY <2>1
  <2>6. ASSUME ~(limit > 0) PROVE fixed' = FALSE
    BY <2>2, <2>5, <2>6, Zenon
  <2>7. QED  BY <2>3, <2>4, <2>6
<1>2. buf' = [i \in Indices(cap') |-> Zero]
  BY DEF InitRing
<1>3. TypeOK'
  BY <1>1, <1>2 DEF InitRing, IInv, TypeOK
<1>4. Occupied'
  BY <1>1, <1>2 DEF InitRing, Occupied, Ends, Filled, Offset, Indices
<1>5. QED  BY <1>3, <1>4 DEF IInv

LEMMA PushIInv == \A x \in Items : IInv /\ Push(x) => IInv'
<1> SUFFICES ASSUME NEW x \in Items, IInv, Push(x) PROVE IInv'
  OBVIOUS
<1> USE RingBufAssumption
<1>1. tail' = IF tail + 1 = cap THEN 0 ELSE tail + 1
  BY Wrap DEF Push, Put, IInv, TypeOK
<1>2. /\ cap' = cap /\ head' = head /\ count' = count + 1 /\ count < cap /\ cap > 0
      /\ fixed' = fixed /\ limit' = limit /\ buf' = [buf EXCEPT ![tail] = x]
  BY DEF Push, Put
<1>3. TypeOK'
  BY <1>1, <1>2 DEF IInv, TypeOK, Indices
<1>4. Ends'
  BY <1>1, <1>2 DEF IInv, TypeOK, Occupied, Ends
<1>5. Filled'
  <2> SUFFICES ASSUME NEW k \in Indices(cap)
               PROVE  buf'[k] # Zero <=> Offset(k, head, cap) < count + 1
    BY <1>2 DEF Filled
  <2>1. k = tail <=> Offset(k, head, cap) = count
    BY <1>2 DEF IInv, TypeOK, Occupied, Ends, Offset, Indices
  <2>2. buf[k] # Zero <=> Offset(k, head, cap) < count
    BY <1>2 DEF IInv, Occupied, Filled
  <2>3. Offset(k, head, cap) \in Int /\ count \in Int
    BY DEF IInv, TypeOK, Offset, Indices
  <2>4. buf'[k] = IF k = tail THEN x ELSE buf[k]
    BY <1>2 DEF IInv, TypeOK
  <2>5. QED  BY <2>1, <2>2, <2>3, <2>4
<1>6. QED  BY <1>3, <1>4, <1>5 DEF IInv, Occupied

\* A full buffer has its tail at its head.
LEMMA FullMeets ==
  ASSUME IInv, cap > 0, count = cap
  PROVE  tail = head
  BY DEF IInv, TypeOK, Occupied, Ends

\* Growing puts the oldest item first and leaves the second half empty.
LEMMA RegrownIs ==
  ASSUME IInv, cap > 0, count = cap
  PROVE  Regrown = [i \in Indices(2 * cap) |-> IF i < cap THEN buf[Slot(i)] ELSE Zero]
<1>1. ~(head < tail)
  BY FullMeets DEF IInv, TypeOK
<1>2. Regrown = [i \in Indices(2 * cap) |->
            IF i < cap - head THEN buf[head + i]
            ELSE IF i < cap - head + tail THEN buf[i - (cap - head)]
            ELSE Zero]
  BY <1>1 DEF Regrown
<1>3. \A i \in Indices(2 * cap) :
        (IF i < cap - head THEN buf[head + i]
            ELSE IF i < cap - head + tail THEN buf[i - (cap - head)]
            ELSE Zero) = IF i < cap THEN buf[Slot(i)] ELSE Zero
  <2> SUFFICES ASSUME NEW i \in Indices(2 * cap)
               PROVE  (IF i < cap - head THEN buf[head + i]
                         ELSE IF i < cap - head + tail THEN buf[i - (cap - head)]
                         ELSE Zero) = IF i < cap THEN buf[Slot(i)] ELSE Zero
    OBVIOUS
  <2>1. cap \in Nat /\ head \in Nat /\ tail = head /\ i \in Int /\ head < cap
    BY FullMeets DEF IInv, TypeOK, Indices
  <2>2. i < cap - head => head + i < cap /\ i < cap
    BY <2>1
  <2>3. ~(i < cap - head) => i - (cap - head) = head + i - cap /\ ~(head + i < cap)
    BY <2>1
  <2>4. i < cap - head + tail <=> i < cap
    BY <2>1
  <2>5. QED  BY <2>2, <2>3, <2>4 DEF Slot
<1>4. QED  BY <1>2, <1>3

LEMMA PushGrowsIInv == \A x \in Items : IInv /\ PushGrows(x) => IInv'
<1> SUFFICES ASSUME NEW x \in Items, IInv, PushGrows(x) PROVE IInv'
  OBVIOUS
<1> USE RingBufAssumption
<1>1. /\ cap \in Nat /\ cap > 0 /\ count = cap /\ ~fixed /\ cap' = 2 * cap /\ head' = 0
      /\ count' = cap + 1 /\ fixed' = fixed /\ limit' = limit
      /\ buf' = [Regrown EXCEPT ![cap] = x]
  BY DEF PushGrows, Put, IInv, TypeOK
<1>2. cap \in Indices(2 * cap) /\ \A i \in Indices(cap) : Slot(i) \in Indices(cap)
  BY <1>1 DEF IInv, TypeOK, Slot, Indices
<1>3. tail' = IF cap + 1 = 2 * cap THEN 0 ELSE cap + 1
  <2>1. tail' = (cap + 1) % (2 * cap)
    BY <1>1 DEF PushGrows, Put
  <2>2. 2 * cap \in Nat /\ 2 * cap > 0 /\ cap < 2 * cap
    BY <1>1
  <2>3. QED  BY <1>1, <2>1, <2>2, Wrap
<1>4. Regrown = [i \in Indices(2 * cap) |-> IF i < cap THEN buf[Slot(i)] ELSE Zero]
  BY <1>1, RegrownIs
<1>5. \A i \in Indices(2 * cap) :
        buf'[i] = IF i = cap THEN x ELSE IF i < cap THEN buf[Slot(i)] ELSE Zero
  BY <1>1, <1>2, <1>4
<1>6. \A i \in Indices(cap) : buf[Slot(i)] \in Items \cup {Zero} /\ buf[Slot(i)] # Zero
  <2> SUFFICES ASSUME NEW i \in Indices(cap)
               PROVE  buf[Slot(i)] \in Items \cup {Zero} /\ buf[Slot(i)] # Zero
    OBVIOUS
  <2>1. Slot(i) \in Indices(cap)
    BY <1>2
  <2>2. Offset(Slot(i), head, cap) < count
    BY <1>1, <2>1 DEF Offset, IInv, TypeOK, Indices
  <2>3. QED  BY <1>1, <2>1, <2>2 DEF IInv, TypeOK, Occupied, Filled
<1>7. buf' \in [Indices(2 * cap) -> Items \cup {Zero}]
  <2>1. \A i \in Indices(2 * cap) : i < cap => i \in Indices(cap)
    BY <1>1 DEF Indices
  <2>2. \A i \in Indices(2 * cap) : buf'[i] \in Items \cup {Zero}
    BY <1>5, <1>6, <2>1
  <2>3. buf' = [i \in Indices(2 * cap) |-> buf'[i]]
    BY <1>1, <1>4
  <2>4. QED  BY <2>2, <2>3
<1>8. TypeOK'
  <2>1. cap' \in Nat /\ count' \in 0..cap' /\ tail' \in Nat /\ tail' < cap' /\ head' < cap' /\ cap' # 0
    BY <1>1, <1>3
  <2>2. QED  BY <1>1, <1>7, <2>1 DEF TypeOK, IInv
<1>9. Ends'
  BY <1>1, <1>3 DEF Ends
<1>10. Filled'
  <2> SUFFICES ASSUME NEW k \in Indices(2 * cap)
               PROVE  buf'[k] # Zero <=> Offset(k, 0, 2 * cap) < cap + 1
    BY <1>1 DEF Filled
  <2>1. Offset(k, 0, 2 * cap) = k /\ k \in Int /\ (k < cap => k \in Indices(cap))
    BY <1>1 DEF Offset, Indices
  <2>2. k < cap + 1 <=> k < cap \/ k = cap
    BY <1>1, <2>1
  <2>3. k < cap => k # cap
    BY <1>1, <2>1
  <2>4. QED  BY <1>5, <1>6, <2>1, <2>2, <2>3
<1>11. QED  BY <1>8, <1>9, <1>10 DEF IInv, Occupied

LEMMA PopIInv == IInv /\ Pop => IInv'
<1> SUFFICES ASSUME IInv, Pop PROVE IInv'
  OBVIOUS
<1> USE RingBufAssumption
<1>1. /\ cap' = cap /\ tail' = tail /\ count' = count - 1 /\ count > 0 /\ cap > 0
      /\ fixed' = fixed /\ limit' = limit /\ buf' = [buf EXCEPT ![head] = Zero]
  BY DEF Pop, IInv, TypeOK
<1>2. head' = IF head + 1 = cap THEN 0 ELSE head + 1
  BY <1>1, Wrap DEF Pop, IInv, TypeOK
<1>3. TypeOK'
  BY <1>1, <1>2 DEF IInv, TypeOK, Indices
<1>4. Ends'
  BY <1>1, <1>2 DEF IInv, TypeOK, Occupied, Ends
<1>5. Filled'
  <2> SUFFICES ASSUME NEW k \in Indices(cap)
               PROVE  buf'[k] # Zero <=> Offset(k, head', cap) < count - 1
    BY <1>1 DEF Filled
  <2>1. k # head => Offset(k, head', cap) = Offset(k, head, cap) - 1
    BY <1>1, <1>2 DEF IInv, TypeOK, Offset, Indices
  <2>2. k = head => Offset(k, head', cap) = cap - 1
    BY <1>1, <1>2 DEF IInv, TypeOK, Offset, Indices
  <2>3. buf[k] # Zero <=> Offset(k, head, cap) < count
    BY <1>1 DEF IInv, Occupied, Filled
  <2>4. Offset(k, head, cap) \in Int /\ count \in Int /\ count <= cap /\ cap \in Int
    BY DEF IInv, TypeOK, Offset, Indices
  <2>5. buf'[k] = IF k = head THEN Zero ELSE buf[k]
    BY <1>1 DEF IInv, TypeOK
  <2>6. QED  BY <2>1, <2>2, <2>3, <2>4, <2>5
<1>6. QED  BY <1>3, <1>4, <1>5 DEF IInv, Occupied

LEMMA NextIInv == IInv /\ [Next]_vars => IInv'
<1> SUFFICES ASSUME IInv, [Next]_vars PROVE IInv'
  OBVIOUS
<1>1. ASSUME UNCHANGED <<ring, limit>> PROVE IInv'
  BY <1>1 DEF ring, IInv, TypeOK, Occupied, Ends, Filled
<1>2. CASE UNCHANGED vars
  BY <1>1, <1>2 DEF vars, ring
<1>3. CASE PushRefused \/ PopEmpty
  BY <1>1, <1>3 DEF PushRefused, PopEmpty
<1>4. QED
  BY <1>2, <1>3, InitRingIInv, PushIInv, PushGrowsIInv, PopIInv DEF Next

\* The fields of the ring are in range in every state.
THEOREM TypeCorrect == Spec => []TypeOK
<1>1. IInv => TypeOK
  BY DEF IInv
<1>2. QED  BY InitIInv, NextIInv, <1>1, PTL DEF Spec

\* The occupied slots are the count slots from head on, and every vacated slot
\* is the zero value.
THEOREM RingOccupiesExactly == Spec => []OccupiedExactly
<1>1. IInv => OccupiedExactly
  BY OccupiedIsExact DEF IInv
<1>2. QED  BY InitIInv, NextIInv, <1>1, PTL DEF Spec

-----------------------------------------------------------------------------
(* The ring implements the queue *)

LEMMA ContentsSeq ==
  ASSUME IInv
  PROVE  /\ Contents \in Seq(Items \cup {Zero}) /\ Len(Contents) = count /\ count \in Nat
         /\ \A i \in 1..count : Contents[i] = buf[Slot(i - 1)]
<1>1. count \in Nat
  BY DEF IInv, TypeOK
<1>2. \A i \in 1..count : Slot(i - 1) \in Indices(cap)
  BY DEF IInv, TypeOK, Slot, Indices
<1>3. \A i \in 1..count : buf[Slot(i - 1)] \in Items \cup {Zero}
  BY <1>2 DEF IInv, TypeOK
<1>4. QED  BY <1>1, <1>3 DEF Contents

\* Append and Tail as functions on the positions.
LEMMA AppendIs ==
  ASSUME NEW S, NEW s \in Seq(S), NEW x \in S, NEW t \in [1..(Len(s) + 1) -> S],
         \A i \in 1..Len(s) : t[i] = s[i], t[Len(s) + 1] = x
  PROVE  t = Append(s, x)
<1>1. Append(s, x) \in [1..(Len(s) + 1) -> S] /\ Len(s) \in Nat
  BY AppendProperties, LenProperties
<1>2. \A i \in 1..(Len(s) + 1) : i = Len(s) + 1 \/ i \in 1..Len(s)
  BY <1>1
<1>3. \A i \in 1..(Len(s) + 1) : Append(s, x)[i] = t[i]
  BY <1>2, AppendProperties
<1>4. QED  BY <1>1, <1>3

LEMMA TailIs ==
  ASSUME NEW S, NEW s \in Seq(S), s # <<>>, NEW n, n = Len(s) - 1,
         NEW t, t = [i \in 1..n |-> s[i + 1]]
  PROVE  t = Tail(s)
<1>1. Tail(s) \in [1..n -> S]
  BY HeadTailProperties, LenProperties
<1>2. \A i \in 1..n : Tail(s)[i] = t[i]
  BY HeadTailProperties
<1>3. QED  BY <1>1, <1>2

LEMMA InitFifo == Init => Fifo!FifoInit
<1> SUFFICES ASSUME Init PROVE Fifo!FifoInit
  OBVIOUS
<1>1. Contents = <<>>
  BY DEF Init, Contents
<1>2. QED  BY <1>1, RingBufAssumption DEF Init, Fifo!FifoInit

LEMMA PushFifo == \A x \in Items : IInv /\ Push(x) => Fifo!FifoPush(x)
<1> SUFFICES ASSUME NEW x \in Items, IInv, Push(x) PROVE Fifo!FifoPush(x)
  OBVIOUS
<1>1. IInv'
  BY PushIInv
<1>2. /\ cap' = cap /\ head' = head /\ count' = count + 1 /\ count < cap /\ cap > 0
      /\ limit' = limit /\ result' = <<"push", TRUE>> /\ buf' = [buf EXCEPT ![tail] = x]
  BY DEF Push, Put
<1>3. limit = 0 \/ count < limit
  BY <1>2, RingBufAssumption DEF IInv, TypeOK
<1>4. \A i \in 1..(count + 1) : Slot(i - 1)' = Slot(i - 1) /\ Slot(i - 1) \in Indices(cap)
  BY <1>2 DEF Slot, IInv, TypeOK, Indices
<1>5. Slot(count) = tail /\ \A i \in 1..count : Slot(i - 1) # tail
  BY <1>2 DEF Slot, IInv, TypeOK, Occupied, Ends
<1>6. \A i \in 1..(count + 1) : buf'[Slot(i - 1)] = IF i = count + 1 THEN x ELSE buf[Slot(i - 1)]
  BY <1>2, <1>4, <1>5 DEF IInv, TypeOK
<1>7. Contents' = [i \in 1..(count + 1) |-> IF i = count + 1 THEN x ELSE Contents[i]]
  <2>1. \A i \in 1..(count + 1) : i # count + 1 => i \in 1..count
    BY ContentsSeq
  <2>2. \A i \in 1..(count + 1) :
          buf'[Slot(i - 1)'] = IF i = count + 1 THEN x ELSE Contents[i]
    BY <1>4, <1>6, <2>1, ContentsSeq
  <2>3. Contents' = [i \in 1..(count + 1) |-> buf'[Slot(i - 1)']]
    BY <1>2 DEF Contents
  <2>4. QED  BY <2>2, <2>3
<1>8. Contents' = Append(Contents, x)
  <2>1. Contents \in Seq(Items \cup {Zero}) /\ Len(Contents) = count /\ count \in Nat
    BY ContentsSeq
  <2>2. \A i \in 1..count : Contents[i] \in Items \cup {Zero} /\ i # count + 1
    BY <2>1, ElementOfSeq
  <2>3. \A i \in 1..(count + 1) : i = count + 1 \/ i \in 1..count
    BY <2>1
  <2>4. Contents' \in [1..(count + 1) -> Items \cup {Zero}]
    BY <1>7, <2>2, <2>3
  <2>5. (\A i \in 1..count : Contents'[i] = Contents[i]) /\ Contents'[count + 1] = x
    BY <1>7, <2>1, <2>2
  <2>6. QED  BY <2>1, <2>4, <2>5, AppendIs
<1>9. QED  BY <1>2, <1>3, <1>8, ContentsSeq DEF Fifo!FifoPush

LEMMA PushGrowsFifo == \A x \in Items : IInv /\ PushGrows(x) => Fifo!FifoPush(x)
<1> SUFFICES ASSUME NEW x \in Items, IInv, PushGrows(x) PROVE Fifo!FifoPush(x)
  OBVIOUS
<1>1. /\ cap \in Nat /\ cap > 0 /\ count = cap /\ ~fixed /\ cap' = 2 * cap /\ head' = 0
      /\ count' = cap + 1 /\ limit' = limit /\ result' = <<"push", TRUE>>
      /\ buf' = [Regrown EXCEPT ![cap] = x]
  BY DEF PushGrows, Put, IInv, TypeOK
<1>2. limit = 0
  BY <1>1, RingBufAssumption DEF IInv, TypeOK
<1>3. \A i \in 1..(cap + 1) : /\ Slot(i - 1)' = i - 1
                              /\ i - 1 \in Indices(2 * cap) /\ (i # cap + 1 => i - 1 < cap)
  BY <1>1 DEF Slot, Indices
<1>4. \A i \in Indices(2 * cap) :
        buf'[i] = IF i = cap THEN x ELSE IF i < cap THEN buf[Slot(i)] ELSE Zero
  BY <1>1, RegrownIs DEF Indices
<1>5. Contents' = [i \in 1..(count + 1) |-> IF i = count + 1 THEN x ELSE Contents[i]]
  <2>1. \A i \in 1..(cap + 1) : /\ i # cap + 1 => i \in 1..cap
                                /\ i = cap + 1 <=> i - 1 = cap
    BY <1>1
  <2>2. \A i \in 1..(cap + 1) :
          buf'[Slot(i - 1)'] = IF i = cap + 1 THEN x ELSE Contents[i]
    BY <1>1, <1>3, <1>4, <2>1, ContentsSeq
  <2>3. Contents' = [i \in 1..(cap + 1) |-> buf'[Slot(i - 1)']]
    BY <1>1 DEF Contents
  <2>4. QED  BY <1>1, <2>2, <2>3
<1>6. Contents' = Append(Contents, x)
  <2>1. Contents \in Seq(Items \cup {Zero}) /\ Len(Contents) = count /\ count \in Nat
    BY ContentsSeq
  <2>2. \A i \in 1..count : Contents[i] \in Items \cup {Zero} /\ i # count + 1
    BY <2>1, ElementOfSeq
  <2>3. \A i \in 1..(count + 1) : i = count + 1 \/ i \in 1..count
    BY <2>1
  <2>4. Contents' \in [1..(count + 1) -> Items \cup {Zero}]
    BY <1>5, <2>2, <2>3
  <2>5. (\A i \in 1..count : Contents'[i] = Contents[i]) /\ Contents'[count + 1] = x
    BY <1>5, <2>1, <2>2
  <2>6. QED  BY <2>1, <2>4, <2>5, AppendIs
<1>7. QED  BY <1>1, <1>2, <1>6 DEF Fifo!FifoPush

LEMMA PopFifo == IInv /\ Pop => Fifo!FifoPop
<1> SUFFICES ASSUME IInv, Pop PROVE Fifo!FifoPop
  OBVIOUS
<1>1. /\ cap' = cap /\ count' = count - 1 /\ count > 0 /\ cap > 0 /\ limit' = limit
      /\ buf' = [buf EXCEPT ![head] = Zero] /\ result' = <<"pop", buf[head]>>
  BY DEF Pop, IInv, TypeOK
<1>2. head' = IF head + 1 = cap THEN 0 ELSE head + 1
  BY <1>1, Wrap DEF Pop, IInv, TypeOK
<1>3. \A i \in 1..(count - 1) : /\ Slot(i - 1)' = Slot(i) /\ Slot(i) \in Indices(cap)
                                /\ Slot(i) # head
  BY <1>1, <1>2 DEF Slot, IInv, TypeOK, Indices
<1>4. \A i \in 1..(count - 1) : i + 1 \in 1..count /\ (i + 1) - 1 = i
  BY ContentsSeq
<1>5. Contents' = [i \in 1..(count - 1) |-> Contents[i + 1]]
  <2>1. \A i \in 1..(count - 1) : buf'[Slot(i - 1)'] = buf[Slot(i)]
    BY <1>1, <1>3 DEF IInv, TypeOK
  <2>2. \A i \in 1..(count - 1) : Contents[i + 1] = buf[Slot(i)]
    BY <1>4, ContentsSeq
  <2>3. Contents' = [i \in 1..(count - 1) |-> buf'[Slot(i - 1)']]
    BY <1>1 DEF Contents
  <2>4. QED  BY <2>1, <2>2, <2>3
<1>6. Contents # <<>>
  BY <1>1, ContentsSeq
<1>7. Contents' = Tail(Contents)
  BY <1>5, <1>6, ContentsSeq, TailIs
<1>8. Head(Contents) = buf[head]
  <2>1. Slot(1 - 1) = head /\ 1 \in 1..count
    BY <1>1 DEF Slot, IInv, TypeOK
  <2>2. Head(Contents) = Contents[1]
    BY <1>6, ContentsSeq
  <2>3. QED  BY <2>1, <2>2, ContentsSeq
<1>9. QED  BY <1>1, <1>6, <1>7, <1>8 DEF Fifo!FifoPop

LEMMA RestFifo ==
  ASSUME IInv
  PROVE  /\ InitRing => UNCHANGED Fifo!fifoVars
         /\ PushRefused => Fifo!FifoRefuse
         /\ PopEmpty => Fifo!FifoEmpty
         /\ UNCHANGED vars => UNCHANGED Fifo!fifoVars
<1>1. ASSUME InitRing PROVE UNCHANGED Fifo!fifoVars
  <2>1. count = 0 /\ count' = 0 /\ limit' = limit /\ result' = result
    BY <1>1 DEF InitRing, IInv, TypeOK
  <2>2. Contents = <<>> /\ Contents' = <<>>
    BY <2>1 DEF Contents
  <2>3. QED  BY <2>1, <2>2 DEF Fifo!fifoVars
<1>2. ASSUME UNCHANGED ring PROVE Contents' = Contents
  BY <1>2 DEF ring, Contents, Slot
<1>3. ASSUME PushRefused PROVE Fifo!FifoRefuse
  <2>1. limit # 0 /\ count = limit
    BY <1>3, RingBufAssumption DEF PushRefused, IInv, TypeOK
  <2>2. QED  BY <1>2, <1>3, <2>1, ContentsSeq DEF PushRefused, Fifo!FifoRefuse
<1>4. ASSUME PopEmpty PROVE Fifo!FifoEmpty
  <2>1. Contents = <<>>
    BY <1>4 DEF PopEmpty, Contents
  <2>2. QED  BY <1>2, <1>4, <2>1 DEF PopEmpty, Fifo!FifoEmpty
<1>5. ASSUME UNCHANGED vars PROVE UNCHANGED Fifo!fifoVars
  BY <1>2, <1>5 DEF vars, ring, Fifo!fifoVars
<1>6. QED  BY <1>1, <1>3, <1>4, <1>5

\* Push, grow, wrap-around and pop together behave as the FIFO queue with the
\* limit the ring was initialised with: every step is a step of it or a stutter.
THEOREM RingImplementsFifo == Spec => ImplementsFifo
<1>1. IInv /\ [Next]_vars => [Fifo!FifoNext]_(Fifo!fifoVars)
  <2> SUFFICES ASSUME IInv, [Next]_vars PROVE [Fifo!FifoNext]_(Fifo!fifoVars)
    OBVIOUS
  <2>1. ASSUME NEW x \in Items, Push(x) \/ PushGrows(x) PROVE Fifo!FifoNext
    BY <2>1, PushFifo, PushGrowsFifo DEF Fifo!FifoNext
  <2>2. CASE Pop
    BY <2>2, PopFifo DEF Fifo!FifoNext
  <2>3. CASE PushRefused \/ PopEmpty
    BY <2>3, RestFifo DEF Fifo!FifoNext
  <2>4. CASE InitRing \/ UNCHANGED vars
    BY <2>4, RestFifo
  <2>5. QED  BY <2>1, <2>2, <2>3, <2>4 DEF Next
<1>2. QED  BY InitIInv, NextIInv, InitFifo, <1>1, PTL DEF Spec, ImplementsFifo, Fifo!FifoSpec

=============================================================================
