----------------------- MODULE TopologyMonitor_proofs -----------------------
(***************************************************************************)
(* The topology monitor, for any number of hashslots, nodes, refreshes and *)
(* migrations: it knows what the cluster said and never goes back, hands   *)
(* every change on, can cancel its newest migrations, and is quiet after   *)
(* stop.                                                                   *)
(***************************************************************************)
EXTENDS TopologyMonitor, FiniteSetTheorems, NaturalsInduction, TLAPS

-----------------------------------------------------------------------------
(* Sets and sequences *)

\* SetToSeq lists every member of a finite set once.
LEMMA SeqOfSet ==
  ASSUME NEW S, IsFiniteSet(S)
  PROVE  SetToSeq(S) \in Seq(S) /\ IsInjective(SetToSeq(S))
<1>1. PICK f \in Bijection(1..Cardinality(S), S) : TRUE
      BY FS_CardinalityType DEF ExistsBijection
<1>2. f \in [1..Cardinality(S) -> S] /\ IsInjective(f)
      BY <1>1 DEF Bijection, Injection, IsInjective
<1>3. SetToSeq(S) \in [1..Cardinality(S) -> S] /\ IsInjective(SetToSeq(S))
      BY <1>2 DEF SetToSeq
<1>4. Cardinality(S) \in Nat
      BY FS_CardinalityType
<1> QED BY <1>3, <1>4

\* A master and a set of other nodes make a list without repetition.
LEMMA ConsInjective ==
  ASSUME NEW S, NEW x, NEW q \in Seq(S), IsInjective(q), x \notin S
  PROVE  /\ <<x>> \o q \in Seq(S \cup {x}) /\ IsInjective(<<x>> \o q)
         /\ <<x>> \o q # <<>> /\ (<<x>> \o q)[1] = x
<1> DEFINE l == <<x>> \o q
<1>1. l \in Seq(S \cup {x}) /\ Len(l) = Len(q) + 1 /\ l[1] = x
      OBVIOUS
<1>2. \A i \in 2..Len(l) : l[i] = q[i - 1] /\ i - 1 \in 1..Len(q)
      OBVIOUS
<1>3. \A i \in DOMAIN l : i = 1 \/ i \in 2..Len(l)
      BY <1>1
<1>4. \A i \in 2..Len(l) : l[i] \in S
      BY <1>2
<1>5. ASSUME NEW i \in DOMAIN l, NEW j \in DOMAIN l, l[i] = l[j] PROVE i = j
  <2>1. CASE i = 1 \/ j = 1
        BY <1>1, <1>3, <1>4, <1>5, <2>1
  <2>2. CASE i # 1 /\ j # 1
    <3>1. i \in 2..Len(l) /\ j \in 2..Len(l)
          BY <1>3, <2>2
    <3>2. q[i - 1] = q[j - 1] /\ i - 1 \in DOMAIN q /\ j - 1 \in DOMAIN q
          BY <1>2, <1>5, <3>1
    <3>3. i - 1 = j - 1
          BY <3>2 DEF IsInjective
    <3> QED BY <3>1, <3>3
  <2> QED BY <2>1, <2>2
<1>6. IsInjective(l)
      BY <1>5 DEF IsInjective
<1> QED BY <1>1, <1>6

\* A set of naturals that is not empty has a least member.
LEMMA LeastNatural ==
  ASSUME NEW S \in SUBSET Nat, S # {}
  PROVE  \E m \in S : \A j \in S : m <= j
<1>1. PICK m \in S : \A j \in S : ~ (<<j, m>> \in OpToRel(<, Nat))
      BY WFMin, NatLessThanWellFounded
<1>2. \A j \in S : ~ (j < m)
      BY <1>1 DEF OpToRel
<1>3. \A j \in S : j \in Nat
      OBVIOUS
<1>4. \A j \in S : m <= j
      BY <1>2, <1>3
<1> QED BY <1>4

\* The number of places at which f has a value in A.
Num(S, f, A) == Cardinality({y \in S : f[y] \in A})
Put(f, x, v) == [f EXCEPT ![x] = v]
Ind(v, A) == IF v \in A THEN 1 ELSE 0

\* Writing one place of a function changes the number of places with a value in A
\* by what the old and the new value there account for.
LEMMA CountIn ==
  ASSUME NEW S, IsFiniteSet(S), NEW f, S \subseteq DOMAIN f, NEW x \in S, NEW v, NEW A
  PROVE  /\ Num(S, f, A) \in Nat
         /\ Num(S, Put(f, x, v), A)
              = Num(S, f, A) + Ind(v, A) - Ind(f[x], A)
<1> DEFINE g == [f EXCEPT ![x] = v]
           F == {y \in S : f[y] \in A}
           G == {y \in S : g[y] \in A}
<1> SUFFICES /\ Cardinality(F) \in Nat
             /\ Cardinality(G) = Cardinality(F) + (IF v \in A THEN 1 ELSE 0)
                                               - (IF f[x] \in A THEN 1 ELSE 0)
    BY DEF Num, Put, Ind
<1>1. IsFiniteSet(F) /\ Cardinality(F) \in Nat
      BY FS_Subset, FS_CardinalityType
<1>2. CASE v \in A
  <2>1. G = F \cup {x}
        BY <1>2
  <2>2. Cardinality(G) = IF x \in F THEN Cardinality(F) ELSE Cardinality(F) + 1
        BY <1>1, <2>1, FS_AddElement
  <2>3. x \in F <=> f[x] \in A
        OBVIOUS
  <2> HIDE DEF F, G
  <2> QED BY <1>1, <1>2, <2>2, <2>3
<1>3. CASE v \notin A
  <2>1. G = F \ {x}
        BY <1>3
  <2>2. Cardinality(G) = IF x \in F THEN Cardinality(F) - 1 ELSE Cardinality(F)
        BY <1>1, <2>1, FS_RemoveElement
  <2>3. x \in F <=> f[x] \in A
        OBVIOUS
  <2> HIDE DEF F, G
  <2> QED BY <1>1, <1>3, <2>2, <2>3
<1> QED BY <1>1, <1>2, <1>3

\* Writing a place outside S changes nothing in S.
LEMMA CountOutside ==
  ASSUME NEW S, NEW f, S \subseteq DOMAIN f, NEW x, x \notin S, NEW v, NEW A
  PROVE  Num(S, Put(f, x, v), A) = Num(S, f, A)
<1>1. \A y \in S : Put(f, x, v)[y] = f[y]
      BY DEF Put
<1>2. {y \in S : Put(f, x, v)[y] \in A} = {y \in S : f[y] \in A}
      BY <1>1
<1> QED BY <1>2 DEF Num

-----------------------------------------------------------------------------
(* The cluster's answers *)

\* A list of nodes of a hashslot: the master first, nobody twice.
Sound(t) ==
  \A s \in Slots :
    /\ t.nodes[s] = <<>> <=> t.node[s] = NoNode
    /\ t.nodes[s] # <<>> => t.nodes[s][1] = t.node[s]
    /\ IsInjective(t.nodes[s])

Same(i, j) == \A k \in i..j : owner[k] = owner[i]

\* Every hashslot with a master is in a range of CLUSTER SLOTS: the longest run of
\* hashslots around it with the same master.
LEMMA RangeAround ==
  ASSUME TypeOK, NEW s \in Slots
  PROVE  \E i, j \in Slots :
           /\ i <= s /\ s <= j /\ Same(i, j) /\ owner[i] = owner[s]
           /\ ~(j + 1 \in Slots /\ Same(i, j + 1))
           /\ ~(i - 1 \in Slots /\ Same(i - 1, j))
<1> DEFINE I == {i \in 0..s : \A k \in i..s : owner[k] = owner[s]}
           D == {d \in 0..(LastSlot - s) : \A k \in s..(LastSlot - d) : owner[k] = owner[s]}
<1>0. LastSlot \in Nat /\ s \in Nat /\ s <= LastSlot
      BY TopologyAssumption DEF Slots
<1>1. s \in I /\ I \subseteq Nat
      BY <1>0
<1>2. LastSlot - s \in D /\ D \subseteq Nat
      BY <1>0
<1>3. PICK i \in I : \A x \in I : i <= x
  <2> HIDE DEF I
  <2> QED BY <1>1, LeastNatural
<1>4. PICK d \in D : \A x \in D : d <= x
  <2> HIDE DEF D
  <2> QED BY <1>2, LeastNatural
<1> DEFINE j == LastSlot - d
<1>5. i \in Slots /\ j \in Slots /\ i <= s /\ s <= j
      BY <1>0, <1>3, <1>4 DEF Slots
<1>6. \A k \in i..j : owner[k] = owner[s]
  <2>1. \A k \in i..j : k \in i..s \/ k \in s..j
        BY <1>0, <1>5 DEF Slots
  <2> QED BY <1>3, <1>4, <2>1
<1>7. owner[i] = owner[s] /\ Same(i, j)
      BY <1>0, <1>5, <1>6 DEF Same, Slots
<1>8. ~(j + 1 \in Slots /\ Same(i, j + 1))
  <2> SUFFICES ASSUME j + 1 \in Slots, Same(i, j + 1) PROVE FALSE
      OBVIOUS
  <2>1. \A k \in s..(LastSlot - (d - 1)) : k \in i..(j + 1)
        BY <1>0, <1>4, <1>5 DEF Slots
  <2>2. \A k \in s..(LastSlot - (d - 1)) : owner[k] = owner[s]
        BY <1>7, <2>1 DEF Same
  <2>3. d - 1 \in 0..(LastSlot - s)
        BY <1>0, <1>4, <1>5 DEF Slots
  <2>4. d - 1 \in D
        BY <2>2, <2>3
  <2> QED BY <1>2, <1>4, <2>4
<1>9. ~(i - 1 \in Slots /\ Same(i - 1, j))
  <2> SUFFICES ASSUME i - 1 \in Slots, Same(i - 1, j) PROVE FALSE
      OBVIOUS
  <2>1. \A k \in (i - 1)..s : k \in (i - 1)..j
        BY <1>0, <1>5 DEF Slots
  <2>2. s \in (i - 1)..j
        BY <1>0, <1>5 DEF Slots
  <2>3. \A k \in (i - 1)..s : owner[k] = owner[s]
        BY <2>1, <2>2 DEF Same
  <2>4. i - 1 \in I
        BY <1>0, <1>5, <2>3 DEF Slots
  <2> QED BY <1>1, <1>3, <2>4
<1> QED BY <1>5, <1>7, <1>8, <1>9

\* A range of CLUSTER SLOTS has one master, which is first in its list.
LEMMA RangesAreSound ==
  ASSUME TypeOK, NEW b \in BOOLEAN, NEW q \in ClusterSlots(b)
  PROVE  /\ q.start \in Slots /\ q.end \in Slots
         /\ \A k \in q.start..q.end : owner[k] = q.nodes[1] /\ owner[k] # NoNode
         /\ q.nodes \in Seq(Nodes) /\ IsInjective(q.nodes) /\ q.nodes # <<>>
<1>1. PICK p \in Slots \X Slots :
        /\ p[1] <= p[2] /\ owner[p[1]] # NoNode /\ Same(p[1], p[2])
        /\ q = [start |-> p[1], end |-> p[2],
                nodes |-> <<owner[p[1]]>> \o
                            (IF b THEN SetToSeq(Replicas(owner[p[1]])) ELSE <<>>)]
      BY DEF ClusterSlots, Same
<1> DEFINE n == owner[p[1]]
           l == IF b THEN SetToSeq(Replicas(n)) ELSE <<>>
<1>2. p[1] \in Slots /\ p[2] \in Slots /\ n \in Nodes
      BY <1>1 DEF TypeOK
<1>3. Replicas(n) \subseteq Nodes /\ n \notin Replicas(n) /\ IsFiniteSet(Replicas(n))
  <2>1. Replicas(n) \subseteq Nodes /\ n \notin Replicas(n)
        BY DEF Replicas
  <2> QED BY <2>1, FS_Subset, TopologyAssumption
<1>4. l \in Seq(Replicas(n)) /\ IsInjective(l)
  <2>1. CASE b
        BY <1>3, <2>1, SeqOfSet
  <2>2. CASE ~b
        BY <2>2 DEF IsInjective
  <2> QED BY <2>1, <2>2
<1>5. /\ <<n>> \o l \in Seq(Replicas(n) \cup {n}) /\ IsInjective(<<n>> \o l)
      /\ <<n>> \o l # <<>> /\ (<<n>> \o l)[1] = n
  <2> HIDE DEF n, l
  <2> QED BY <1>3, <1>4, ConsInjective
<1>6. <<n>> \o l \in Seq(Nodes)
  <2> HIDE DEF n, l
  <2>1. Replicas(n) \cup {n} \subseteq Nodes
        BY <1>2, <1>3
  <2> QED BY <1>5, <2>1
<1>7. q.start = p[1] /\ q.end = p[2] /\ q.nodes = <<n>> \o l
      BY <1>1
<1> QED BY <1>1, <1>2, <1>5, <1>6, <1>7 DEF Same

\* What update makes of the answer has the masters of the cluster, all of them.
LEMMA UpdateIsSound ==
  ASSUME TypeOK, NEW b \in BOOLEAN
  PROVE  /\ Update(ClusterSlots(b)) \in TopoState
         /\ Update(ClusterSlots(b)).node = owner
         /\ Update(ClusterSlots(b)).at = epoch
         /\ Sound(Update(ClusterSlots(b)))
<1> DEFINE R == ClusterSlots(b)
           of(s) == {q \in R : q.nodes # <<>> /\ q.start <= s /\ s <= q.end}
           l == [s \in Slots |-> IF of(s) = {} THEN <<>> ELSE (CHOOSE q \in of(s) : TRUE).nodes]
           T == Update(R)
<1>1. /\ T.nodes = l /\ T.at = epoch
      /\ T.node = [s \in Slots |-> IF l[s] = <<>> THEN NoNode ELSE l[s][1]]
      /\ T = [node |-> T.node, nodes |-> T.nodes, at |-> T.at]
      BY DEF Update
<1>2. ASSUME NEW s \in Slots
      PROVE  /\ l[s] \in Seq(Nodes) /\ IsInjective(l[s])
             /\ l[s] = <<>> <=> owner[s] = NoNode
             /\ l[s] # <<>> => l[s][1] = owner[s]
  <2>0. s \in Nat
        BY TopologyAssumption DEF Slots
  <2>1. ASSUME NEW q \in of(s)
        PROVE  /\ q.nodes \in Seq(Nodes) /\ IsInjective(q.nodes) /\ q.nodes # <<>>
               /\ q.nodes[1] = owner[s] /\ owner[s] # NoNode
    <3>1. q \in ClusterSlots(b) /\ q.start <= s /\ s <= q.end
          OBVIOUS
    <3>2. s \in q.start..q.end
          BY <2>0, <3>1, RangesAreSound, TopologyAssumption DEF Slots
    <3> QED BY <3>1, <3>2, RangesAreSound
  <2>2. CASE of(s) = {}
    <3>1. l[s] = <<>>
          BY <2>2
    <3>2. owner[s] = NoNode
      <4> SUFFICES ASSUME owner[s] # NoNode PROVE FALSE
          OBVIOUS
      <4>1. PICK i, j \in Slots : /\ i <= s /\ s <= j /\ Same(i, j) /\ owner[i] = owner[s]
                                  /\ ~(j + 1 \in Slots /\ Same(i, j + 1))
                                  /\ ~(i - 1 \in Slots /\ Same(i - 1, j))
            BY RangeAround
      <4> DEFINE q == [start |-> i, end |-> j,
                       nodes |-> <<owner[i]>> \o
                                   (IF b THEN SetToSeq(Replicas(owner[i])) ELSE <<>>)]
      <4>2. i <= j
            BY <4>1, TopologyAssumption DEF Slots
      <4>3. PICK p \in Slots \X Slots : p[1] = i /\ p[2] = j
        <5>1. <<i, j>> \in Slots \X Slots /\ <<i, j>>[1] = i /\ <<i, j>>[2] = j
              OBVIOUS
        <5> QED BY <5>1
      <4>4. q \in ClusterSlots(b)
        <5>1. /\ p[1] <= p[2] /\ owner[p[1]] # NoNode /\ Same(p[1], p[2])
              /\ ~(p[2] + 1 \in Slots /\ Same(p[1], p[2] + 1))
              /\ ~(p[1] - 1 \in Slots /\ Same(p[1] - 1, p[2]))
              BY <4>1, <4>2, <4>3
        <5> QED BY <4>3, <5>1 DEF ClusterSlots, Same
      <4>5. q.nodes # <<>>
            BY <4>4, RangesAreSound
      <4>6. q \in of(s)
            BY <4>1, <4>4, <4>5
      <4> QED BY <2>2, <4>6
    <3>3. <<>> \in Seq(Nodes) /\ IsInjective(<<>>)
          BY DEF IsInjective
    <3> QED BY <3>1, <3>2, <3>3
  <2>3. CASE of(s) # {}
    <3>1. PICK q \in of(s) : l[s] = q.nodes
          BY <2>3
    <3> HIDE DEF l, of
    <3> QED BY <2>1, <3>1
  <2> QED BY <2>2, <2>3
<1>3. T.node = owner
  <2>1. \A s \in Slots : (IF l[s] = <<>> THEN NoNode ELSE l[s][1]) = owner[s]
    <3> HIDE DEF l
    <3> QED BY <1>2
  <2>2. owner = [s \in Slots |-> owner[s]]
        BY DEF TypeOK
  <2> HIDE DEF l, T
  <2> QED BY <1>1, <2>1, <2>2
<1>4. l \in [Slots -> Seq(Nodes)]
  <2>1. l = [s \in Slots |-> l[s]]
        OBVIOUS
  <2> HIDE DEF l
  <2> QED BY <1>2, <2>1
<1>5. T \in TopoState
  <2>1. epoch \in Nat /\ owner \in [Slots -> Nodes \cup {NoNode}]
        BY TopologyAssumption DEF TypeOK
  <2> HIDE DEF l, T
  <2> QED BY <1>1, <1>3, <1>4, <2>1 DEF TopoState
<1>6. Sound(T)
  <2> HIDE DEF l, T
  <2> QED BY <1>1, <1>2, <1>3 DEF Sound
<1> QED BY <1>1, <1>3, <1>5, <1>6

\* enrichWithReplicaInfo keeps the masters and adds nobody twice.
LEMMA EnrichIsSound ==
  ASSUME TypeOK, NEW t \in TopoState, Sound(t), NEW failing
  PROVE  /\ Enrich(t, ClusterNodes(failing)) \in TopoState
         /\ Enrich(t, ClusterNodes(failing)).node = t.node
         /\ Enrich(t, ClusterNodes(failing)).at = t.at
         /\ Sound(Enrich(t, ClusterNodes(failing)))
<1> DEFINE lines == ClusterNodes(failing)
           R(m) == {n \in Nodes : lines[n] = m /\ lines[m] = "master"}
           l == [s \in Slots |-> IF Len(t.nodes[s]) = 1
                                 THEN t.nodes[s] \o SetToSeq(R(t.nodes[s][1]))
                                 ELSE t.nodes[s]]
           E == Enrich(t, lines)
<1>0. /\ t.nodes \in [Slots -> Seq(Nodes)] /\ t.node \in [Slots -> Nodes \cup {NoNode}]
      /\ t.at \in Nat /\ t = [node |-> t.node, nodes |-> t.nodes, at |-> t.at]
      BY DEF TopoState
<1>1. /\ E.nodes = l /\ E.node = t.node /\ E.at = t.at
      /\ E \in [node : {t.node}, nodes : {l}, at : {t.at}]
      BY <1>0 DEF Enrich
<1>2. ASSUME NEW s \in Slots
      PROVE  /\ l[s] \in Seq(Nodes) /\ IsInjective(l[s])
             /\ l[s] = <<>> <=> t.nodes[s] = <<>>
             /\ l[s] # <<>> => l[s][1] = t.nodes[s][1]
  <2>1. CASE Len(t.nodes[s]) = 1
    <3> DEFINE m == t.nodes[s][1]
    <3>1. t.nodes[s] = <<m>> /\ m \in Nodes
          BY <1>0, <2>1
    <3>2. m \notin R(m)
      <4>1. m # "master"
            BY <3>1, TopologyAssumption
      <4> QED BY <4>1
    <3>3. R(m) \subseteq Nodes /\ IsFiniteSet(R(m))
      <4>1. R(m) \subseteq Nodes
            OBVIOUS
      <4> QED BY <4>1, FS_Subset, TopologyAssumption
    <3>4. l[s] = <<m>> \o SetToSeq(R(m))
          BY <2>1, <3>1
    <3> HIDE DEF R, l, m
    <3> DEFINE z == SetToSeq(R(m))
    <3>5. z \in Seq(R(m)) /\ IsInjective(z)
          BY <3>3, SeqOfSet
    <3>6. /\ l[s] \in Seq(R(m) \cup {m}) /\ IsInjective(l[s])
          /\ l[s] # <<>> /\ l[s][1] = m
      <4>1. l[s] = <<m>> \o z
            BY <3>4
      <4> HIDE DEF z
      <4>2. /\ <<m>> \o z \in Seq(R(m) \cup {m}) /\ IsInjective(<<m>> \o z)
            /\ <<m>> \o z # <<>> /\ (<<m>> \o z)[1] = m
            BY <3>2, <3>5, ConsInjective
      <4> QED BY <4>1, <4>2
    <3>7. R(m) \cup {m} \subseteq Nodes
          BY <3>1, <3>3
    <3> QED BY <3>1, <3>6, <3>7
  <2>2. CASE Len(t.nodes[s]) # 1
        BY <1>0, <2>2 DEF Sound
  <2> QED BY <2>1, <2>2
<1>3. l \in [Slots -> Seq(Nodes)]
  <2>1. l = [s \in Slots |-> l[s]]
        OBVIOUS
  <2> HIDE DEF l
  <2> QED BY <1>2, <2>1
<1>4. E \in TopoState
  <2> HIDE DEF l, E
  <2> QED BY <1>0, <1>1, <1>3 DEF TopoState
<1>5. Sound(E)
  <2> HIDE DEF l, E
  <2> QED BY <1>1, <1>2 DEF Sound
<1> QED BY <1>1, <1>4, <1>5

-----------------------------------------------------------------------------
(* The inductive invariant *)

Inside == {"slots", "nodes", "swap", "loop", "check", "store", "unlock"}

\* refreshMu: a refresh is between its lock and its unlock if and only if it holds it.
Mutex == \A r \in Refreshers : pc[r] \in Inside <=> refreshMu = r

\* What the local variables hold at each place.
Placed ==
  /\ \A r \in Refreshers : pc[r] \in {"check", "store"} => at[r] \in Slots
  /\ \A r \in Refreshers : phase[r] = "recover" => pc[r] \in {"loop", "check", "store", "unlock"}
  /\ \A h \in Handles : run[h] # "free" => slotOf[h] \in Slots
  /\ pc["monitor"] \notin {"off", "added"}

\* A topology was fetched in the past, and says what the cluster was like then.
Honest(t) == t.at <= epoch /\ (t.at = epoch => t.node = owner) /\ Sound(t)
Known ==
  /\ Honest(current) /\ \A r \in Refreshers : Honest(fetched[r])
  /\ \A r \in Refreshers : pc[r] \in {"nodes", "swap"} => current.at <= fetched[r].at

\* The refresh r still has to launch a migration for the subscription: its hashslot is
\* still to be handled, or it is found and about to be launched for, or it has failed and
\* is to be collected, or it has been.
Owes(r, x) ==
  /\ pc[r] \in {"loop", "check", "store"}
  /\ \/ phase[r] = "handle" /\ HashslotOf[x] \in todo[r]
     \/ pc[r] # "loop" /\ x \in Moved(r)
     \/ phase[r] = "handle" /\ state[x] = "failed" /\ ~InFlight(x)
     \/ phase[r] = "recover" /\ x \in found[r] /\ HashslotOf[x] \in todo[r]

Where(x) == current.node[HashslotOf[x]]

Moves ==
  AutoResubscribe /\ ~done =>
    \A x \in Subs \ overtaken :
      Where(x) = NoNode \/ sent[x] = Where(x) \/ \E r \in Refreshers : Owes(r, x)

\* Before a migration is stored the one it replaces has been cancelled.
Replaced ==
  \A r \in Refreshers : pc[r] = "store" =>
    \A h \in Handles : run[h] = "running" /\ ctx[h] = "live" => slotOf[h] # at[r]

Stopped == (stopPc # "running" => done) /\ NothingAfterStop

IInv ==
  /\ TypeOK /\ WgCounts /\ Mutex /\ Placed /\ Known /\ Moves
  /\ NewestIsCancellable /\ Replaced /\ Stopped

-----------------------------------------------------------------------------
(* Steps *)

\* The new migration gets a handle that is free.
LEMMA LaunchPicks ==
  ASSUME NEW r \in Refreshers, Launch(r)
  PROVE  \E h \in Handles :
           /\ run[h] = "free"
           /\ active' = [active EXCEPT ![at[r]] = h]
           /\ run' = [run EXCEPT ![h] = "running"]
           /\ slotOf' = [slotOf EXCEPT ![h] = at[r]]
           /\ ctx' = [ctx EXCEPT ![h] = "live"]
           /\ takes' = [takes EXCEPT ![h] = Moved(r)]
<1> DEFINE free == {h \in Handles : run[h] = "free"}
           h == CHOOSE x \in free : TRUE
<1>1. free # {}
      BY DEF Launch
<1>2. h \in free
      BY <1>1
<1>3. h \in Handles /\ run[h] = "free"
      BY <1>2
<1> QED BY <1>3 DEF Launch

\* The goroutines that refresh are finitely many, the monitor is one, NoOne is not; wg
\* counts all but the callers.
LEMMA RefreshersFinite ==
  /\ IsFiniteSet(Refreshers) /\ "monitor" \in Refreshers /\ NoOne \notin Refreshers
  /\ IsFiniteSet(Counted) /\ "monitor" \in Counted /\ Counted \subseteq Refreshers
  /\ Redirects \subseteq Counted /\ Callers = Refreshers \ Counted
<1>1. IsFiniteSet(Redirects) /\ IsFiniteSet(Callers)
      BY TopologyAssumption
<1>2. IsFiniteSet(Counted)
      BY <1>1, FS_AddElement DEF Counted
<1>3. IsFiniteSet(Refreshers)
      BY <1>1, <1>2, FS_Union DEF Refreshers
<1>4. "monitor" \in Counted /\ Counted \subseteq Refreshers /\ NoOne \notin Refreshers
      BY TopologyAssumption DEF Refreshers, Counted
<1>5. Redirects \subseteq Counted /\ Callers = Refreshers \ Counted
      BY TopologyAssumption DEF Refreshers, Counted
<1> QED BY <1>2, <1>3, <1>4, <1>5

\* A new topologyState knows nothing, which is sound.
LEMMA EmptyStateType == EmptyState \in TopoState /\ Sound(EmptyState)
<1>1. EmptyState \in TopoState
      BY DEF EmptyState, TopoState
<1>2. Sound(EmptyState)
      BY DEF EmptyState, Sound, IsInjective
<1> QED BY <1>1, <1>2

\* Every step keeps the types.
LEMMA TypeStep ==
  ASSUME TypeOK, Placed, Known, [Next]_vars
  PROVE  TypeOK'
<1> USE TopologyAssumption, EmptyStateType DEF TypeOK, Go, clusterVars, refreshVars, goVars, history
<1>1. ASSUME NEW s \in Slots, NEW n \in Nodes \cup {NoNode}, Reshard(s, n) PROVE TypeOK'
      BY <1>1, SMTT(30) DEF Reshard
<1>2. ASSUME NEW n \in Nodes, Failover(n) PROVE TypeOK'
      BY <1>2 DEF Failover
<1>3. ASSUME NEW r \in Refreshers, Refresh(r) \/ FetchFails(r) PROVE TypeOK'
  <2>1. CASE Lock(r)
        BY <2>1 DEF Lock
  <2>2. CASE FetchSlots(r)
    <3>1. PICK b \in BOOLEAN : fetched' = [fetched EXCEPT ![r] = Update(ClusterSlots(b))]
          BY <2>2 DEF FetchSlots
    <3>2. fetched' \in [Refreshers -> TopoState]
          BY <3>1, UpdateIsSound
    <3> QED BY <2>2, <3>2 DEF FetchSlots
  <2>3. CASE FetchNodes(r)
    <3>1. fetched' \in [Refreshers -> TopoState]
      <4>1. CASE UNCHANGED fetched
            BY <4>1
      <4>2. ASSUME NEW failing, fetched' = [fetched EXCEPT ![r] = Enrich(@, ClusterNodes(failing))]
            PROVE  fetched' \in [Refreshers -> TopoState]
            BY <4>2, EnrichIsSound DEF Known, Honest
      <4> QED BY <2>3, <4>1, <4>2 DEF FetchNodes
    <3> QED BY <2>3, <3>1 DEF FetchNodes
  <2>4. CASE Swap(r)
        BY <2>4 DEF Swap, Changes
  <2>5. ASSUME NEW s \in Slots, HandleMigration(r, s) PROVE TypeOK'
    <3>1. overtaken' \subseteq Subs
          BY <2>5 DEF HandleMigration, Of
    <3>2. /\ wg' \in Int /\ at' \in [Refreshers -> Slots \cup {NoSlot}]
          /\ found' \in [Refreshers -> SUBSET Subs]
          BY <2>5 DEF HandleMigration, Of
    <3>3. /\ pc' = pc \/ pc' = [pc EXCEPT ![r] = "check"]
          /\ todo' = [todo EXCEPT ![r] = @ \ {s}]
          /\ UNCHANGED <<clusterVars, current, refreshMu, done, active, fetched, phase, goVars,
                         state, stopPc, failures, sent>>
          BY <2>5 DEF HandleMigration
    <3> QED BY <3>1, <3>2, <3>3
  <2>6. ASSUME NEW s \in Slots, RecoverFailed(r, s) PROVE TypeOK'
        BY <2>6 DEF RecoverFailed
  <2>7. CASE CollectFailed(r)
    <3>1. {HashslotOf[x] : x \in FailedSubs} \subseteq Slots /\ FailedSubs \subseteq Subs
          BY DEF FailedSubs, Slots
    <3>2. todo' \in [Refreshers -> SUBSET Slots] /\ found' \in [Refreshers -> SUBSET Subs]
          BY <2>7, <3>1 DEF CollectFailed
    <3> QED BY <2>7, <3>2 DEF CollectFailed
  <2>8. CASE RecoveredAll(r)
        BY <2>8 DEF RecoveredAll
  <2>9. CASE LaunchRefused(r)
        BY <2>9 DEF LaunchRefused
  <2>10. CASE CancelPrevious(r)
        BY <2>10 DEF CancelPrevious
  <2>11. CASE Launch(r)
    <3>1. PICK h \in Handles :
            /\ run[h] = "free" /\ active' = [active EXCEPT ![at[r]] = h]
            /\ run' = [run EXCEPT ![h] = "running"] /\ slotOf' = [slotOf EXCEPT ![h] = at[r]]
            /\ ctx' = [ctx EXCEPT ![h] = "live"] /\ takes' = [takes EXCEPT ![h] = Moved(r)]
          BY <2>11, LaunchPicks
    <3>2. at[r] \in Slots /\ sent' \in [Subs -> Nodes \cup {NoNode}]
          BY <2>11 DEF Launch, Placed, TopoState
    <3>3. Moved(r) \subseteq Subs
          BY DEF Moved
    <3>4. takes' \in [Handles -> SUBSET Subs]
          BY <3>1, <3>3
    <3> QED BY <3>4, <2>11, <3>1, <3>2 DEF Launch
  <2>12. CASE Unlock(r)
        BY <2>12 DEF Unlock
  <2>13. CASE FetchFails(r)
        BY <2>13 DEF FetchFails
  <2> QED BY <1>3, <2>1, <2>2, <2>3, <2>4, <2>5, <2>6, <2>7, <2>8, <2>9, <2>10, <2>11, <2>12,
             <2>13 DEF Refresh
<1>4. ASSUME NEW r \in Redirects, TriggerRefresh(r) \/ TriggerChecks(r) PROVE TypeOK'
  <2>0. r \in Refreshers
        BY DEF Refreshers, Counted
  <2>1. CASE TriggerRefresh(r)
        BY <2>0, <2>1 DEF TriggerRefresh
  <2>2. CASE TriggerChecks(r)
        BY <2>0, <2>2 DEF TriggerChecks
  <2> QED BY <1>4, <2>1, <2>2
<1>5. CASE Tick
      BY <1>5 DEF Tick
<1>6. CASE MonitorExits
  <2>1. /\ pc' = [pc EXCEPT !["monitor"] = "over"] /\ wg' = wg - 1
        /\ UNCHANGED <<clusterVars, current, refreshMu, done, active, fetched, phase, todo, at,
                       found, goVars, state, stopPc, failures, history>>
        BY <1>6 DEF MonitorExits
  <2> QED BY <2>1, RefreshersFinite
<1>7. CASE Stop
      BY <1>7 DEF Stop
<1>8. CASE StopWaits
      BY <1>8 DEF StopWaits
<1>9. ASSUME NEW h \in Handles, Migrate(h) PROVE TypeOK'
  <2>1. CASE MigrationEnds(h)
    <3>1. state' \in [Subs -> {"live", "failed", "closed"}]
          BY <2>1 DEF MigrationEnds
    <3>2. failures' \in Nat
          BY <2>1 DEF MigrationEnds
    <3> QED BY <2>1, <3>1, <3>2 DEF MigrationEnds
  <2>2. CASE Forget(h)
        BY <2>2 DEF Forget
  <2>3. CASE MigrationDone(h)
        BY <2>3 DEF MigrationDone
  <2>4. CASE MigrationMoves(h)
        BY <2>4 DEF MigrationMoves
  <2> QED BY <1>9, <2>1, <2>2, <2>3, <2>4 DEF Migrate
<1>10. ASSUME NEW s \in Slots, ConnectionLost(s) PROVE TypeOK'
      BY <1>10 DEF ConnectionLost
<1>11. CASE UNCHANGED vars
      BY <1>11 DEF vars
<1>12. ASSUME NEW r \in Callers, ForceRefresh(r) PROVE TypeOK'
  <2>0. r \in Refreshers
        BY DEF Refreshers
  <2> QED BY <1>12, <2>0 DEF ForceRefresh
<1> QED BY <1>1, <1>2, <1>3, <1>4, <1>5, <1>6, <1>7, <1>8, <1>9, <1>10, <1>11,
           <1>12 DEF Next, ClusterChanges

-----------------------------------------------------------------------------
(* wg *)

Pcs == {"off", "added", "lock", "slots", "nodes", "swap", "loop", "check", "store", "unlock",
        "wait", "over"}
Awake == Pcs \ {"off", "over"}
Starting == {"check", "store"}
Runs == {"free", "running", "ending", "forgotten"}
Working == Runs \ {"free"}

\* What wg counts, for the places p of the refreshers and q of the migrations.
Count(p, q) == Num(Counted, p, Awake) + Num(Refreshers, p, Starting) + Num(Handles, q, Working)

\* What wg counts, in the form of WgCounts.
LEMMA CountParts ==
  ASSUME NEW p \in [Refreshers -> Pcs], NEW q \in [Handles -> Runs]
  PROVE  /\ Num(Counted, p, Awake)
              = Cardinality({r \in Counted : p[r] \notin {"off", "over"}})
         /\ Num(Refreshers, p, Starting)
              = Cardinality({r \in Refreshers : p[r] \in {"check", "store"}})
         /\ Num(Handles, q, Working) = Cardinality({h \in Handles : q[h] # "free"})
         /\ Num(Counted, p, Awake) \in Nat /\ Num(Refreshers, p, Starting) \in Nat
         /\ Num(Handles, q, Working) \in Nat
<1>1. {r \in Counted : p[r] \notin {"off", "over"}} = {r \in Counted : p[r] \in Awake}
      BY RefreshersFinite DEF Awake
<1>2. {h \in Handles : q[h] # "free"} = {h \in Handles : q[h] \in Working}
      BY DEF Working
<1>3. {r \in Refreshers : p[r] \in {"check", "store"}} = {r \in Refreshers : p[r] \in Starting}
      BY DEF Starting
<1>4. Num(Counted, p, Awake) \in Nat /\ Num(Refreshers, p, Starting) \in Nat
      BY RefreshersFinite, FS_Subset, FS_CardinalityType DEF Num
<1>5. Num(Handles, q, Working) \in Nat
      BY TopologyAssumption, FS_Subset, FS_CardinalityType DEF Num
<1> QED BY <1>1, <1>2, <1>3, <1>4, <1>5 DEF Num

\* A refresher moves to v.
LEMMA CountRefresher ==
  ASSUME NEW p \in [Refreshers -> Pcs], NEW q \in [Handles -> Runs],
         NEW r \in Refreshers, NEW v
  PROVE  Count(Put(p, r, v), q) = Count(p, q)
           + (IF r \in Counted THEN Ind(v, Awake) - Ind(p[r], Awake) ELSE 0)
           + Ind(v, Starting) - Ind(p[r], Starting)
<1>0. /\ IsFiniteSet(Refreshers) /\ IsFiniteSet(Counted)
      /\ DOMAIN p = Refreshers /\ Counted \subseteq DOMAIN p
      BY RefreshersFinite
<1>1. /\ Num(Counted, p, Awake) \in Nat /\ Num(Refreshers, p, Starting) \in Nat
      /\ Num(Handles, q, Working) \in Nat
      BY CountParts
<1>2. Num(Counted, Put(p, r, v), Awake) = Num(Counted, p, Awake)
        + (IF r \in Counted THEN Ind(v, Awake) - Ind(p[r], Awake) ELSE 0)
  <2>1. CASE r \in Counted
    <3>1. Num(Counted, Put(p, r, v), Awake) = Num(Counted, p, Awake)
            + Ind(v, Awake) - Ind(p[r], Awake)
          BY <1>0, <2>1, CountIn
    <3> QED BY <1>1, <2>1, <3>1 DEF Ind
  <2>2. CASE r \notin Counted
        BY <1>0, <1>1, <2>2, CountOutside
  <2> QED BY <2>1, <2>2
<1>3. Num(Refreshers, Put(p, r, v), Starting) = Num(Refreshers, p, Starting)
        + Ind(v, Starting) - Ind(p[r], Starting)
      BY <1>0, CountIn
<1> QED BY <1>1, <1>2, <1>3 DEF Count, Ind

\* A migration moves to v.
LEMMA CountMigration ==
  ASSUME NEW p \in [Refreshers -> Pcs], NEW q \in [Handles -> Runs],
         NEW h \in Handles, NEW v
  PROVE  Count(p, Put(q, h, v)) = Count(p, q)
           + Ind(v, Working) - Ind(q[h], Working)
<1>1. IsFiniteSet(Handles) /\ DOMAIN q = Handles
      BY TopologyAssumption
<1>2. /\ Num(Counted, p, Awake) \in Nat /\ Num(Refreshers, p, Starting) \in Nat
      /\ Num(Handles, q, Working) \in Nat
      BY CountParts
<1>3. Num(Handles, Put(q, h, v), Working) = Num(Handles, q, Working)
        + Ind(v, Working) - Ind(q[h], Working)
      BY <1>1, CountIn
<1> QED BY <1>2, <1>3 DEF Count, Ind

\* What is added to wg and taken from it goes with what starts and ends.
LEMMA CountStep ==
  ASSUME TypeOK, Placed, wg = Count(pc, run), [Next]_vars
  PROVE  wg' = Count(pc', run')
<1>0. /\ pc \in [Refreshers -> Pcs] /\ run \in [Handles -> Runs] /\ wg \in Int
      /\ wg = Count(pc, run)
      BY DEF TypeOK, Pcs, Runs
<1>1. ASSUME NEW s \in Slots, NEW n \in Nodes \cup {NoNode}, Reshard(s, n)
      PROVE  wg' = Count(pc', run')
  <2>1. pc' = pc /\ run' = run /\ wg' = wg
        BY <1>1 DEF Reshard, goVars, refreshVars, vars
  <2> QED BY <1>0, <2>1
<1>2. ASSUME NEW n \in Nodes, Failover(n) PROVE wg' = Count(pc', run')
  <2>1. pc' = pc /\ run' = run /\ wg' = wg
        BY <1>2 DEF Failover, goVars, refreshVars, vars
  <2> QED BY <1>0, <2>1
<1>3. ASSUME NEW r \in Refreshers, Refresh(r) \/ FetchFails(r) PROVE wg' = Count(pc', run')
  <2>1. CASE Lock(r)
    <3>1. pc' = Put(pc, r, "slots") /\ run' = run /\ wg' = wg /\ pc[r] = "lock"
          BY <2>1 DEF Lock, Go, goVars, Put
    <3>2. Count(pc', run') = Count(pc, run)
          BY <1>0, <3>1, CountRefresher, RefreshersFinite DEF Pcs, Awake, Starting, Ind
    <3> QED BY <1>0, <3>1, <3>2
  <2>2. CASE FetchSlots(r)
    <3>1. pc' = Put(pc, r, "nodes") /\ run' = run /\ wg' = wg /\ pc[r] = "slots"
          BY <2>2 DEF FetchSlots, Go, goVars, Put
    <3>2. Count(pc', run') = Count(pc, run)
          BY <1>0, <3>1, CountRefresher, RefreshersFinite DEF Pcs, Awake, Starting, Ind
    <3> QED BY <1>0, <3>1, <3>2
  <2>3. CASE FetchNodes(r)
    <3>1. pc' = Put(pc, r, "swap") /\ run' = run /\ wg' = wg /\ pc[r] = "nodes"
          BY <2>3 DEF FetchNodes, Go, goVars, Put
    <3>2. Count(pc', run') = Count(pc, run)
          BY <1>0, <3>1, CountRefresher, RefreshersFinite DEF Pcs, Awake, Starting, Ind
    <3> QED BY <1>0, <3>1, <3>2
  <2>4. CASE Swap(r)
    <3>1. pc' = Put(pc, r, "loop") /\ run' = run /\ wg' = wg /\ pc[r] = "swap"
          BY <2>4 DEF Swap, Go, goVars, Put
    <3>2. Count(pc', run') = Count(pc, run)
          BY <1>0, <3>1, CountRefresher, RefreshersFinite DEF Pcs, Awake, Starting, Ind
    <3> QED BY <1>0, <3>1, <3>2
  <2>5. ASSUME NEW s \in Slots, HandleMigration(r, s) PROVE wg' = Count(pc', run')
    <3> DEFINE sends == {x \in Of(s) : state[x] = "live"} # {} /\ AutoResubscribe
    <3>1. CASE sends
      <4>1. pc' = Put(pc, r, "check") /\ run' = run /\ wg' = wg + 1 /\ pc[r] = "loop"
            BY <2>5, <3>1 DEF HandleMigration, Go, goVars, Put
      <4>2. Count(pc', run') = Count(pc, run) + 1
            BY <1>0, <4>1, CountRefresher, RefreshersFinite DEF Pcs, Awake, Starting, Ind
      <4> QED BY <1>0, <4>1, <4>2
    <3>2. CASE ~sends
      <4>1. pc' = pc /\ run' = run /\ wg' = wg
            BY <2>5, <3>2 DEF HandleMigration, goVars
      <4> QED BY <1>0, <4>1
    <3> QED BY <3>1, <3>2
  <2>6. ASSUME NEW s \in Slots, RecoverFailed(r, s) PROVE wg' = Count(pc', run')
    <3>1. CASE current.node[s] # NoNode
      <4>1. pc' = Put(pc, r, "check") /\ run' = run /\ wg' = wg + 1 /\ pc[r] = "loop"
            BY <2>6, <3>1 DEF RecoverFailed, Go, goVars, Put
      <4>2. Count(pc', run') = Count(pc, run) + 1
            BY <1>0, <4>1, CountRefresher, RefreshersFinite DEF Pcs, Awake, Starting, Ind
      <4> QED BY <1>0, <4>1, <4>2
    <3>2. CASE current.node[s] = NoNode
      <4>1. pc' = pc /\ run' = run /\ wg' = wg
            BY <2>6, <3>2 DEF RecoverFailed, goVars
      <4> QED BY <1>0, <4>1
    <3> QED BY <3>1, <3>2
  <2>7. CASE CollectFailed(r)
    <3>1. CASE ~AutoResubscribe
      <4>1. pc' = Put(pc, r, "unlock") /\ run' = run /\ wg' = wg /\ pc[r] = "loop"
            BY <2>7, <3>1 DEF CollectFailed, Go, goVars, Put
      <4>2. Count(pc', run') = Count(pc, run)
            BY <1>0, <4>1, CountRefresher, RefreshersFinite DEF Pcs, Awake, Starting, Ind
      <4> QED BY <1>0, <4>1, <4>2
    <3>2. CASE AutoResubscribe
      <4>1. pc' = pc /\ run' = run /\ wg' = wg
            BY <2>7, <3>2 DEF CollectFailed, goVars
      <4> QED BY <1>0, <4>1
    <3> QED BY <3>1, <3>2
  <2>8. CASE RecoveredAll(r)
    <3>1. pc' = Put(pc, r, "unlock") /\ run' = run /\ wg' = wg /\ pc[r] = "loop"
          BY <2>8 DEF RecoveredAll, Go, goVars, Put
    <3>2. Count(pc', run') = Count(pc, run)
          BY <1>0, <3>1, CountRefresher, RefreshersFinite DEF Pcs, Awake, Starting, Ind
    <3> QED BY <1>0, <3>1, <3>2
  <2>9. CASE LaunchRefused(r)
    <3>1. CASE phase[r] = "handle"
      <4>1. pc' = Put(pc, r, "loop") /\ run' = run /\ wg' = wg - 1 /\ pc[r] = "check"
            BY <2>9, <3>1 DEF LaunchRefused, Go, goVars, Put
      <4>2. Count(pc', run') = Count(pc, run) - 1
            BY <1>0, <4>1, CountRefresher, RefreshersFinite DEF Pcs, Awake, Starting, Ind
      <4> QED BY <1>0, <4>1, <4>2
    <3>2. CASE phase[r] # "handle"
      <4>1. pc' = Put(pc, r, "unlock") /\ run' = run /\ wg' = wg - 1 /\ pc[r] = "check"
            BY <2>9, <3>2 DEF LaunchRefused, Go, goVars, Put
      <4>2. Count(pc', run') = Count(pc, run) - 1
            BY <1>0, <4>1, CountRefresher, RefreshersFinite DEF Pcs, Awake, Starting, Ind
      <4> QED BY <1>0, <4>1, <4>2
    <3> QED BY <3>1, <3>2
  <2>10. CASE CancelPrevious(r)
    <3>1. pc' = Put(pc, r, "store") /\ run' = run /\ wg' = wg /\ pc[r] = "check"
          BY <2>10 DEF CancelPrevious, Go, goVars, Put
    <3>2. Count(pc', run') = Count(pc, run)
          BY <1>0, <3>1, CountRefresher, RefreshersFinite DEF Pcs, Awake, Starting, Ind
    <3> QED BY <1>0, <3>1, <3>2
  <2>11. CASE Launch(r)
    <3>1. PICK h \in Handles : run[h] = "free" /\ run' = Put(run, h, "running")
          BY <2>11, LaunchPicks DEF Put
    <3>2. pc' = Put(pc, r, "loop") /\ pc[r] = "store" /\ wg' = wg
          BY <2>11 DEF Launch, Go, Put
    <3>3. pc' \in [Refreshers -> Pcs]
          BY <1>0, <3>2 DEF Put, Pcs
    <3>5. Count(pc', run) = Count(pc, run) - 1
          BY <1>0, <3>2, CountRefresher DEF Pcs, Awake, Starting, Ind
    <3>4. Count(pc', run') = Count(pc', run) + 1
          BY <1>0, <3>1, <3>3, CountMigration DEF Runs, Working, Ind
    <3> QED BY <1>0, <3>2, <3>4, <3>5
  <2>12. CASE Unlock(r)
    <3>1. CASE r = "monitor"
      <4>1. pc' = Put(pc, r, "wait") /\ run' = run /\ wg' = wg /\ pc[r] = "unlock"
            BY <2>12, <3>1, TopologyAssumption DEF Unlock, Go, goVars, Put
      <4>2. Count(pc', run') = Count(pc, run)
            BY <1>0, <4>1, CountRefresher, RefreshersFinite DEF Pcs, Awake, Starting, Ind
      <4> QED BY <1>0, <4>1, <4>2
    <3>2. CASE r \in Redirects
      <4>1. pc' = Put(pc, r, "over") /\ run' = run /\ wg' = wg - 1 /\ pc[r] = "unlock"
            BY <2>12, <3>2, TopologyAssumption DEF Unlock, Go, goVars, Put
      <4>2. Count(pc', run') = Count(pc, run) - 1
            BY <1>0, <3>2, <4>1, CountRefresher, RefreshersFinite DEF Pcs, Awake, Starting, Ind
      <4> QED BY <1>0, <4>1, <4>2
    <3>3. CASE r \in Callers
      <4>1. pc' = Put(pc, r, "over") /\ run' = run /\ wg' = wg /\ pc[r] = "unlock"
            BY <2>12, <3>3, TopologyAssumption DEF Unlock, Go, goVars, Put
      <4>2. Count(pc', run') = Count(pc, run)
            BY <1>0, <3>3, <4>1, CountRefresher, RefreshersFinite DEF Pcs, Awake, Starting, Ind
      <4> QED BY <1>0, <4>1, <4>2
    <3> QED BY <3>1, <3>2, <3>3 DEF Refreshers, Counted
  <2>13. CASE FetchFails(r)
    <3>1. pc' = Put(pc, r, "unlock") /\ run' = run /\ wg' = wg /\ pc[r] = "slots"
          BY <2>13 DEF FetchFails, Go, goVars, Put
    <3>2. Count(pc', run') = Count(pc, run)
          BY <1>0, <3>1, CountRefresher, RefreshersFinite DEF Pcs, Awake, Starting, Ind
    <3> QED BY <1>0, <3>1, <3>2
  <2> QED BY <1>3, <2>1, <2>2, <2>3, <2>4, <2>5, <2>6, <2>7, <2>8, <2>9, <2>10, <2>11, <2>12,
             <2>13 DEF Refresh
<1>4. ASSUME NEW r \in Redirects, TriggerRefresh(r) \/ TriggerChecks(r)
      PROVE  wg' = Count(pc', run')
  <2>0. r \in Refreshers
        BY DEF Refreshers, Counted
  <2>1. CASE TriggerRefresh(r)
    <3>1. pc' = Put(pc, r, "added") /\ run' = run /\ wg' = wg + 1 /\ pc[r] = "off"
          BY <2>0, <2>1 DEF TriggerRefresh, Go, goVars, Put
    <3>2. Count(pc', run') = Count(pc, run) + 1
          BY <2>0, <1>0, <3>1, CountRefresher, RefreshersFinite DEF Pcs, Awake, Starting, Ind
    <3> QED BY <2>0, <1>0, <3>1, <3>2
  <2>2. CASE TriggerChecks(r)
    <3>1. CASE done
      <4>1. pc' = Put(pc, r, "over") /\ run' = run /\ wg' = wg - 1 /\ pc[r] = "added"
            BY <2>0, <2>2, <3>1 DEF TriggerChecks, Go, goVars, Put
      <4>2. Count(pc', run') = Count(pc, run) - 1
            BY <2>0, <1>0, <4>1, CountRefresher, RefreshersFinite DEF Pcs, Awake, Starting, Ind
      <4> QED BY <2>0, <1>0, <4>1, <4>2
    <3>2. CASE ~done
      <4>1. pc' = Put(pc, r, "lock") /\ run' = run /\ wg' = wg /\ pc[r] = "added"
            BY <2>0, <2>2, <3>2 DEF TriggerChecks, Go, goVars, Put
      <4>2. Count(pc', run') = Count(pc, run)
            BY <2>0, <1>0, <4>1, CountRefresher, RefreshersFinite DEF Pcs, Awake, Starting, Ind
      <4> QED BY <2>0, <1>0, <4>1, <4>2
    <3> QED BY <3>1, <3>2
  <2> QED BY <1>4, <2>1, <2>2
<1>5. CASE Tick
  <2>1. pc' = Put(pc, "monitor", "lock") /\ run' = run /\ wg' = wg /\ pc["monitor"] = "wait"
        BY <1>5 DEF Tick, Go, goVars, Put
  <2>2. Count(pc', run') = Count(pc, run)
        BY <1>0, <2>1, CountRefresher, RefreshersFinite DEF Pcs, Awake, Starting, Ind
  <2> QED BY <1>0, <2>1, <2>2
<1>6. CASE MonitorExits
  <2>1. pc' = Put(pc, "monitor", "over") /\ run' = run /\ wg' = wg - 1 /\ pc["monitor"] = "wait"
        BY <1>6 DEF MonitorExits, Go, goVars, Put
  <2>2. Count(pc', run') = Count(pc, run) - 1
        BY <1>0, <2>1, CountRefresher, RefreshersFinite DEF Pcs, Awake, Starting, Ind
  <2> QED BY <1>0, <2>1, <2>2
<1>7. CASE Stop
  <2>1. pc' = pc /\ run' = run /\ wg' = wg
        BY <1>7 DEF Stop, goVars, refreshVars, vars
  <2> QED BY <1>0, <2>1
<1>8. CASE StopWaits
  <2>1. pc' = pc /\ run' = run /\ wg' = wg
        BY <1>8 DEF StopWaits, goVars, refreshVars, vars
  <2> QED BY <1>0, <2>1
<1>9. ASSUME NEW h \in Handles, Migrate(h) PROVE wg' = Count(pc', run')
  <2>1. CASE MigrationEnds(h)
    <3>1. run' = Put(run, h, "ending") /\ pc' = pc /\ wg' = wg /\ run[h] = "running"
          BY <2>1 DEF MigrationEnds, refreshVars, Put
    <3>2. Count(pc', run') = Count(pc, run)
          BY <1>0, <3>1, CountMigration DEF Runs, Working, Ind
    <3> QED BY <1>0, <3>1, <3>2
  <2>2. CASE Forget(h)
    <3>1. run' = Put(run, h, "forgotten") /\ pc' = pc /\ wg' = wg /\ run[h] = "ending"
          BY <2>2 DEF Forget, refreshVars, Put
    <3>2. Count(pc', run') = Count(pc, run)
          BY <1>0, <3>1, CountMigration DEF Runs, Working, Ind
    <3> QED BY <1>0, <3>1, <3>2
  <2>3. CASE MigrationDone(h)
    <3>1. run' = Put(run, h, "free") /\ pc' = pc /\ wg' = wg - 1 /\ run[h] = "forgotten"
          BY <2>3 DEF MigrationDone, refreshVars, Put
    <3>2. Count(pc', run') = Count(pc, run) - 1
          BY <1>0, <3>1, CountMigration DEF Runs, Working, Ind
    <3> QED BY <1>0, <3>1, <3>2
  <2>4. CASE MigrationMoves(h)
    <3>1. pc' = pc /\ run' = run /\ wg' = wg
          BY <2>4 DEF MigrationMoves, goVars, refreshVars
    <3> QED BY <1>0, <3>1
  <2> QED BY <1>9, <2>1, <2>2, <2>3, <2>4 DEF Migrate
<1>10. ASSUME NEW s \in Slots, ConnectionLost(s) PROVE wg' = Count(pc', run')
  <2>1. pc' = pc /\ run' = run /\ wg' = wg
        BY <1>10 DEF ConnectionLost, goVars, refreshVars, vars
  <2> QED BY <1>0, <2>1
<1>11. CASE UNCHANGED vars
  <2>1. pc' = pc /\ run' = run /\ wg' = wg
        BY <1>11 DEF vars, goVars, refreshVars, vars
  <2> QED BY <1>0, <2>1
<1>12. ASSUME NEW r \in Callers, ForceRefresh(r) PROVE wg' = Count(pc', run')
  <2>0. r \in Refreshers /\ r \notin Counted
        BY RefreshersFinite
  <2>1. pc' = Put(pc, r, "lock") /\ run' = run /\ wg' = wg /\ pc[r] = "off"
        BY <1>12 DEF ForceRefresh, Go, goVars, Put
  <2>2. Count(pc', run') = Count(pc, run)
        BY <1>0, <2>0, <2>1, CountRefresher DEF Pcs, Awake, Starting, Ind
  <2> QED BY <1>0, <2>1, <2>2
<1> QED BY <1>1, <1>2, <1>3, <1>4, <1>5, <1>6, <1>7, <1>8, <1>9, <1>10, <1>11,
           <1>12 DEF Next, ClusterChanges

-----------------------------------------------------------------------------
(* The other parts, for every step *)

\* A refresh keeps refreshMu from its lock to its unlock.
LEMMA MutexStep ==
  ASSUME TypeOK, Placed, Mutex, [Next]_vars
  PROVE  Mutex'
<1> USE TopologyAssumption, RefreshersFinite DEF TypeOK, Mutex, Inside, Go, refreshVars, vars
<1>1. ASSUME NEW s \in Slots, NEW n \in Nodes \cup {NoNode}, Reshard(s, n) PROVE Mutex'
      BY <1>1 DEF Reshard
<1>2. ASSUME NEW n \in Nodes, Failover(n) PROVE Mutex'
      BY <1>2 DEF Failover
<1>3. ASSUME NEW r \in Refreshers, Refresh(r) \/ FetchFails(r) PROVE Mutex'
  <2>1. CASE Lock(r)
        BY <2>1 DEF Lock
  <2>2. CASE FetchSlots(r)
        BY <2>2 DEF FetchSlots
  <2>3. CASE FetchNodes(r)
        BY <2>3 DEF FetchNodes
  <2>4. CASE Swap(r)
        BY <2>4 DEF Swap
  <2>5. ASSUME NEW s \in Slots, HandleMigration(r, s) PROVE Mutex'
        BY <2>5 DEF HandleMigration
  <2>6. ASSUME NEW s \in Slots, RecoverFailed(r, s) PROVE Mutex'
        BY <2>6 DEF RecoverFailed
  <2>7. CASE CollectFailed(r)
        BY <2>7 DEF CollectFailed
  <2>8. CASE RecoveredAll(r)
        BY <2>8 DEF RecoveredAll
  <2>9. CASE LaunchRefused(r)
        BY <2>9 DEF LaunchRefused
  <2>10. CASE CancelPrevious(r)
        BY <2>10 DEF CancelPrevious
  <2>11. CASE Launch(r)
        BY <2>11 DEF Launch
  <2>12. CASE Unlock(r)
        BY <2>12 DEF Unlock
  <2>13. CASE FetchFails(r)
        BY <2>13 DEF FetchFails
  <2> QED BY <1>3, <2>1, <2>2, <2>3, <2>4, <2>5, <2>6, <2>7, <2>8, <2>9, <2>10, <2>11, <2>12,
             <2>13 DEF Refresh
<1>4. ASSUME NEW r \in Redirects, TriggerRefresh(r) \/ TriggerChecks(r) PROVE Mutex'
  <2>0. r \in Refreshers
        BY DEF Refreshers, Counted
  <2>1. CASE TriggerRefresh(r)
        BY <2>0, <2>1 DEF TriggerRefresh
  <2>2. CASE TriggerChecks(r)
        BY <2>0, <2>2 DEF TriggerChecks
  <2> QED BY <1>4, <2>1, <2>2
<1>5. CASE Tick
      BY <1>5 DEF Tick
<1>6. CASE MonitorExits
      BY <1>6 DEF MonitorExits
<1>7. CASE Stop
      BY <1>7 DEF Stop
<1>8. CASE StopWaits
      BY <1>8 DEF StopWaits
<1>9. ASSUME NEW h \in Handles, Migrate(h) PROVE Mutex'
  <2>1. CASE MigrationEnds(h)
        BY <2>1 DEF MigrationEnds
  <2>2. CASE Forget(h)
        BY <2>2 DEF Forget
  <2>3. CASE MigrationDone(h)
        BY <2>3 DEF MigrationDone
  <2>4. CASE MigrationMoves(h)
        BY <2>4 DEF MigrationMoves
  <2> QED BY <1>9, <2>1, <2>2, <2>3, <2>4 DEF Migrate
<1>10. ASSUME NEW s \in Slots, ConnectionLost(s) PROVE Mutex'
      BY <1>10 DEF ConnectionLost
<1>11. CASE UNCHANGED vars
      BY <1>11 DEF vars
<1>12. ASSUME NEW r \in Callers, ForceRefresh(r) PROVE Mutex'
  <2>0. r \in Refreshers
        BY DEF Refreshers
  <2> QED BY <1>12, <2>0 DEF ForceRefresh
<1> QED BY <1>1, <1>2, <1>3, <1>4, <1>5, <1>6, <1>7, <1>8, <1>9, <1>10, <1>11,
           <1>12 DEF Next, ClusterChanges

\* Every step leaves the local variables as the next place expects them.
LEMMA PlacedStep ==
  ASSUME TypeOK, Placed, [Next]_vars
  PROVE  Placed'
<1> USE TopologyAssumption, RefreshersFinite DEF TypeOK, Placed, Go, refreshVars, goVars, vars
<1>1. ASSUME NEW s \in Slots, NEW n \in Nodes \cup {NoNode}, Reshard(s, n) PROVE Placed'
      BY <1>1 DEF Reshard
<1>2. ASSUME NEW n \in Nodes, Failover(n) PROVE Placed'
      BY <1>2 DEF Failover
<1>3. ASSUME NEW r \in Refreshers, Refresh(r) \/ FetchFails(r) PROVE Placed'
  <2>1. CASE Lock(r)
        BY <2>1 DEF Lock
  <2>2. CASE FetchSlots(r)
        BY <2>2 DEF FetchSlots
  <2>3. CASE FetchNodes(r)
        BY <2>3 DEF FetchNodes
  <2>4. CASE Swap(r)
        BY <2>4 DEF Swap
  <2>5. ASSUME NEW s \in Slots, HandleMigration(r, s) PROVE Placed'
        BY <2>5 DEF HandleMigration
  <2>6. ASSUME NEW s \in Slots, RecoverFailed(r, s) PROVE Placed'
        BY <2>6 DEF RecoverFailed
  <2>7. CASE CollectFailed(r)
        BY <2>7 DEF CollectFailed
  <2>8. CASE RecoveredAll(r)
        BY <2>8 DEF RecoveredAll
  <2>9. CASE LaunchRefused(r)
        BY <2>9 DEF LaunchRefused
  <2>10. CASE CancelPrevious(r)
        BY <2>10 DEF CancelPrevious
  <2>11. CASE Launch(r)
    <3>1. PICK h \in Handles :
            run' = [run EXCEPT ![h] = "running"] /\ slotOf' = [slotOf EXCEPT ![h] = at[r]]
          BY <2>11, LaunchPicks
    <3> QED BY <2>11, <3>1 DEF Launch
  <2>12. CASE Unlock(r)
        BY <2>12 DEF Unlock
  <2>13. CASE FetchFails(r)
        BY <2>13 DEF FetchFails
  <2> QED BY <1>3, <2>1, <2>2, <2>3, <2>4, <2>5, <2>6, <2>7, <2>8, <2>9, <2>10, <2>11, <2>12,
             <2>13 DEF Refresh
<1>4. ASSUME NEW r \in Redirects, TriggerRefresh(r) \/ TriggerChecks(r) PROVE Placed'
  <2>0. r \in Refreshers
        BY DEF Refreshers, Counted
  <2>1. CASE TriggerRefresh(r)
        BY <2>0, <2>1 DEF TriggerRefresh
  <2>2. CASE TriggerChecks(r)
        BY <2>0, <2>2 DEF TriggerChecks
  <2> QED BY <1>4, <2>1, <2>2
<1>5. CASE Tick
      BY <1>5 DEF Tick
<1>6. CASE MonitorExits
      BY <1>6 DEF MonitorExits
<1>7. CASE Stop
      BY <1>7 DEF Stop
<1>8. CASE StopWaits
      BY <1>8 DEF StopWaits
<1>9. ASSUME NEW h \in Handles, Migrate(h) PROVE Placed'
  <2>1. CASE MigrationEnds(h)
        BY <2>1 DEF MigrationEnds
  <2>2. CASE Forget(h)
        BY <2>2 DEF Forget
  <2>3. CASE MigrationDone(h)
        BY <2>3 DEF MigrationDone
  <2>4. CASE MigrationMoves(h)
        BY <2>4 DEF MigrationMoves
  <2> QED BY <1>9, <2>1, <2>2, <2>3, <2>4 DEF Migrate
<1>10. ASSUME NEW s \in Slots, ConnectionLost(s) PROVE Placed'
      BY <1>10 DEF ConnectionLost
<1>11. CASE UNCHANGED vars
      BY <1>11 DEF vars
<1>12. ASSUME NEW r \in Callers, ForceRefresh(r) PROVE Placed'
  <2>0. r \in Refreshers
        BY DEF Refreshers
  <2> QED BY <1>12, <2>0 DEF ForceRefresh
<1> QED BY <1>1, <1>2, <1>3, <1>4, <1>5, <1>6, <1>7, <1>8, <1>9, <1>10, <1>11,
           <1>12 DEF Next, ClusterChanges

\* Nothing is known at epoch 0, which is never the present one.
LEMMA EmptyIsHonest ==
  ASSUME TypeOK
  PROVE  Honest(EmptyState)
<1>1. EmptyState.at = 0
      BY DEF EmptyState
<1>2. epoch \in Nat /\ epoch >= 1
      BY TopologyAssumption DEF TypeOK
<1> QED BY <1>1, <1>2, EmptyStateType DEF Honest

\* What a refresh knows stays true: the cluster moves on by changing its epoch, and no
\* other refresh is between fetch and swap.
LEMMA KnownStep ==
  ASSUME TypeOK, TypeOK', Mutex, Known, [Next]_vars
  PROVE  Known'
<1> USE TopologyAssumption, RefreshersFinite DEF Go, clusterVars, refreshVars, vars
<1>0. /\ current.at \in Nat /\ epoch \in Nat /\ \A r \in Refreshers : fetched[r].at \in Nat
      /\ pc \in [Refreshers -> Pcs] /\ fetched \in [Refreshers -> TopoState]
  <2>1. \A t \in TopoState : t.at \in Nat
        BY DEF TopoState
  <2>2. pc \in [Refreshers -> Pcs] /\ fetched \in [Refreshers -> TopoState]
        BY DEF TypeOK, Pcs
  <2>3. epoch \in Nat /\ current \in TopoState
        BY DEF TypeOK
  <2> QED BY <2>1, <2>2, <2>3
<1>1. ASSUME NEW s \in Slots, NEW n \in Nodes \cup {NoNode}, Reshard(s, n) PROVE Known'
      BY <1>1, <1>0 DEF Reshard, Known, Honest
<1>2. ASSUME NEW n \in Nodes, Failover(n) PROVE Known'
      BY <1>2, <1>0 DEF Failover, Known, Honest
<1>3. ASSUME NEW r \in Refreshers, Refresh(r) \/ FetchFails(r) PROVE Known'
  <2>1. CASE Lock(r)
        BY <2>1, <1>0 DEF Lock, Known, Honest
  <2>2. CASE FetchSlots(r)
    <3>1. PICK b \in BOOLEAN : fetched' = [fetched EXCEPT ![r] = Update(ClusterSlots(b))]
          BY <2>2 DEF FetchSlots
    <3> DEFINE u == Update(ClusterSlots(b))
    <3>2. u.node = owner /\ u.at = epoch /\ Sound(u)
          BY UpdateIsSound
    <3>3. fetched' = [fetched EXCEPT ![r] = u]
          BY <3>1
    <3> HIDE DEF u
    <3>4. /\ \A x \in Refreshers : Honest(fetched'[x])
          /\ current.at <= fetched'[r].at /\ \A x \in Refreshers \ {r} : fetched'[x] = fetched[x]
          BY <1>0, <3>2, <3>3 DEF Known, Honest
    <3>5. \A x \in Refreshers \ {r} : pc'[x] = pc[x]
          BY <2>2, <1>0 DEF FetchSlots
    <3>6. UNCHANGED <<current, epoch, owner>>
          BY <2>2 DEF FetchSlots
    <3> QED BY <3>4, <3>5, <3>6 DEF Known, Honest
  <2>3. CASE FetchNodes(r)
    <3>1. /\ \A x \in Refreshers : Honest(fetched'[x])
          /\ \A x \in Refreshers : fetched'[x].at = fetched[x].at
      <4>1. CASE UNCHANGED fetched
            BY <4>1 DEF Known
      <4>2. ASSUME NEW failing, fetched' = [fetched EXCEPT ![r] = Enrich(@, ClusterNodes(failing))]
            PROVE  /\ \A x \in Refreshers : Honest(fetched'[x])
                   /\ \A x \in Refreshers : fetched'[x].at = fetched[x].at
        <5> DEFINE e == Enrich(fetched[r], ClusterNodes(failing))
        <5>1. e.node = fetched[r].node /\ e.at = fetched[r].at /\ Sound(e)
              BY <1>0, EnrichIsSound DEF Known, Honest
        <5>2. fetched' = [fetched EXCEPT ![r] = e]
              BY <4>2
        <5> HIDE DEF e
        <5> QED BY <1>0, <5>1, <5>2 DEF Known, Honest
      <4> QED BY <2>3, <4>1, <4>2 DEF FetchNodes
    <3>2. pc[r] = "nodes" /\ \A x \in Refreshers \ {r} : pc'[x] = pc[x]
          BY <2>3, <1>0 DEF FetchNodes
    <3>3. UNCHANGED <<current, epoch, owner>>
          BY <2>3 DEF FetchNodes
    <3> QED BY <3>1, <3>2, <3>3 DEF Known, Honest
  <2>4. CASE Swap(r)
    <3>1. /\ current' = fetched[r] /\ fetched' = [fetched EXCEPT ![r] = EmptyState]
          /\ pc' = [pc EXCEPT ![r] = "loop"] /\ pc[r] = "swap" /\ UNCHANGED <<epoch, owner>>
          BY <2>4 DEF Swap
    <3>2. \A x \in Refreshers : Honest(fetched'[x])
          BY <1>0, <3>1, EmptyIsHonest DEF Known
    <3>3. \A x \in Refreshers : pc'[x] \notin {"nodes", "swap"}
          BY <1>0, <3>1 DEF Mutex, Inside
    <3> QED BY <3>1, <3>2, <3>3 DEF Known, Honest
  <2>5. ASSUME NEW s \in Slots, HandleMigration(r, s) PROVE Known'
        BY <2>5, <1>0 DEF HandleMigration, Known, Honest
  <2>6. ASSUME NEW s \in Slots, RecoverFailed(r, s) PROVE Known'
        BY <2>6, <1>0 DEF RecoverFailed, Known, Honest
  <2>7. CASE CollectFailed(r)
        BY <2>7, <1>0 DEF CollectFailed, Known, Honest
  <2>8. CASE RecoveredAll(r)
        BY <2>8, <1>0 DEF RecoveredAll, Known, Honest
  <2>9. CASE LaunchRefused(r)
        BY <2>9, <1>0 DEF LaunchRefused, Known, Honest
  <2>10. CASE CancelPrevious(r)
        BY <2>10, <1>0 DEF CancelPrevious, Known, Honest
  <2>11. CASE Launch(r)
        BY <2>11, <1>0 DEF Launch, Known, Honest
  <2>12. CASE Unlock(r)
    <3>1. /\ UNCHANGED <<current, epoch, owner>> /\ fetched' = [fetched EXCEPT ![r] = EmptyState]
          /\ pc' = [pc EXCEPT ![r] = "wait"] \/ pc' = [pc EXCEPT ![r] = "over"]
          BY <2>12 DEF Unlock
    <3>2. \A x \in Refreshers : Honest(fetched'[x])
          BY <1>0, <3>1, EmptyIsHonest DEF Known
    <3>3. \A x \in Refreshers : pc'[x] \in {"nodes", "swap"} => x # r /\ pc'[x] = pc[x]
          BY <1>0, <3>1
    <3>4. \A x \in Refreshers \ {r} : fetched'[x] = fetched[x]
          BY <1>0, <3>1
    <3> QED BY <3>1, <3>2, <3>3, <3>4 DEF Known, Honest
  <2>13. CASE FetchFails(r)
        BY <2>13, <1>0 DEF FetchFails, Known, Honest
  <2> QED BY <1>3, <2>1, <2>2, <2>3, <2>4, <2>5, <2>6, <2>7, <2>8, <2>9, <2>10, <2>11, <2>12,
             <2>13 DEF Refresh
<1>4. ASSUME NEW r \in Redirects, TriggerRefresh(r) \/ TriggerChecks(r) PROVE Known'
  <2>0. r \in Refreshers
        BY DEF Refreshers, Counted
  <2>1. CASE TriggerRefresh(r)
        BY <2>0, <2>1, <1>0 DEF TriggerRefresh, Known, Honest
  <2>2. CASE TriggerChecks(r)
        BY <2>0, <2>2, <1>0 DEF TriggerChecks, Known, Honest
  <2> QED BY <1>4, <2>1, <2>2
<1>5. CASE Tick
      BY <1>5, <1>0 DEF Tick, Known, Honest
<1>6. CASE MonitorExits
      BY <1>6, <1>0 DEF MonitorExits, Known, Honest
<1>7. CASE Stop
      BY <1>7, <1>0 DEF Stop, Known, Honest
<1>8. CASE StopWaits
      BY <1>8, <1>0 DEF StopWaits, Known, Honest
<1>9. ASSUME NEW h \in Handles, Migrate(h) PROVE Known'
  <2>1. CASE MigrationEnds(h)
        BY <2>1, <1>0 DEF MigrationEnds, Known, Honest
  <2>2. CASE Forget(h)
        BY <2>2, <1>0 DEF Forget, Known, Honest
  <2>3. CASE MigrationDone(h)
        BY <2>3, <1>0 DEF MigrationDone, Known, Honest
  <2>4. CASE MigrationMoves(h)
        BY <2>4, <1>0 DEF MigrationMoves, Known, Honest
  <2> QED BY <1>9, <2>1, <2>2, <2>3, <2>4 DEF Migrate
<1>10. ASSUME NEW s \in Slots, ConnectionLost(s) PROVE Known'
      BY <1>10, <1>0 DEF ConnectionLost, Known, Honest
<1>11. CASE UNCHANGED vars
      BY <1>11, <1>0 DEF vars, Known, Honest
<1>12. ASSUME NEW r \in Callers, ForceRefresh(r) PROVE Known'
  <2>0. r \in Refreshers
        BY DEF Refreshers
  <2> QED BY <1>12, <1>0, <2>0 DEF ForceRefresh, Known, Honest
<1> QED BY <1>1, <1>2, <1>3, <1>4, <1>5, <1>6, <1>7, <1>8, <1>9, <1>10, <1>11,
           <1>12 DEF Next, ClusterChanges

\* A change that was seen is handed on: it is in todo, at the launch, or sent.
LEMMA MovesStep ==
  ASSUME TypeOK, TypeOK', Mutex, Placed, Moves, [Next]_vars
  PROVE  Moves'
<1> USE TopologyAssumption, RefreshersFinite DEF Go, clusterVars, refreshVars, goVars, history, vars
<1>0. /\ pc \in [Refreshers -> Pcs] /\ at \in [Refreshers -> Slots \cup {NoSlot}]
      /\ todo \in [Refreshers -> SUBSET Slots] /\ found \in [Refreshers -> SUBSET Subs]
      /\ phase \in [Refreshers -> {"handle", "recover"}] /\ sent \in [Subs -> Nodes \cup {NoNode}]
      /\ run \in [Handles -> Runs] /\ takes \in [Handles -> SUBSET Subs]
      /\ state \in [Subs -> {"live", "failed", "closed"}]
      BY DEF TypeOK, Pcs, Runs
<1>A. \A x \in Subs : HashslotOf[x] \in Slots
      BY DEF Slots
\* A step that changes neither the topology nor the history.
<1>B. ASSUME UNCHANGED <<current, sent, overtaken>>, ~done' => ~done,
             \A r \in Refreshers, x \in Subs : Owes(r, x) => Owes(r, x)'
      PROVE  Moves'
  <2>1. ASSUME AutoResubscribe, ~done', NEW x \in Subs \ overtaken'
        PROVE  Where(x)' = NoNode \/ sent'[x] = Where(x)' \/ \E r \in Refreshers : Owes(r, x)'
    <3>1. ~done /\ x \in Subs \ overtaken /\ sent'[x] = sent[x] /\ Where(x)' = Where(x)
          BY <1>B, <2>1 DEF Where
    <3> QED BY <1>B, <2>1, <3>1 DEF Moves
  <2> QED BY <2>1 DEF Moves
<1>1. ASSUME NEW s \in Slots, NEW n \in Nodes \cup {NoNode}, Reshard(s, n) PROVE Moves'
  <2>1. UNCHANGED <<current, sent, overtaken, done>>
        BY <1>1 DEF Reshard
  <2>2. \A q \in Refreshers, x \in Subs : Owes(q, x) => Owes(q, x)'
        BY <1>1, <1>0 DEF Reshard, Owes, Moved, InFlight
  <2> QED BY <1>B, <2>1, <2>2
<1>2. ASSUME NEW n \in Nodes, Failover(n) PROVE Moves'
  <2>1. UNCHANGED <<current, sent, overtaken, done>>
        BY <1>2 DEF Failover
  <2>2. \A q \in Refreshers, x \in Subs : Owes(q, x) => Owes(q, x)'
        BY <1>2, <1>0 DEF Failover, Owes, Moved, InFlight
  <2> QED BY <1>B, <2>1, <2>2
<1>3. ASSUME NEW r \in Refreshers, Refresh(r) \/ FetchFails(r) PROVE Moves'
  <2>1. CASE Lock(r)
    <3>1. UNCHANGED <<current, sent, overtaken, done>>
          BY <2>1 DEF Lock
    <3>2. \A q \in Refreshers, x \in Subs : Owes(q, x) => Owes(q, x)'
          BY <2>1, <1>0 DEF Lock, Owes, Moved, InFlight
    <3> QED BY <1>B, <3>1, <3>2
  <2>2. CASE FetchSlots(r)
    <3>1. UNCHANGED <<current, sent, overtaken, done>>
          BY <2>2 DEF FetchSlots
    <3>2. \A q \in Refreshers, x \in Subs : Owes(q, x) => Owes(q, x)'
          BY <2>2, <1>0 DEF FetchSlots, Owes, Moved, InFlight
    <3> QED BY <1>B, <3>1, <3>2
  <2>3. CASE FetchNodes(r)
    <3>1. UNCHANGED <<current, sent, overtaken, done>>
          BY <2>3 DEF FetchNodes
    <3>2. \A q \in Refreshers, x \in Subs : Owes(q, x) => Owes(q, x)'
          BY <2>3, <1>0 DEF FetchNodes, Owes, Moved, InFlight
    <3> QED BY <1>B, <3>1, <3>2
  <2>4. CASE Swap(r)
    <3>1. /\ current' = fetched[r] /\ todo' = [todo EXCEPT ![r] = Changes(fetched[r], current)]
          /\ pc' = [pc EXCEPT ![r] = "loop"] /\ pc[r] = "swap"
          /\ UNCHANGED <<phase, sent, overtaken, done>>
          BY <2>4 DEF Swap
    <3>2. phase[r] = "handle" /\ \A q \in Refreshers, x \in Subs : ~Owes(q, x)
          BY <1>0, <3>1 DEF Mutex, Inside, Placed, Owes
    <3>3. ASSUME AutoResubscribe, ~done, NEW x \in Subs \ overtaken,
                 Where(x)' # NoNode, sent[x] # Where(x)'
          PROVE  Owes(r, x)'
      <4>1. Where(x) # Where(x)'
            BY <3>2, <3>3 DEF Moves
      <4>2. HashslotOf[x] \in Changes(fetched[r], current)
            BY <1>A, <3>1, <4>1 DEF Where, Changes
      <4> QED BY <1>0, <3>1, <3>2, <4>2 DEF Owes
    <3> QED BY <3>1, <3>3 DEF Moves
  <2>5. ASSUME NEW s \in Slots, HandleMigration(r, s) PROVE Moves'
    <3>1. /\ pc[r] = "loop" /\ phase[r] = "handle" /\ todo' = [todo EXCEPT ![r] = @ \ {s}]
          /\ UNCHANGED <<current, phase, sent, state, done, run, takes>>
          BY <2>5 DEF HandleMigration
    <3>2. \A q \in Refreshers \ {r} : /\ pc'[q] = pc[q] /\ at'[q] = at[q] /\ todo'[q] = todo[q]
                                      /\ found'[q] = found[q]
          BY <2>5, <1>0 DEF HandleMigration
    <3>3. pc'[r] \in {"loop", "check"} /\ overtaken \subseteq overtaken'
          BY <2>5, <1>0 DEF HandleMigration
    <3>4. ASSUME NEW x \in Subs, HashslotOf[x] = s, AutoResubscribe
          PROVE  x \in overtaken' \/ Owes(r, x)'
      <4>1. CASE state[x] = "live"
        <5>1. x \in {y \in Of(s) : state[y] = "live"}
              BY <3>4, <4>1 DEF Of
        <5>2. pc'[r] = "check" /\ at'[r] = s /\ x \in found'[r]
              BY <2>5, <1>0, <3>4, <5>1 DEF HandleMigration
        <5> QED BY <3>4, <5>2 DEF Owes, Moved
      <4>2. CASE state[x] = "failed" /\ ~InFlight(x)
        <5>1. ~InFlight(x)' /\ state'[x] = "failed"
              BY <3>1, <4>2 DEF InFlight
        <5> QED BY <1>0, <3>1, <3>3, <5>1 DEF Owes
      <4>3. CASE state[x] = "closed" \/ (state[x] = "failed" /\ InFlight(x))
            BY <2>5, <3>4, <4>3 DEF HandleMigration, Of
      <4> QED BY <1>0, <4>1, <4>2, <4>3
    <3>5. ASSUME NEW q \in Refreshers, NEW x \in Subs, HashslotOf[x] # s, Owes(q, x)
          PROVE  Owes(q, x)'
      <4>1. InFlight(x)' = InFlight(x) /\ state'[x] = state[x]
            BY <3>1 DEF InFlight
      <4>2. CASE q = r
            BY <1>0, <3>1, <3>3, <3>5, <4>1, <4>2 DEF Owes
      <4>3. CASE q # r
            BY <3>1, <3>2, <3>5, <4>1, <4>3 DEF Owes, Moved
      <4> QED BY <4>2, <4>3
    <3>6. ASSUME AutoResubscribe, ~done, NEW x \in Subs \ overtaken'
          PROVE  Where(x)' = NoNode \/ sent'[x] = Where(x)' \/ \E q \in Refreshers : Owes(q, x)'
      <4>1. Where(x)' = Where(x) /\ sent'[x] = sent[x] /\ x \notin overtaken
            BY <3>1, <3>3 DEF Where
      <4> QED BY <3>4, <3>5, <3>6, <4>1 DEF Moves
    <3> QED BY <3>1, <3>6 DEF Moves
  <2>6. ASSUME NEW s \in Slots, RecoverFailed(r, s) PROVE Moves'
    <3>1. /\ pc[r] = "loop" /\ phase[r] = "recover" /\ todo' = [todo EXCEPT ![r] = @ \ {s}]
          /\ UNCHANGED <<current, phase, found, sent, overtaken, state, done, run, takes>>
          BY <2>6 DEF RecoverFailed
    <3>2. \A q \in Refreshers \ {r} : pc'[q] = pc[q] /\ at'[q] = at[q] /\ todo'[q] = todo[q]
          BY <2>6, <1>0 DEF RecoverFailed
    <3>3. /\ pc'[r] \in {"loop", "check"}
          /\ current.node[s] # NoNode => pc'[r] = "check" /\ at'[r] = s
          BY <2>6, <1>0 DEF RecoverFailed
    <3>4. ASSUME NEW q \in Refreshers, NEW x \in Subs, Where(x) # NoNode, Owes(q, x)
          PROVE  Owes(q, x)'
      <4>1. InFlight(x)' = InFlight(x) /\ state'[x] = state[x]
            BY <3>1 DEF InFlight
      <4>2. CASE q = r
        <5>1. x \in found[r] /\ HashslotOf[x] \in todo[r]
              BY <3>1, <3>4, <4>2 DEF Owes
        <5>2. CASE HashslotOf[x] = s
              BY <3>1, <3>3, <3>4, <4>2, <5>1, <5>2 DEF Owes, Moved, Where
        <5>3. CASE HashslotOf[x] # s
              BY <1>0, <3>1, <3>3, <4>2, <5>1, <5>3 DEF Owes
        <5> QED BY <5>2, <5>3
      <4>3. CASE q # r
            BY <3>1, <3>2, <3>4, <4>1, <4>3 DEF Owes, Moved
      <4> QED BY <4>2, <4>3
    <3>5. ASSUME AutoResubscribe, ~done, NEW x \in Subs \ overtaken'
          PROVE  Where(x)' = NoNode \/ sent'[x] = Where(x)' \/ \E q \in Refreshers : Owes(q, x)'
      <4>1. Where(x)' = Where(x) /\ sent'[x] = sent[x] /\ x \notin overtaken
            BY <3>1, <3>5 DEF Where
      <4> QED BY <3>4, <3>5, <4>1 DEF Moves
    <3> QED BY <3>1, <3>5 DEF Moves
  <2>7. CASE CollectFailed(r)
    <3>1. /\ pc[r] = "loop" /\ phase[r] = "handle" /\ todo[r] = {}
          /\ UNCHANGED <<current, sent, overtaken, state, done, run, takes, at>>
          BY <2>7 DEF CollectFailed
    <3>2. CASE ~AutoResubscribe
          BY <3>2 DEF Moves
    <3>3. CASE AutoResubscribe
      <4>1. /\ phase' = [phase EXCEPT ![r] = "recover"] /\ found' = [found EXCEPT ![r] = FailedSubs]
            /\ todo' = [todo EXCEPT ![r] = {HashslotOf[x] : x \in FailedSubs}] /\ pc' = pc
            BY <2>7, <3>3 DEF CollectFailed
      <4>2. ASSUME NEW q \in Refreshers, NEW x \in Subs, Owes(q, x) PROVE Owes(q, x)'
        <5>1. InFlight(x)' = InFlight(x) /\ state'[x] = state[x]
              BY <3>1 DEF InFlight
        <5>2. CASE q = r
          <6>1. state[x] = "failed"
                BY <3>1, <4>2, <5>2 DEF Owes
          <6>2. x \in FailedSubs
                BY <6>1 DEF FailedSubs
          <6>3. x \in found'[r] /\ HashslotOf[x] \in todo'[r] /\ phase'[r] = "recover"
                BY <1>0, <4>1, <6>2
          <6> QED BY <3>1, <4>1, <5>2, <6>3 DEF Owes
        <5>3. CASE q # r
              BY <1>0, <3>1, <4>1, <4>2, <5>1, <5>3 DEF Owes, Moved
        <5> QED BY <5>2, <5>3
      <4> QED BY <1>B, <3>1, <4>2
    <3> QED BY <3>2, <3>3
  <2>8. CASE RecoveredAll(r)
    <3>1. UNCHANGED <<current, sent, overtaken, done>>
          BY <2>8 DEF RecoveredAll
    <3>2. \A q \in Refreshers, x \in Subs : Owes(q, x) => Owes(q, x)'
          BY <2>8, <1>0 DEF RecoveredAll, Owes, Moved, InFlight
    <3> QED BY <1>B, <3>1, <3>2
  <2>9. CASE LaunchRefused(r)
        BY <2>9 DEF LaunchRefused, Moves
  <2>10. CASE CancelPrevious(r)
    <3>1. UNCHANGED <<current, sent, overtaken, done>>
          BY <2>10 DEF CancelPrevious
    <3>2. \A q \in Refreshers, x \in Subs : Owes(q, x) => Owes(q, x)'
          BY <2>10, <1>0 DEF CancelPrevious, Owes, Moved, InFlight
    <3> QED BY <1>B, <3>1, <3>2
  <2>11. CASE Launch(r)
    <3>1. /\ pc[r] = "store" /\ pc' = [pc EXCEPT ![r] = "loop"] /\ at' = [at EXCEPT ![r] = NoSlot]
          /\ found' = [found EXCEPT ![r] = @ \ Moved(r)]
          /\ sent' = [x \in Subs |-> IF x \in Moved(r) THEN current.node[at[r]] ELSE sent[x]]
          /\ overtaken' = overtaken \ Moved(r)
          /\ UNCHANGED <<current, phase, todo, state, done>>
          BY <2>11 DEF Launch
    <3>2. PICK h \in Handles : /\ run[h] = "free" /\ run' = [run EXCEPT ![h] = "running"]
                               /\ takes' = [takes EXCEPT ![h] = Moved(r)]
          BY <2>11, LaunchPicks
    <3>3. ASSUME NEW x \in Subs, x \in Moved(r) PROVE sent'[x] = Where(x)'
          BY <3>1, <3>3 DEF Moved, Where
    <3>4. ASSUME NEW q \in Refreshers, NEW x \in Subs \ Moved(r), Owes(q, x) PROVE Owes(q, x)'
      <4>1. ~InFlight(x) => ~InFlight(x)'
            BY <1>0, <3>2, <3>4 DEF InFlight
      <4>2. CASE q = r
        <5>1. \/ phase[r] = "handle" /\ HashslotOf[x] \in todo[r]
              \/ phase[r] = "handle" /\ state[x] = "failed" /\ ~InFlight(x)
              \/ phase[r] = "recover" /\ x \in found[r] /\ HashslotOf[x] \in todo[r]
              BY <3>4, <4>2 DEF Owes
        <5>2. /\ pc'[r] = "loop" /\ phase'[r] = phase[r] /\ todo'[r] = todo[r] /\ state'[x] = state[x]
              /\ x \in found[r] => x \in found'[r]
              BY <1>0, <3>1, <3>4
        <5> QED BY <4>1, <4>2, <5>1, <5>2 DEF Owes
      <4>3. CASE q # r
        <5>1. /\ pc'[q] = pc[q] /\ at'[q] = at[q] /\ found'[q] = found[q]
              /\ phase'[q] = phase[q] /\ todo'[q] = todo[q] /\ state'[x] = state[x]
              BY <1>0, <3>1, <4>3
        <5> QED BY <3>4, <4>1, <5>1 DEF Owes, Moved
      <4> QED BY <4>2, <4>3
    <3>5. ASSUME AutoResubscribe, ~done, NEW x \in Subs \ overtaken'
          PROVE  Where(x)' = NoNode \/ sent'[x] = Where(x)' \/ \E q \in Refreshers : Owes(q, x)'
      <4>1. CASE x \in Moved(r)
            BY <3>3, <4>1
      <4>2. CASE x \notin Moved(r)
        <5>1. x \in Subs \ overtaken /\ sent'[x] = sent[x] /\ Where(x)' = Where(x)
              BY <3>1, <3>5, <4>2 DEF Where
        <5> QED BY <3>4, <3>5, <4>2, <5>1 DEF Moves
      <4> QED BY <4>1, <4>2
    <3> QED BY <3>1, <3>5 DEF Moves
  <2>12. CASE Unlock(r)
    <3>1. UNCHANGED <<current, sent, overtaken, done>>
          BY <2>12 DEF Unlock
    <3>2. \A q \in Refreshers, x \in Subs : Owes(q, x) => Owes(q, x)'
          BY <2>12, <1>0 DEF Unlock, Owes, Moved, InFlight
    <3> QED BY <1>B, <3>1, <3>2
  <2>13. CASE FetchFails(r)
    <3>1. UNCHANGED <<current, sent, overtaken, done>>
          BY <2>13 DEF FetchFails
    <3>2. \A q \in Refreshers, x \in Subs : Owes(q, x) => Owes(q, x)'
          BY <2>13, <1>0 DEF FetchFails, Owes, Moved, InFlight
    <3> QED BY <1>B, <3>1, <3>2
  <2> QED BY <1>3, <2>1, <2>2, <2>3, <2>4, <2>5, <2>6, <2>7, <2>8, <2>9, <2>10, <2>11, <2>12,
             <2>13 DEF Refresh
<1>4. ASSUME NEW r \in Redirects, TriggerRefresh(r) \/ TriggerChecks(r) PROVE Moves'
  <2>0. r \in Refreshers
        BY DEF Refreshers, Counted
  <2>1. CASE TriggerRefresh(r)
    <3>1. UNCHANGED <<current, sent, overtaken, done>>
          BY <2>1 DEF TriggerRefresh
    <3>2. \A q \in Refreshers, x \in Subs : Owes(q, x) => Owes(q, x)'
          BY <2>1, <1>0 DEF TriggerRefresh, Owes, Moved, InFlight
    <3> QED BY <1>B, <3>1, <3>2
  <2>2. CASE TriggerChecks(r)
    <3>1. UNCHANGED <<current, sent, overtaken, done>>
          BY <2>2 DEF TriggerChecks
    <3>2. \A q \in Refreshers, x \in Subs : Owes(q, x) => Owes(q, x)'
          BY <2>2, <1>0 DEF TriggerChecks, Owes, Moved, InFlight
    <3> QED BY <1>B, <3>1, <3>2
  <2> QED BY <1>4, <2>1, <2>2
<1>5. CASE Tick
  <2>1. UNCHANGED <<current, sent, overtaken, done>>
        BY <1>5 DEF Tick
  <2>2. \A q \in Refreshers, x \in Subs : Owes(q, x) => Owes(q, x)'
        BY <1>5, <1>0 DEF Tick, Owes, Moved, InFlight
  <2> QED BY <1>B, <2>1, <2>2
<1>6. CASE MonitorExits
  <2>1. UNCHANGED <<current, sent, overtaken, done>>
        BY <1>6 DEF MonitorExits
  <2>2. \A q \in Refreshers, x \in Subs : Owes(q, x) => Owes(q, x)'
        BY <1>6, <1>0 DEF MonitorExits, Owes, Moved, InFlight
  <2> QED BY <1>B, <2>1, <2>2
<1>7. CASE Stop
      BY <1>7 DEF Stop, Moves
<1>8. CASE StopWaits
  <2>1. UNCHANGED <<current, sent, overtaken, done>>
        BY <1>8 DEF StopWaits
  <2>2. \A q \in Refreshers, x \in Subs : Owes(q, x) => Owes(q, x)'
        BY <1>8, <1>0 DEF StopWaits, Owes, Moved, InFlight
  <2> QED BY <1>B, <2>1, <2>2
<1>9. ASSUME NEW h \in Handles, Migrate(h) PROVE Moves'
  <2>1. CASE MigrationEnds(h)
    <3>1. UNCHANGED <<current, sent, overtaken, done>>
          BY <2>1 DEF MigrationEnds
    <3>2. \A q \in Refreshers, x \in Subs : Owes(q, x) => Owes(q, x)'
          BY <2>1, <1>0 DEF MigrationEnds, Owes, Moved, InFlight
    <3> QED BY <1>B, <3>1, <3>2
  <2>2. CASE Forget(h)
    <3>1. UNCHANGED <<current, sent, overtaken, done>>
          BY <2>2 DEF Forget
    <3>2. \A q \in Refreshers, x \in Subs : Owes(q, x) => Owes(q, x)'
          BY <2>2, <1>0 DEF Forget, Owes, Moved, InFlight
    <3> QED BY <1>B, <3>1, <3>2
  <2>3. CASE MigrationDone(h)
    <3>1. UNCHANGED <<current, sent, overtaken, done>>
          BY <2>3 DEF MigrationDone
    <3>2. \A q \in Refreshers, x \in Subs : Owes(q, x) => Owes(q, x)'
          BY <2>3, <1>0 DEF MigrationDone, Owes, Moved, InFlight
    <3> QED BY <1>B, <3>1, <3>2
  <2>4. CASE MigrationMoves(h)
    <3>1. UNCHANGED <<current, sent, overtaken, done>>
          BY <2>4 DEF MigrationMoves
    <3>2. \A q \in Refreshers, x \in Subs : Owes(q, x) => Owes(q, x)'
          BY <2>4, <1>0 DEF MigrationMoves, Owes, Moved, InFlight
    <3> QED BY <1>B, <3>1, <3>2
  <2> QED BY <1>9, <2>1, <2>2, <2>3, <2>4 DEF Migrate
<1>10. ASSUME NEW s \in Slots, ConnectionLost(s) PROVE Moves'
  <2>1. UNCHANGED <<current, sent, overtaken, done>>
        BY <1>10 DEF ConnectionLost
  <2>2. \A q \in Refreshers, x \in Subs : Owes(q, x) => Owes(q, x)'
        BY <1>10, <1>0 DEF ConnectionLost, Owes, Moved, InFlight
  <2> QED BY <1>B, <2>1, <2>2
<1>11. CASE UNCHANGED vars
  <2>1. UNCHANGED <<current, sent, overtaken, done>>
        BY <1>11 DEF vars
  <2>2. \A q \in Refreshers, x \in Subs : Owes(q, x) => Owes(q, x)'
        BY <1>11, <1>0 DEF vars, Owes, Moved, InFlight
  <2> QED BY <1>B, <2>1, <2>2
<1>12. ASSUME NEW r \in Callers, ForceRefresh(r) PROVE Moves'
  <2>1. UNCHANGED <<current, sent, overtaken, done>>
        BY <1>12 DEF ForceRefresh
  <2>2. \A q \in Refreshers, x \in Subs : Owes(q, x) => Owes(q, x)'
        BY <1>12, <1>0 DEF ForceRefresh, Owes, Moved, InFlight
  <2> QED BY <1>B, <2>1, <2>2
<1> QED BY <1>1, <1>2, <1>3, <1>4, <1>5, <1>6, <1>7, <1>8, <1>9, <1>10, <1>11, <1>12
           DEF Next, ClusterChanges

\* Only a migration that has been cancelled loses its place in activeMigrations.
LEMMA NewestStep ==
  ASSUME TypeOK, Placed, NewestIsCancellable, Replaced, [Next]_vars
  PROVE  NewestIsCancellable'
<1> USE TopologyAssumption DEF TypeOK, NewestIsCancellable, goVars, vars
<1>0. \A h \in Handles : run[h] # "free" => slotOf[h] \in Slots
      BY DEF Placed
<1>1. ASSUME NEW s \in Slots, NEW n \in Nodes \cup {NoNode}, Reshard(s, n)
      PROVE  NewestIsCancellable'
      BY <1>1 DEF Reshard
<1>2. ASSUME NEW n \in Nodes, Failover(n) PROVE NewestIsCancellable'
      BY <1>2 DEF Failover
<1>3. ASSUME NEW r \in Refreshers, Refresh(r) \/ FetchFails(r) PROVE NewestIsCancellable'
  <2>1. CASE Lock(r)
        BY <2>1 DEF Lock
  <2>2. CASE FetchSlots(r)
        BY <2>2 DEF FetchSlots
  <2>3. CASE FetchNodes(r)
        BY <2>3 DEF FetchNodes
  <2>4. CASE Swap(r)
        BY <2>4 DEF Swap
  <2>5. ASSUME NEW s \in Slots, HandleMigration(r, s) PROVE NewestIsCancellable'
        BY <2>5 DEF HandleMigration
  <2>6. ASSUME NEW s \in Slots, RecoverFailed(r, s) PROVE NewestIsCancellable'
        BY <2>6 DEF RecoverFailed
  <2>7. CASE CollectFailed(r)
        BY <2>7 DEF CollectFailed
  <2>8. CASE RecoveredAll(r)
        BY <2>8 DEF RecoveredAll
  <2>9. CASE LaunchRefused(r)
        BY <2>9 DEF LaunchRefused
  <2>10. CASE CancelPrevious(r)
        BY <2>10 DEF CancelPrevious
  <2>11. CASE Launch(r)
    <3>1. PICK h \in Handles :
            /\ run[h] = "free" /\ active' = [active EXCEPT ![at[r]] = h]
            /\ run' = [run EXCEPT ![h] = "running"] /\ slotOf' = [slotOf EXCEPT ![h] = at[r]]
            /\ ctx' = [ctx EXCEPT ![h] = "live"]
          BY <2>11, LaunchPicks
    <3>2. pc[r] = "store" /\ at[r] \in Slots
          BY <2>11 DEF Launch, Placed
    <3>3. active'[slotOf'[h]] = h
          BY <3>1, <3>2
    <3>4. ASSUME NEW k \in Handles \ {h}, run'[k] = "running", ctx'[k] = "live"
          PROVE  active'[slotOf'[k]] = k
      <4>1. run[k] = "running" /\ ctx[k] = "live" /\ slotOf'[k] = slotOf[k]
            BY <3>1, <3>4
      <4>2. slotOf[k] # at[r] /\ slotOf[k] \in Slots
            BY <3>2, <4>1 DEF Replaced, Placed
      <4> QED BY <3>1, <3>2, <4>1, <4>2
    <3> QED BY <3>3, <3>4
  <2>12. CASE Unlock(r)
        BY <2>12 DEF Unlock
  <2>13. CASE FetchFails(r)
        BY <2>13 DEF FetchFails
  <2> QED BY <1>3, <2>1, <2>2, <2>3, <2>4, <2>5, <2>6, <2>7, <2>8, <2>9, <2>10, <2>11, <2>12,
             <2>13 DEF Refresh
<1>4. ASSUME NEW r \in Redirects, TriggerRefresh(r) \/ TriggerChecks(r) PROVE NewestIsCancellable'
  <2>0. r \in Refreshers
        BY DEF Refreshers, Counted
  <2>1. CASE TriggerRefresh(r)
        BY <2>0, <2>1 DEF TriggerRefresh
  <2>2. CASE TriggerChecks(r)
        BY <2>0, <2>2 DEF TriggerChecks
  <2> QED BY <1>4, <2>1, <2>2
<1>5. CASE Tick
      BY <1>5 DEF Tick
<1>6. CASE MonitorExits
      BY <1>6 DEF MonitorExits
<1>7. CASE Stop
      BY <1>7 DEF Stop
<1>8. CASE StopWaits
      BY <1>8 DEF StopWaits
<1>9. ASSUME NEW h \in Handles, Migrate(h) PROVE NewestIsCancellable'
  <2>1. CASE MigrationEnds(h)
        BY <2>1 DEF MigrationEnds
  <2>2. CASE Forget(h)
        BY <2>2, <1>0 DEF Forget
  <2>3. CASE MigrationDone(h)
        BY <2>3 DEF MigrationDone
  <2>4. CASE MigrationMoves(h)
        BY <2>4 DEF MigrationMoves
  <2> QED BY <1>9, <2>1, <2>2, <2>3, <2>4 DEF Migrate
<1>10. ASSUME NEW s \in Slots, ConnectionLost(s) PROVE NewestIsCancellable'
      BY <1>10 DEF ConnectionLost
<1>11. CASE UNCHANGED vars
      BY <1>11 DEF vars
<1>12. ASSUME NEW r \in Callers, ForceRefresh(r) PROVE NewestIsCancellable'
  <2>0. r \in Refreshers
        BY DEF Refreshers
  <2> QED BY <1>12, <2>0 DEF ForceRefresh
<1> QED BY <1>1, <1>2, <1>3, <1>4, <1>5, <1>6, <1>7, <1>8, <1>9, <1>10, <1>11,
           <1>12 DEF Next, ClusterChanges

\* What a launch is about to replace is cancelled, and stays so.
LEMMA ReplacedStep ==
  ASSUME TypeOK, Mutex, Placed, NewestIsCancellable, Replaced, [Next]_vars
  PROVE  Replaced'
<1> USE TopologyAssumption, RefreshersFinite DEF TypeOK, Replaced, Go, refreshVars, goVars, vars
<1>1. ASSUME NEW s \in Slots, NEW n \in Nodes \cup {NoNode}, Reshard(s, n) PROVE Replaced'
      BY <1>1 DEF Reshard
<1>2. ASSUME NEW n \in Nodes, Failover(n) PROVE Replaced'
      BY <1>2 DEF Failover
<1>3. ASSUME NEW r \in Refreshers, Refresh(r) \/ FetchFails(r) PROVE Replaced'
  <2>1. CASE Lock(r)
        BY <2>1 DEF Lock
  <2>2. CASE FetchSlots(r)
        BY <2>2 DEF FetchSlots
  <2>3. CASE FetchNodes(r)
        BY <2>3 DEF FetchNodes
  <2>4. CASE Swap(r)
        BY <2>4 DEF Swap
  <2>5. ASSUME NEW s \in Slots, HandleMigration(r, s) PROVE Replaced'
        BY <2>5 DEF HandleMigration
  <2>6. ASSUME NEW s \in Slots, RecoverFailed(r, s) PROVE Replaced'
        BY <2>6 DEF RecoverFailed
  <2>7. CASE CollectFailed(r)
        BY <2>7 DEF CollectFailed
  <2>8. CASE RecoveredAll(r)
        BY <2>8 DEF RecoveredAll
  <2>9. CASE LaunchRefused(r)
        BY <2>9 DEF LaunchRefused
  <2>10. CASE CancelPrevious(r)
        BY <2>10 DEF CancelPrevious, NewestIsCancellable
  <2>11. CASE Launch(r)
    <3>1. pc[r] = "store" /\ pc' = [pc EXCEPT ![r] = "loop"]
          BY <2>11 DEF Launch
    <3>2. \A x \in Refreshers : pc'[x] # "store"
          BY <3>1 DEF Mutex, Inside
    <3> QED BY <3>2
  <2>12. CASE Unlock(r)
        BY <2>12 DEF Unlock
  <2>13. CASE FetchFails(r)
        BY <2>13 DEF FetchFails
  <2> QED BY <1>3, <2>1, <2>2, <2>3, <2>4, <2>5, <2>6, <2>7, <2>8, <2>9, <2>10, <2>11, <2>12,
             <2>13 DEF Refresh
<1>4. ASSUME NEW r \in Redirects, TriggerRefresh(r) \/ TriggerChecks(r) PROVE Replaced'
  <2>0. r \in Refreshers
        BY DEF Refreshers, Counted
  <2>1. CASE TriggerRefresh(r)
        BY <2>0, <2>1 DEF TriggerRefresh
  <2>2. CASE TriggerChecks(r)
        BY <2>0, <2>2 DEF TriggerChecks
  <2> QED BY <1>4, <2>1, <2>2
<1>5. CASE Tick
      BY <1>5 DEF Tick
<1>6. CASE MonitorExits
      BY <1>6 DEF MonitorExits
<1>7. CASE Stop
      BY <1>7 DEF Stop
<1>8. CASE StopWaits
      BY <1>8 DEF StopWaits
<1>9. ASSUME NEW h \in Handles, Migrate(h) PROVE Replaced'
  <2>1. CASE MigrationEnds(h)
        BY <2>1 DEF MigrationEnds
  <2>2. CASE Forget(h)
        BY <2>2 DEF Forget
  <2>3. CASE MigrationDone(h)
        BY <2>3 DEF MigrationDone
  <2>4. CASE MigrationMoves(h)
        BY <2>4 DEF MigrationMoves
  <2> QED BY <1>9, <2>1, <2>2, <2>3, <2>4 DEF Migrate
<1>10. ASSUME NEW s \in Slots, ConnectionLost(s) PROVE Replaced'
      BY <1>10 DEF ConnectionLost
<1>11. CASE UNCHANGED vars
      BY <1>11 DEF vars
<1>12. ASSUME NEW r \in Callers, ForceRefresh(r) PROVE Replaced'
  <2>0. r \in Refreshers
        BY DEF Refreshers
  <2> QED BY <1>12, <2>0 DEF ForceRefresh
<1> QED BY <1>1, <1>2, <1>3, <1>4, <1>5, <1>6, <1>7, <1>8, <1>9, <1>10, <1>11,
           <1>12 DEF Next, ClusterChanges

\* When wg is zero nothing runs.
LEMMA ZeroIsQuiet ==
  ASSUME TypeOK, WgCounts, wg = 0
  PROVE  /\ \A r \in Counted : pc[r] \in {"off", "over"}
         /\ \A r \in Refreshers : pc[r] # "store"
         /\ \A h \in Handles : run[h] = "free"
<1> DEFINE A == {r \in Counted : pc[r] \notin {"off", "over"}}
           B == {r \in Refreshers : pc[r] \in {"check", "store"}}
           C == {h \in Handles : run[h] # "free"}
<1>1. IsFiniteSet(A) /\ IsFiniteSet(B) /\ IsFiniteSet(C)
      BY RefreshersFinite, TopologyAssumption, FS_Subset
<1>2. wg = Cardinality(A) + Cardinality(B) + Cardinality(C)
      BY DEF WgCounts
<1>3. A = {} /\ B = {} /\ C = {}
  <2> HIDE DEF A, B, C
  <2>1. Cardinality(A) \in Nat /\ Cardinality(B) \in Nat /\ Cardinality(C) \in Nat
        BY <1>1, FS_CardinalityType
  <2>2. Cardinality(A) = 0 /\ Cardinality(B) = 0 /\ Cardinality(C) = 0
        BY <1>2, <2>1
  <2> QED BY <1>1, <2>2, FS_EmptySet
<1> QED BY <1>3

\* After stop a redirect can still come, and finds done, and so does the refresh that a
\* lookup forces, before it launches anything.
LEMMA StoppedStep ==
  ASSUME TypeOK, WgCounts, Placed, Stopped, [Next]_vars
  PROVE  Stopped'
<1> USE RefreshersFinite DEF TypeOK, Stopped, NothingAfterStop, Go, refreshVars, goVars, vars
<1>1. ASSUME NEW s \in Slots, NEW n \in Nodes \cup {NoNode}, Reshard(s, n) PROVE Stopped'
      BY <1>1 DEF Reshard
<1>2. ASSUME NEW n \in Nodes, Failover(n) PROVE Stopped'
      BY <1>2 DEF Failover
<1>3. ASSUME NEW r \in Refreshers, Refresh(r) \/ FetchFails(r) PROVE Stopped'
  <2>1. CASE Lock(r)
        BY <2>1 DEF Lock
  <2>2. CASE FetchSlots(r)
        BY <2>2 DEF FetchSlots
  <2>3. CASE FetchNodes(r)
        BY <2>3 DEF FetchNodes
  <2>4. CASE Swap(r)
        BY <2>4 DEF Swap
  <2>5. ASSUME NEW s \in Slots, HandleMigration(r, s) PROVE Stopped'
        BY <2>5 DEF HandleMigration
  <2>6. ASSUME NEW s \in Slots, RecoverFailed(r, s) PROVE Stopped'
        BY <2>6 DEF RecoverFailed
  <2>7. CASE CollectFailed(r)
        BY <2>7 DEF CollectFailed
  <2>8. CASE RecoveredAll(r)
        BY <2>8 DEF RecoveredAll
  <2>9. CASE LaunchRefused(r)
        BY <2>9 DEF LaunchRefused
  <2>10. CASE CancelPrevious(r)
        BY <2>10 DEF CancelPrevious
  <2>11. CASE Launch(r)
        BY <2>11 DEF Launch
  <2>12. CASE Unlock(r)
        BY <2>12 DEF Unlock
  <2>13. CASE FetchFails(r)
        BY <2>13 DEF FetchFails
  <2> QED BY <1>3, <2>1, <2>2, <2>3, <2>4, <2>5, <2>6, <2>7, <2>8, <2>9, <2>10, <2>11, <2>12,
             <2>13 DEF Refresh
<1>4. ASSUME NEW r \in Redirects, TriggerRefresh(r) \/ TriggerChecks(r) PROVE Stopped'
  <2>0. r \in Refreshers
        BY DEF Refreshers, Counted
  <2>1. CASE TriggerRefresh(r)
        BY <2>0, <2>1 DEF TriggerRefresh
  <2>2. CASE TriggerChecks(r)
        BY <2>0, <2>2 DEF TriggerChecks
  <2> QED BY <1>4, <2>1, <2>2
<1>5. CASE Tick
      BY <1>5 DEF Tick, Placed
<1>6. CASE MonitorExits
      BY <1>6 DEF MonitorExits, Placed
<1>7. CASE Stop
      BY <1>7 DEF Stop
<1>8. CASE StopWaits
      BY <1>8, ZeroIsQuiet DEF StopWaits
<1>9. ASSUME NEW h \in Handles, Migrate(h) PROVE Stopped'
  <2>1. CASE MigrationEnds(h)
        BY <2>1 DEF MigrationEnds
  <2>2. CASE Forget(h)
        BY <2>2 DEF Forget
  <2>3. CASE MigrationDone(h)
        BY <2>3 DEF MigrationDone
  <2>4. CASE MigrationMoves(h)
        BY <2>4 DEF MigrationMoves
  <2> QED BY <1>9, <2>1, <2>2, <2>3, <2>4 DEF Migrate
<1>10. ASSUME NEW s \in Slots, ConnectionLost(s) PROVE Stopped'
      BY <1>10 DEF ConnectionLost
<1>11. CASE UNCHANGED vars
      BY <1>11 DEF vars
<1>12. ASSUME NEW r \in Callers, ForceRefresh(r) PROVE Stopped'
  <2>0. r \in Refreshers
        BY DEF Refreshers
  <2> QED BY <1>12, <2>0 DEF ForceRefresh
<1> QED BY <1>1, <1>2, <1>3, <1>4, <1>5, <1>6, <1>7, <1>8, <1>9, <1>10, <1>11,
           <1>12 DEF Next, ClusterChanges

-----------------------------------------------------------------------------
(* The theorems *)

\* A monitor that has been started satisfies the invariant.
LEMMA InitIInv == Init => IInv
<1> SUFFICES ASSUME Init PROVE IInv
    OBVIOUS
<1> USE TopologyAssumption, RefreshersFinite, EmptyStateType
<1>1. TypeOK
  <2>3. owner \in [Slots -> Nodes \cup {NoNode}] /\ masterOf \in [Nodes -> Nodes]
        BY DEF Init
  <2>4. /\ pc = [r \in Refreshers |-> IF r = "monitor" THEN "lock" ELSE "off"]
        /\ fetched \in [Refreshers -> TopoState] /\ current \in TopoState
        BY DEF Init
  <2>5. /\ done \in BOOLEAN /\ stopPc \in {"running", "waiting", "returned"}
        /\ state \in [Subs -> {"live", "failed", "closed"}]
        BY DEF Init
  <2>6. epoch = 1 /\ failures = 0 /\ wg = 1
        BY DEF Init
  <2>7. epoch \in Nat \ {0} /\ failures \in Nat /\ wg \in Int
        BY <2>6
  <2> QED BY <2>3, <2>4, <2>5, <2>7 DEF Init, TypeOK
<1>2. WgCounts
  <2>1. {r \in Counted : pc[r] \notin {"off", "over"}} = {"monitor"}
        BY DEF Init
  <2>2. {r \in Refreshers : pc[r] \in {"check", "store"}} = {}
        BY DEF Init
  <2>3. {h \in Handles : run[h] # "free"} = {}
        BY DEF Init
  <2>4. Cardinality({"monitor"}) = 1 /\ Cardinality({}) = 0
        BY FS_Singleton, FS_EmptySet
  <2>5. wg = 1
        BY DEF Init
  <2>6. Cardinality({r \in Counted : pc[r] \notin {"off", "over"}}) = 1
        BY <2>1, <2>4
  <2>7. Cardinality({r \in Refreshers : pc[r] \in {"check", "store"}}) = 0
        BY <2>2, <2>4
  <2>8. Cardinality({h \in Handles : run[h] # "free"}) = 0
        BY <2>3, <2>4
  <2> QED BY <2>5, <2>6, <2>7, <2>8 DEF WgCounts
<1>3. Mutex /\ Placed
      BY DEF Init, Mutex, Inside, Placed
<1>4. Known
  <2>1. Honest(EmptyState)
        BY <1>1, EmptyIsHonest
  <2>2. current = EmptyState /\ \A r \in Refreshers : fetched[r] = EmptyState
        BY DEF Init
  <2>3. \A r \in Refreshers : pc[r] \notin {"nodes", "swap"}
        BY DEF Init
  <2> QED BY <2>1, <2>2, <2>3 DEF Known
<1>5. Moves
  <2>1. \A x \in Subs : HashslotOf[x] \in Slots
        BY DEF Slots
  <2> QED BY <2>1 DEF Init, Moves, Where, EmptyState
<1>6. NewestIsCancellable /\ Replaced /\ Stopped
      BY DEF Init, NewestIsCancellable, Replaced, Stopped, NothingAfterStop
<1> QED BY <1>1, <1>2, <1>3, <1>4, <1>5, <1>6 DEF IInv

\* Every step keeps the invariant.
LEMMA NextIInv == IInv /\ [Next]_vars => IInv'
<1> SUFFICES ASSUME IInv, [Next]_vars PROVE IInv'
    OBVIOUS
<1>1. /\ TypeOK /\ WgCounts /\ Mutex /\ Placed /\ Known /\ Moves
      /\ NewestIsCancellable /\ Replaced /\ Stopped
      BY DEF IInv
<1>2. TypeOK'
      BY <1>1, TypeStep
<1>3. WgCounts'
  <2>1. wg = Count(pc, run)
        BY <1>1, CountParts DEF TypeOK, WgCounts, Pcs, Runs, Count
  <2>2. wg' = Count(pc', run')
        BY <1>1, <2>1, CountStep
  <2>3. pc' \in [Refreshers -> Pcs] /\ run' \in [Handles -> Runs]
        BY <1>2 DEF TypeOK, Pcs, Runs
  <2> QED BY <2>2, <2>3, CountParts DEF WgCounts, Count
<1>4. Mutex' /\ Placed'
      BY <1>1, MutexStep, PlacedStep
<1>5. Known'
      BY <1>1, <1>2, KnownStep
<1>6. Moves'
      BY <1>1, <1>2, MovesStep
<1>7. NewestIsCancellable' /\ Replaced' /\ Stopped'
      BY <1>1, NewestStep, ReplacedStep, StoppedStep
<1> QED BY <1>2, <1>3, <1>4, <1>5, <1>6, <1>7 DEF IInv

\* The invariant always holds.
LEMMA Invariance == Spec => []IInv
BY InitIInv, NextIInv, PTL DEF Spec

\* The topology monitor's knowledge, for any number of hashslots, nodes, redirects and
\* changes: a topology fetched at the present epoch has exactly the cluster's masters,
\* its lists start with the master and repeat nobody, and wg counts what runs
\* (update, enrichWithReplicaInfo, compareAndDetectChanges, tm.wg).
THEOREM KnowledgeTheorem == Spec => []KnowledgeIsSound
<1>1. IInv => KnowledgeIsSound
  <2> SUFFICES ASSUME IInv PROVE KnowledgeIsSound
      OBVIOUS
  <2>1. MastersAreTheClusters
        BY DEF IInv, Known, Honest, MastersAreTheClusters
  <2>2. NodeListsAreSound
        BY DEF IInv, Known, Honest, Sound, NodeListsAreSound
  <2> QED BY <2>1, <2>2 DEF IInv, KnowledgeIsSound
<1> QED BY <1>1, Invariance, PTL

\* No change of the topology is lost between the swap and the launch of its migration,
\* whatever the cluster, the refreshes and the failures do meanwhile: every subscription is
\* sent to the node of its hashslot, but for those that an earlier migration was moving
\* and that were passed by (refreshTopology, findAffectedSubscriptions).
THEOREM NoMoveLostTheorem == Spec => []NoMoveLost
<1>1. IInv => NoMoveLost
  <2> SUFFICES ASSUME IInv, AutoResubscribe, ~done,
                      \A r \in Refreshers : pc[r] \notin {"loop", "check", "store"},
                      NEW x \in Subs \ overtaken
               PROVE  Where(x) # NoNode => sent[x] = Where(x)
      BY DEF NoMoveLost, Where
  <2>1. \A r \in Refreshers : ~Owes(r, x)
        BY DEF Owes
  <2> QED BY <2>1 DEF IInv, Moves
<1> QED BY <1>1, Invariance, PTL

\* The newest migration of a hashslot can always be cancelled by the next one
\* (activeMigrations: cancel and replace, CompareAndDelete).
THEOREM NewestTheorem == Spec => []NewestIsCancellable
<1>1. IInv => NewestIsCancellable
      BY DEF IInv
<1> QED BY <1>1, Invariance, PTL

\* After stop has returned no migration runs and no refresh of the monitor or of a redirect
\* (wg.Add before the check of done); a refresh that a lookup forces launches nothing.
THEOREM StopTheorem == Spec => []NothingAfterStop
<1>1. IInv => NothingAfterStop
      BY DEF IInv, Stopped
<1> QED BY <1>1, Invariance, PTL

\* Refreshes that overlap never put an older topology in place of a newer one
\* (refreshMu over fetch and swap).
THEOREM BackwardsTheorem == Spec => NeverBackwards
<1>1. IInv /\ [Next]_vars => [current'.at >= current.at]_vars
  <2> SUFFICES ASSUME IInv, Next PROVE current'.at >= current.at
      OBVIOUS
  <2>1. /\ current.at \in Nat /\ \A r \in Refreshers : fetched[r].at \in Nat
    <3>1. \A t \in TopoState : t.at \in Nat
          BY DEF TopoState
    <3> QED BY <3>1 DEF IInv, TypeOK
  <2>2. ASSUME NEW r \in Refreshers, Swap(r) PROVE current'.at >= current.at
    <3>1. pc[r] = "swap" /\ current' = fetched[r]
          BY <2>2 DEF Swap
    <3>2. current.at <= fetched[r].at
          BY <3>1 DEF IInv, Known
    <3> QED BY <2>1, <3>1, <3>2
  <2>3. ASSUME ~\E r \in Refreshers : Swap(r) PROVE current' = current
    <3>1. CASE ClusterChanges
          BY <3>1 DEF ClusterChanges, Reshard, Failover
    <3>2. ASSUME NEW r \in Refreshers, Refresh(r) \/ FetchFails(r) PROVE current' = current
          BY <2>3, <3>2 DEF Refresh, Lock, FetchSlots, FetchNodes, HandleMigration, RecoverFailed,
             CollectFailed, RecoveredAll, LaunchRefused, CancelPrevious, Launch, Unlock, FetchFails
    <3>3. ASSUME NEW r \in Redirects, TriggerRefresh(r) \/ TriggerChecks(r)
          PROVE  current' = current
          BY <3>3 DEF TriggerRefresh, TriggerChecks
    <3>4. CASE Tick \/ MonitorExits \/ Stop \/ StopWaits
          BY <3>4 DEF Tick, MonitorExits, Stop, StopWaits
    <3>5. ASSUME NEW h \in Handles, Migrate(h) PROVE current' = current
          BY <3>5 DEF Migrate, MigrationMoves, MigrationEnds, Forget, MigrationDone
    <3>6. ASSUME NEW s \in Slots, ConnectionLost(s) PROVE current' = current
          BY <3>6 DEF ConnectionLost
    <3>7. ASSUME NEW r \in Callers, ForceRefresh(r) PROVE current' = current
          BY <3>7 DEF ForceRefresh
    <3> QED BY <3>1, <3>2, <3>3, <3>4, <3>5, <3>6, <3>7 DEF Next
  <2> QED BY <2>1, <2>2, <2>3
<1> QED BY <1>1, Invariance, PTL DEF Spec, NeverBackwards

=============================================================================
