--------------------------- MODULE ConnPool_proofs ---------------------------
(***************************************************************************)
(* The connection pool, for any number of callers, hashslots, nodes,       *)
(* connections and failures: its registries agree, its cache follows the   *)
(* master, and closeAll leaves nothing working.                            *)
(***************************************************************************)
EXTENDS ConnPool, FiniteSetTheorems, SequenceTheorems, NaturalsInduction, TLAPS

-----------------------------------------------------------------------------
(* The operators of the pool *)

\* A set of naturals that is not empty has a least member.
LEMMA LeastNatural ==
  ASSUME NEW S \in SUBSET Nat, S # {}
  PROVE  \E m \in S : \A j \in S : m <= j
<1>1. PICK m \in S : \A j \in S : ~ (<<j, m>> \in OpToRel(<, Nat))
      BY WFMin, NatLessThanWellFounded
<1>2. \A j \in S : ~ (j < m)
      BY <1>1 DEF OpToRel
<1>3. \A j \in S : j \in Nat
      OBVIOUS
<1>4. \A j \in S : m <= j
      BY <1>2, <1>3
<1> QED BY <1>4

\* Among positions with a weight there is the first of the lightest.
LEMMA FirstLightest ==
  ASSUME NEW D \in SUBSET Nat, D # {}, NEW w \in [D -> Nat]
  PROVE  \E i \in D : \A j \in D : w[i] < w[j] \/ (w[i] = w[j] /\ i <= j)
<1> DEFINE W == {w[i] : i \in D}
<1>1. W \in SUBSET Nat /\ W # {}
      OBVIOUS
<1>2. PICK m \in W : \A x \in W : m <= x
  <2> HIDE DEF W
  <2> QED BY <1>1, LeastNatural
<1> DEFINE I == {i \in D : w[i] = m}
<1>3. I \in SUBSET Nat /\ I # {}
      BY <1>2
<1>4. PICK i \in I : \A x \in I : i <= x
  <2> HIDE DEF I
  <2> QED BY <1>3, LeastNatural
<1>5. i \in D /\ w[i] = m
      BY <1>4
<1>6. ASSUME NEW j \in D PROVE w[i] < w[j] \/ (w[i] = w[j] /\ i <= j)
  <2>1. w[j] \in Nat /\ m \in Nat /\ m <= w[j]
        BY <1>1, <1>2
  <2>2. CASE w[j] = m
    <3>1. j \in I
          BY <2>2
    <3>2. i <= j
          BY <1>4, <3>1
    <3> QED BY <1>5, <2>2, <3>2
  <2>3. CASE w[j] # m
        BY <1>5, <2>1, <2>3
  <2> QED BY <2>2, <2>3
<1> QED BY <1>5, <1>6

\* What the operations on lists do to the members.
LEMMA Members ==
  ASSUME NEW S, NEW q \in Seq(S), NEW c \in S
  PROVE  /\ Append(q, c) \in Seq(S) /\ Range(Append(q, c)) = Range(q) \cup {c}
         /\ WithConn(q, c) \in Seq(S) /\ Range(WithConn(q, c)) = Range(q) \cup {c}
         /\ Range(q) \subseteq S
<1>1. Append(q, c) \in Seq(S) /\ Len(Append(q, c)) = Len(q) + 1
      OBVIOUS
<1>2. Append(q, c)[Len(q) + 1] = c /\ \A i \in 1..Len(q) : Append(q, c)[i] = q[i]
      OBVIOUS
<1>3. DOMAIN Append(q, c) = 1..(Len(q) + 1) /\ DOMAIN q = 1..Len(q) /\ Len(q) \in Nat
      BY <1>1
<1>4. Range(Append(q, c)) = Range(q) \cup {c}
  <2>1. ASSUME NEW x \in Range(Append(q, c)) PROVE x \in Range(q) \cup {c}
    <3>1. PICK i \in 1..(Len(q) + 1) : x = Append(q, c)[i]
          BY <1>3 DEF Range
    <3>2. CASE i = Len(q) + 1
          BY <1>2, <3>1, <3>2
    <3>3. CASE i # Len(q) + 1
      <4>1. i \in 1..Len(q)
            BY <1>3, <3>3
      <4> QED BY <1>2, <1>3, <3>1, <4>1 DEF Range
    <3> QED BY <3>2, <3>3
  <2>2. ASSUME NEW x \in Range(q) PROVE x \in Range(Append(q, c))
    <3>1. PICK i \in 1..Len(q) : x = q[i]
          BY <1>3 DEF Range
    <3>2. i \in 1..(Len(q) + 1)
          BY <1>3
    <3> QED BY <1>2, <1>3, <3>1, <3>2 DEF Range
  <2>3. c \in Range(Append(q, c))
    <3>1. Len(q) + 1 \in 1..(Len(q) + 1)
          BY <1>3
    <3> QED BY <1>2, <1>3, <3>1 DEF Range
  <2> QED BY <2>1, <2>2, <2>3
<1>5. WithConn(q, c) \in Seq(S) /\ Range(WithConn(q, c)) = Range(q) \cup {c}
  <2>1. CASE Contains(q, c)
    <3>1. c \in Range(q)
          BY <1>3, <2>1 DEF Contains, Range
    <3> QED BY <2>1, <3>1 DEF WithConn
  <2>2. CASE ~Contains(q, c)
        BY <1>1, <1>4, <2>2 DEF WithConn
  <2> QED BY <2>1, <2>2
<1>6. Range(q) \subseteq S
      BY <1>3 DEF Range
<1> QED BY <1>1, <1>4, <1>5, <1>6

\* removePubSub takes one entry out and leaves the others.
LEMMA MembersRemoved ==
  ASSUME NEW S, NEW q \in Seq(S), NEW c
  PROVE  /\ RemoveFirst(q, c) \in Seq(S) /\ Range(RemoveFirst(q, c)) \subseteq Range(q)
         /\ Range(q) \ {c} \subseteq Range(RemoveFirst(q, c))
<1>0. DOMAIN q = 1..Len(q) /\ Len(q) \in Nat
      OBVIOUS
<1>1. CASE ~\E i \in 1..Len(q) : q[i] = c
      BY <1>1 DEF RemoveFirst
<1>2. CASE \E i \in 1..Len(q) : q[i] = c
  <2> DEFINE I == {i \in 1..Len(q) : q[i] = c}
  <2>1. I \in SUBSET Nat /\ I # {}
        BY <1>2
  <2>2. PICK m \in I : \A x \in I : m <= x
    <3> HIDE DEF I
    <3> QED BY <2>1, LeastNatural
  <2>3. Min(I) \in I
    <3> HIDE DEF I
    <3> QED BY <2>2 DEF Min
  <2> DEFINE i == Min(I)
  <2>4. i \in 1..Len(q) /\ q[i] = c
        BY <2>3
  <2>5. RemoveFirst(q, c) = RemoveAt(q, i)
        BY <1>2, <2>1 DEF RemoveFirst, SelectInSeq
  <2> HIDE DEF i
  <2> DEFINE r == RemoveAt(q, i)
  <2> DEFINE a == SubSeq(q, 1, i - 1)
             b == SubSeq(q, i + 1, Len(q))
  <2>a. /\ a \in Seq(S) /\ Len(a) = i - 1 /\ \A j \in 1..(i - 1) : a[j] = q[j]
        BY <1>0, <2>4
  <2>b. /\ b \in Seq(S) /\ Len(b) = Len(q) - i
        /\ \A j \in 1..(Len(q) - i) : b[j] = q[i + j]
    <3>1. /\ i + 1 \in Int /\ Len(q) \in Int /\ \A j \in (i + 1)..Len(q) : q[j] \in S
          BY <1>0, <2>4
    <3>2. /\ b \in Seq(S) /\ Len(b) = IF i + 1 <= Len(q) THEN Len(q) - (i + 1) + 1 ELSE 0
          /\ \A j \in 1..(Len(q) - (i + 1) + 1) : b[j] = q[(i + 1) + j - 1]
          BY <3>1, SubSeqProperties
    <3>3. Len(q) - (i + 1) + 1 = Len(q) - i /\ \A j \in 1..(Len(q) - i) : (i + 1) + j - 1 = i + j
          BY <1>0, <2>4
    <3> HIDE DEF b
    <3>4. Len(b) = Len(q) - i
      <4>1. i \in Int /\ i <= Len(q) /\ Len(q) \in Int
            BY <1>0, <2>4
      <4>2. (IF i + 1 <= Len(q) THEN Len(q) - (i + 1) + 1 ELSE 0) = Len(q) - i
            BY <4>1
      <4> QED BY <3>2, <4>2
    <3>5. ASSUME NEW j \in 1..(Len(q) - i) PROVE b[j] = q[i + j]
          BY <3>2, <3>3
    <3> QED BY <3>2, <3>4, <3>5
  <2>c. r = a \o b
        BY DEF RemoveAt
  <2> HIDE DEF a, b, r
  <2>6. r \in Seq(S) /\ Len(r) = Len(q) - 1
    <3>1. r \in Seq(S) /\ Len(r) = Len(a) + Len(b)
          BY <2>a, <2>b, <2>c, ConcatProperties
    <3> QED BY <1>0, <2>4, <2>a, <2>b, <3>1
  <2>7. ASSUME NEW j \in 1..(Len(q) - 1) PROVE r[j] = IF j < i THEN q[j] ELSE q[j + 1]
    <3>1. CASE j < i
      <4>1. j \in 1..Len(a)
            BY <1>0, <2>4, <2>a, <3>1
      <4>2. r[j] = a[j]
            BY <2>a, <2>b, <2>c, <4>1
      <4> QED BY <2>a, <3>1, <4>1, <4>2
    <3>2. CASE ~(j < i)
      <4>1. j - (i - 1) \in 1..(Len(q) - i) /\ i + (j - (i - 1)) = j + 1
            BY <1>0, <2>4, <3>2
      <4>2. r[j] = b[j - (i - 1)]
            BY <1>0, <2>4, <2>a, <2>b, <2>c, <3>2
      <4> QED BY <2>b, <3>2, <4>1, <4>2
    <3> QED BY <3>1, <3>2
  <2>8. DOMAIN r = 1..(Len(q) - 1)
        BY <1>0, <2>4, <2>6
  <2>9. Range(r) \subseteq Range(q)
    <3> SUFFICES ASSUME NEW x \in Range(r) PROVE x \in Range(q)
        OBVIOUS
    <3>1. PICK j \in 1..(Len(q) - 1) : x = r[j]
          BY <2>8 DEF Range
    <3>2. j \in 1..Len(q) /\ j + 1 \in 1..Len(q)
          BY <1>0
    <3> QED BY <1>0, <2>7, <3>1, <3>2 DEF Range
  <2>10. Range(q) \ {c} \subseteq Range(r)
    <3> SUFFICES ASSUME NEW x \in Range(q), x # c PROVE x \in Range(r)
        OBVIOUS
    <3>1. PICK j \in 1..Len(q) : x = q[j]
          BY <1>0 DEF Range
    <3>2. j # i
          BY <2>4, <3>1
    <3>3. CASE j < i
      <4>1. j \in 1..(Len(q) - 1)
            BY <1>0, <2>4, <3>3
      <4> QED BY <2>7, <2>8, <3>1, <3>3, <4>1 DEF Range
    <3>4. CASE j > i
      <4>1. j - 1 \in 1..(Len(q) - 1) /\ ~(j - 1 < i) /\ (j - 1) + 1 = j
            BY <1>0, <2>4, <3>4
      <4>2. r[j - 1] = x
            BY <2>7, <3>1, <4>1
      <4> QED BY <2>8, <4>1, <4>2 DEF Range
    <3> QED BY <1>0, <2>4, <3>2, <3>3, <3>4
  <2> QED BY <2>5, <2>6, <2>9, <2>10 DEF r
<1> QED BY <1>1, <1>2

-----------------------------------------------------------------------------
(* The choices of the pool *)

\* The load of a connection is a number.
LEMMA LoadType == \A c : Load(c) \in Nat
<1> SUFFICES ASSUME NEW c PROVE Load(c) \in Nat
    OBVIOUS
<1>1. IsFiniteSet({k \in Callers : pc[k] = "held" /\ conn[k] = c})
      BY ConnPoolAssumption, FS_Subset
<1> QED BY <1>1, FS_CardinalityType DEF Load

\* findLeastLoadedPubSub finds a connection of the list that is usable, if there is one.
LEMMA LeastLoaded ==
  ASSUME NEW q \in Seq(Conns)
  PROVE  \/ FindLeastLoaded(q) = NoConn /\ \A c \in Range(q) : ~Usable(c)
         \/ /\ FindLeastLoaded(q) \in Range(q) /\ Usable(FindLeastLoaded(q))
            /\ FindLeastLoaded(q) # NoConn
<1> DEFINE U == {i \in DOMAIN q : Usable(q[i])}
           B == {i \in U : \A j \in U : \/ Load(q[i]) < Load(q[j])
                                        \/ Load(q[i]) = Load(q[j]) /\ i <= j}
<1>1. FindLeastLoaded(q) = IF B = {} THEN NoConn ELSE q[CHOOSE i \in B : TRUE]
      BY DEF FindLeastLoaded
<1>2. CASE U = {}
  <2>1. B = {}
        BY <1>2
  <2>2. \A c \in Range(q) : ~Usable(c)
        BY <1>2 DEF Range
  <2> QED BY <1>1, <2>1, <2>2
<1>3. CASE U # {}
  <2> DEFINE w == [i \in U |-> Load(q[i])]
  <2>1. U \in SUBSET Nat /\ w \in [U -> Nat]
        BY LoadType
  <2>2. \E i \in U : \A j \in U : w[i] < w[j] \/ (w[i] = w[j] /\ i <= j)
    <3> HIDE DEF U, w
    <3> QED BY <1>3, <2>1, FirstLightest
  <2>3. B # {}
        BY <2>2
  <2>4. PICK i \in B : FindLeastLoaded(q) = q[i]
    <3> HIDE DEF B
    <3> QED BY <1>1, <2>3
  <2>5. i \in DOMAIN q /\ Usable(q[i])
        BY <2>4
  <2>6. q[i] \in Range(q) /\ q[i] # NoConn
        BY <2>5, ConnPoolAssumption DEF Range
  <2> QED BY <2>4, <2>5, <2>6
<1> QED BY <1>2, <1>3

\* selectLeastLoadedAcrossNodes looks at the lists of all nodes of the shard.
LEMMA BestAcrossNodes ==
  ASSUME TypeOK, NEW view \in Seq(Nodes)
  PROVE  \/ /\ BestAcross(view) = NoConn
            /\ \A i \in DOMAIN view : \A c \in Range(nodePubSubs[view[i]]) : ~Usable(c)
         \/ /\ BestAcross(view) # NoConn /\ Usable(BestAcross(view))
            /\ \E n \in Nodes : BestAcross(view) \in Range(nodePubSubs[n])
<1> DEFINE b(i) == FindLeastLoaded(nodePubSubs[view[i]])
           F == {i \in DOMAIN view : b(i) # NoConn}
           L == {i \in F : \A j \in F : \/ Load(b(i)) < Load(b(j))
                                        \/ Load(b(i)) = Load(b(j)) /\ i <= j}
<1>0. \A i \in DOMAIN view : view[i] \in Nodes /\ nodePubSubs[view[i]] \in Seq(Conns)
      BY DEF TypeOK
<1>1. BestAcross(view) = IF L = {} THEN NoConn ELSE b(CHOOSE i \in L : TRUE)
      BY DEF BestAcross
<1>2. ASSUME NEW i \in DOMAIN view
      PROVE  \/ b(i) = NoConn /\ \A c \in Range(nodePubSubs[view[i]]) : ~Usable(c)
             \/ b(i) \in Range(nodePubSubs[view[i]]) /\ Usable(b(i)) /\ b(i) # NoConn
      BY <1>0, LeastLoaded
<1>3. CASE F = {}
  <2>1. L = {}
        BY <1>3
  <2>2. \A i \in DOMAIN view : b(i) = NoConn
        BY <1>3
  <2> HIDE DEF b, L
  <2> QED BY <1>1, <1>2, <2>1, <2>2
<1>4. CASE F # {}
  <2> DEFINE w == [i \in F |-> Load(b(i))]
  <2>1. F \in SUBSET Nat /\ w \in [F -> Nat]
        BY LoadType
  <2>2. \E i \in F : \A j \in F : w[i] < w[j] \/ (w[i] = w[j] /\ i <= j)
    <3> HIDE DEF F, w
    <3> QED BY <1>4, <2>1, FirstLightest
  <2>3. L # {}
        BY <2>2
  <2>4. PICK i \in L : BestAcross(view) = b(i)
    <3> HIDE DEF L, b
    <3> QED BY <1>1, <2>3
  <2>5. i \in DOMAIN view /\ b(i) # NoConn
        BY <2>4
  <2> HIDE DEF b
  <2> QED BY <1>0, <1>2, <2>4, <2>5
<1> QED BY <1>3, <1>4

\* It creates a connection at a node that has the fewest.
LEMMA FewestExists ==
  ASSUME TypeOK, NEW view \in Seq(Nodes), view # <<>>
  PROVE  /\ Fewest(view) \in DOMAIN view
         /\ \A j \in DOMAIN view :
              Len(nodePubSubs[view[Fewest(view)]]) <= Len(nodePubSubs[view[j]])
<1> DEFINE D == DOMAIN view
           w == [i \in D |-> Len(nodePubSubs[view[i]])]
<1>0. \A i \in DOMAIN view : view[i] \in Nodes /\ nodePubSubs[view[i]] \in Seq(Conns)
      BY DEF TypeOK
<1>1. D \in SUBSET Nat /\ D # {} /\ w \in [D -> Nat]
      BY <1>0
<1>2. \E i \in D : \A j \in D : w[i] < w[j] \/ (w[i] = w[j] /\ i <= j)
  <2> HIDE DEF D, w
  <2> QED BY <1>1, FirstLightest
<1>3. \E i \in DOMAIN view : \A j \in DOMAIN view :
        \/ Len(nodePubSubs[view[i]]) < Len(nodePubSubs[view[j]])
        \/ Len(nodePubSubs[view[i]]) = Len(nodePubSubs[view[j]]) /\ i <= j
      BY <1>2
<1>4. /\ Fewest(view) \in DOMAIN view
      /\ \A j \in DOMAIN view :
           \/ Len(nodePubSubs[view[Fewest(view)]]) < Len(nodePubSubs[view[j]])
           \/ Len(nodePubSubs[view[Fewest(view)]]) = Len(nodePubSubs[view[j]])
      BY <1>3 DEF Fewest
<1>5. \A j \in DOMAIN view : Len(nodePubSubs[view[j]]) \in Nat
      BY <1>0
<1> QED BY <1>4, <1>5

-----------------------------------------------------------------------------
(* The inductive invariant *)

\* The lists of connections as sets.
inNode == [n \in Nodes |-> Range(nodePubSubs[n])]
inSlot == [s \in Slots |-> Range(hashslotPubSubs[s])]

\* A connection that createPubSubToNode has made.
Born(c) == connState[c] \notin {"none", "reserved"}

\* The calls that may still need a connection of their own.
Looking == {"fast", "view", "select", "reuse"}
Spenders == {k \in Callers : pc[k] \in Looking \/ (pc[k] = "dial" /\ conn[k] = NoConn)}
Used == {c \in Conns : connState[c] # "none"}

\* Every call takes at most one connection, so that they last.
Budget == Cardinality(Used) + Cardinality(Spenders) <= calls

\* What the local variables of a call hold at each place.
Placed ==
  \A k \in Callers :
    /\ pc[k] \in Looking \cup {"idle"} => conn[k] = NoConn
    /\ pc[k] \in {"reuse", "dial", "list", "resolve", "wait", "adopt"} => node[k] \in Nodes
    /\ pc[k] = "select" => nodes[k] # <<>>
    /\ pc[k] \in {"list", "resolve", "wait", "adopt", "held"} => conn[k] \in Conns

\* The connection a call makes, waits for or adopts.
Making ==
  \A k \in Callers :
    /\ pc[k] = "dial" /\ conn[k] # NoConn
         => connState[conn[k]] = "reserved" /\ outcome[conn[k]] = "open"
    /\ pc[k] = "list" =>
         Born(conn[k]) /\ outcome[conn[k]] # "resolved" /\ nodeOf[conn[k]] = node[k]
    /\ pc[k] = "resolve" => Born(conn[k]) /\ outcome[conn[k]] = "open"
    /\ pc[k] = "wait" => outcome[conn[k]] # "none"
    /\ pc[k] = "adopt" => outcome[conn[k]] = "resolved"

\* A connection has one maker.
OneMaker ==
  \A j, k \in Callers :
    /\ pc[j] \in {"dial", "list", "resolve"} /\ pc[k] \in {"dial", "list", "resolve"}
    /\ conn[j] = conn[k] /\ conn[k] # NoConn
    => j = k

\* Nothing is known of a connection that nobody has made.
Unborn ==
  \A c \in Conns :
    /\ connState[c] = "none" => outcome[c] = "none"
    /\ ~Born(c) => /\ outcome[c] # "resolved" /\ c \notin metadata
                   /\ \A n \in Nodes : c \notin inNode[n]
                   /\ \A s \in Slots : c \notin inSlot[s]

\* An announcement has its maker and, until closeAll replaces the map, a maker that
\* is before its critical section has its announcement.
Announced ==
  /\ \A n \in Nodes : pendingConns[n] # NoConn =>
       /\ outcome[pendingConns[n]] = "open"
       /\ \E k \in Callers : pc[k] \in {"dial", "list"} /\ node[k] = n /\ conn[k] = pendingConns[n]
  /\ closePc = "open" =>
       \A k \in Callers :
         pc[k] \in {"dial", "list"} /\ conn[k] # NoConn /\ outcome[conn[k]] = "open"
           => pendingConns[node[k]] = conn[k]

\* A node lists its own connections.  Until closeAll, a working connection is
\* registered, a registered one is listed or about to be, and a cached one is listed.
Registered ==
  /\ \A n \in Nodes : \A c \in inNode[n] : nodeOf[c] = n
  /\ closePc = "open" =>
       /\ \A c \in Conns : connState[c] = "active" => c \in metadata
       /\ \A c \in metadata :
            \/ nodeOf[c] \in Nodes /\ c \in inNode[nodeOf[c]]
            \/ \E k \in Callers : pc[k] = "list" /\ conn[k] = c
       /\ \A s \in Slots : \A c \in inSlot[s] \cap metadata :
            nodeOf[c] \in Nodes /\ c \in inNode[nodeOf[c]]

\* The announcement of a node is for its only shared connection.
Shared ==
  closePc = "open" =>
    \A n \in Nodes : pendingConns[n] # NoConn =>
      \A c \in Conns :
        outcome[c] # "none" /\ connState[c] = "active" /\ nodeOf[c] = n => c = pendingConns[n]

\* With PreferMasters a call has the master, unless it was changed since it read it.
Current ==
  preference = "masters" =>
    /\ \A k \in Callers : pc[k] \notin {"select", "wait", "adopt"}
    /\ \A k \in Callers :
         /\ pc[k] \in {"reuse", "dial", "list"}
         /\ slot[k] \notin raced /\ topo[slot[k]] # <<>>
         => node[k] = topo[slot[k]][1]
    /\ \A s \in Slots \ (toInvalidate \cup raced) :
         topo[s] # <<>> => \A c \in inSlot[s] : nodeOf[c] = topo[s][1]

\* closeAll has what works, if no call was busy; what it closes was made.
Closing ==
  /\ closePc # "open" /\ ~busyAtClose =>
       /\ \A k \in Callers : pc[k] \in {"idle", "held"}
       /\ \A c \in Conns : connState[c] = "active" => c \in closeList
  /\ closePc = "returned" => closeList = {}
  /\ \A c \in closeList : Born(c)

IInv ==
  /\ TypeOK /\ Budget /\ Placed /\ Making /\ OneMaker /\ Unborn /\ Announced
  /\ Registered /\ Shared /\ OneSharedPerNode /\ Current /\ Closing

-----------------------------------------------------------------------------
(* What the steps do to the lists, as sets *)

\* Lists that stay the same have the same members.
LEMMA SameLists ==
  /\ nodePubSubs' = nodePubSubs => inNode' = inNode
  /\ hashslotPubSubs' = hashslotPubSubs => inSlot' = inSlot
BY DEF inNode, inSlot

\* The members of the lists are connections.
LEMMA ListTypes ==
  ASSUME TypeOK
  PROVE  inNode \in [Nodes -> SUBSET Conns] /\ inSlot \in [Slots -> SUBSET Conns]
<1>1. \A q \in Seq(Conns) : Range(q) \in SUBSET Conns
      BY DEF Range
<1>2. nodePubSubs \in [Nodes -> Seq(Conns)] /\ hashslotPubSubs \in [Slots -> Seq(Conns)]
      BY DEF TypeOK
<1> QED BY <1>1, <1>2 DEF inNode, inSlot

\* addHashslotPubSub caches the connection for the hashslot.
LEMMA AddsToSlot ==
  ASSUME TypeOK, NEW s \in Slots, NEW c \in Conns, AddHashslot(s, c)
  PROVE  /\ hashslotPubSubs' \in [Slots -> Seq(Conns)]
         /\ inSlot' = [inSlot EXCEPT ![s] = @ \cup {c}]
<1>1. hashslotPubSubs \in [Slots -> Seq(Conns)]
      BY DEF TypeOK
<1>2. hashslotPubSubs[s] \in Seq(Conns)
      BY <1>1
<1>3. /\ WithConn(hashslotPubSubs[s], c) \in Seq(Conns)
      /\ Range(WithConn(hashslotPubSubs[s], c)) = Range(hashslotPubSubs[s]) \cup {c}
  <2> DEFINE q == hashslotPubSubs[s]
  <2>1. q \in Seq(Conns)
        BY <1>2
  <2> HIDE DEF q
  <2>2. WithConn(q, c) \in Seq(Conns) /\ Range(WithConn(q, c)) = Range(q) \cup {c}
        BY <2>1, Members
  <2> QED BY <2>2 DEF q
<1>4. hashslotPubSubs' = [hashslotPubSubs EXCEPT ![s] = WithConn(hashslotPubSubs[s], c)]
      BY DEF AddHashslot
<1>5. \A x \in Slots : Range(hashslotPubSubs'[x])
                         = IF x = s THEN Range(hashslotPubSubs[s]) \cup {c} ELSE Range(hashslotPubSubs[x])
      BY <1>1, <1>3, <1>4
<1>6. inSlot' = [inSlot EXCEPT ![s] = @ \cup {c}]
      BY <1>5 DEF inSlot
<1> QED BY <1>1, <1>3, <1>4, <1>6

\* A call that still looks for a connection finds an unused one.
LEMMA FreshExists ==
  ASSUME TypeOK, Budget, NEW k \in Spenders
  PROVE  Fresh \in Conns /\ connState[Fresh] = "none"
<1>1. IsFiniteSet(Spenders) /\ IsFiniteSet(Used) /\ IsFiniteSet(Conns) /\ Used \subseteq Conns
      BY ConnPoolAssumption, FS_Subset DEF Spenders, Used
<1>2. Cardinality(Spenders) \in Nat /\ Cardinality(Spenders) # 0 /\ Cardinality(Used) \in Nat
      BY <1>1, FS_CardinalityType, FS_EmptySet
<1>3. calls \in Nat /\ calls <= Cardinality(Conns) /\ Cardinality(Conns) \in Nat
  <2>1. calls \in 0..MaxCalls /\ MaxCalls \in Nat /\ Cardinality(Conns) >= MaxCalls
        BY ConnPoolAssumption DEF TypeOK
  <2>2. Cardinality(Conns) \in Nat
        BY <1>1, FS_CardinalityType
  <2> QED BY <2>1, <2>2
<1>4. Cardinality(Used) < Cardinality(Conns)
      BY <1>2, <1>3 DEF Budget
<1>5. Used # Conns
      BY <1>2, <1>4
<1>6. \E c \in Conns : connState[c] = "none"
      BY <1>1, <1>5 DEF Used
<1> QED BY <1>6 DEF Fresh

\* The fast path returns a usable connection or none.
LEMMA FastCases ==
  ASSUME TypeOK, NEW k \in Callers, Fast(k)
  PROVE  \/ \E c \in Conns : Usable(c) /\ c \in inSlot[slot[k]] /\ Return(k, c)
         \/ Go(k, "view") /\ UNCHANGED conn
<1> DEFINE q == hashslotPubSubs[slot[k]]
<1>1. slot[k] \in Slots /\ q \in Seq(Conns)
      BY DEF TypeOK
<1>2. Range(q) = inSlot[slot[k]] /\ Range(q) \subseteq Conns
      BY <1>1 DEF inSlot, Range
<1>3. IF FindLeastLoaded(q) # NoConn THEN Return(k, FindLeastLoaded(q))
                                      ELSE Go(k, "view") /\ UNCHANGED conn
      BY DEF Fast
<1> HIDE DEF q
<1> QED BY <1>1, <1>2, <1>3, LeastLoaded

\* A connection of the node is reused if one is usable.
LEMMA ReuseCases ==
  ASSUME TypeOK, Placed, NEW k \in Callers, Reuse(k)
  PROVE  \/ \E c \in Conns : /\ Usable(c) /\ c \in inNode[node[k]] /\ Return(k, c)
                             /\ AddHashslot(slot[k], c)
         \/ Go(k, "dial") /\ UNCHANGED <<hashslotPubSubs, conn>>
<1> DEFINE q == nodePubSubs[node[k]]
<1>1. node[k] \in Nodes /\ q \in Seq(Conns)
      BY DEF TypeOK, Placed, Reuse
<1>2. Range(q) = inNode[node[k]] /\ Range(q) \subseteq Conns
      BY <1>1 DEF inNode, Range
<1>3. IF FindLeastLoaded(q) # NoConn
        THEN AddHashslot(slot[k], FindLeastLoaded(q)) /\ Return(k, FindLeastLoaded(q))
        ELSE Go(k, "dial") /\ UNCHANGED <<hashslotPubSubs, conn>>
      BY DEF Reuse
<1> HIDE DEF q
<1> QED BY <1>1, <1>2, <1>3, LeastLoaded

\* BalancedAll reuses a usable connection of the shard, or goes on with a node that
\* has none.
LEMMA SelectCases ==
  ASSUME TypeOK, Placed, NEW k \in Callers, Select(k)
  PROVE  \/ /\ \E c \in Conns : /\ Usable(c) /\ Return(k, c) /\ AddHashslot(slot[k], c)
                                /\ \E n \in Nodes : c \in inNode[n]
            /\ UNCHANGED <<pendingConns, outcome, connState, node>>
         \/ /\ \E n \in Nodes : /\ \A c \in inNode[n] : ~Usable(c)
                                /\ SelectNode(k, n) /\ node' = [node EXCEPT ![k] = n]
            /\ UNCHANGED hashslotPubSubs
<1> DEFINE view == nodes[k]
           best == BestAcross(view)
           n == view[Fewest(view)]
           spread == \A i \in DOMAIN view : nodePubSubs[view[i]] # <<>>
<1>1. view \in Seq(Nodes) /\ view # <<>>
      BY ConnPoolAssumption DEF TypeOK, Placed, Select
<1>2. IF best # NoConn /\ spread
        THEN /\ AddHashslot(slot[k], best) /\ Return(k, best)
             /\ UNCHANGED <<pendingConns, outcome, connState, node>>
        ELSE /\ SelectNode(k, n) /\ node' = [node EXCEPT ![k] = n]
             /\ UNCHANGED hashslotPubSubs
      BY DEF Select
<1>3. \A m \in Nodes : Range(nodePubSubs[m]) = inNode[m] /\ Range(nodePubSubs[m]) \subseteq Conns
      BY ListTypes DEF inNode
<1>4. CASE best # NoConn /\ spread
  <2> HIDE DEF view
  <2>1. Usable(best) /\ \E m \in Nodes : best \in inNode[m]
        BY <1>1, <1>3, <1>4, BestAcrossNodes
  <2>2. best \in Conns
        BY <1>3, <2>1
  <2> HIDE DEF best
  <2> QED BY <1>2, <1>4, <2>1, <2>2
<1>5. CASE ~(best # NoConn /\ spread)
  <2> HIDE DEF view
  <2>1. Fewest(view) \in DOMAIN view /\ n \in Nodes
        BY <1>1, FewestExists
  <2>2. \A c \in Range(nodePubSubs[n]) : ~Usable(c)
    <3>1. CASE best = NoConn
          BY <1>1, <2>1, <3>1, BestAcrossNodes
    <3>2. CASE ~spread
      <4>1. PICK j \in DOMAIN view : nodePubSubs[view[j]] = <<>>
            BY <3>2
      <4>2. Len(nodePubSubs[n]) <= Len(nodePubSubs[view[j]])
            BY <1>1, FewestExists
      <4>3. nodePubSubs[n] \in Seq(Conns)
            BY <2>1 DEF TypeOK
      <4> HIDE DEF n
      <4>4. nodePubSubs[n] = <<>>
            BY <4>1, <4>2, <4>3
      <4> QED BY <4>4 DEF Range
    <3> QED BY <1>5, <3>1, <3>2
  <2> HIDE DEF n, best, spread
  <2> QED BY <1>2, <1>3, <1>5, <2>1, <2>2
<1> QED BY <1>4, <1>5

\* The connection that a call dials is the one it announced or a new one.
LEMMA DialCases ==
  ASSUME TypeOK, Budget, NEW k \in Callers, Dial(k)
  PROVE  \E c \in Conns :
           /\ conn[k] = c \/ (conn[k] = NoConn /\ connState[c] = "none")
           /\ connState' = [connState EXCEPT ![c] = "active"]
           /\ nodeOf' = [nodeOf EXCEPT ![c] = node[k]]
           /\ metadata' = metadata \cup {c}
           /\ conn' = [conn EXCEPT ![k] = c]
<1> DEFINE c == IF conn[k] # NoConn THEN conn[k] ELSE Fresh
<1>1. CASE conn[k] # NoConn
  <2>1. conn[k] \in Conns
        BY <1>1 DEF TypeOK
  <2> QED BY <1>1, <2>1 DEF Dial
<1>2. CASE conn[k] = NoConn
  <2>1. k \in Spenders
        BY <1>2 DEF Dial, Spenders
  <2>2. Fresh \in Conns /\ connState[Fresh] = "none"
        BY <2>1, FreshExists
  <2> QED BY <1>2, <2>2 DEF Dial
<1> QED BY <1>1, <1>2

\* A connection is listed at its node and cached for the hashslot.
LEMMA ListEffect ==
  ASSUME TypeOK, Placed, NEW k \in Callers, List(k)
  PROVE  /\ nodePubSubs' \in [Nodes -> Seq(Conns)] /\ hashslotPubSubs' \in [Slots -> Seq(Conns)]
         /\ inNode' = [inNode EXCEPT ![node[k]] = @ \cup {conn[k]}]
         /\ inSlot' = [inSlot EXCEPT ![slot[k]] = @ \cup {conn[k]}]
<1> DEFINE n == node[k]
           c == conn[k]
<1>1. n \in Nodes /\ c \in Conns /\ slot[k] \in Slots
      BY DEF TypeOK, Placed, List
<1>2. nodePubSubs \in [Nodes -> Seq(Conns)] /\ nodePubSubs[n] \in Seq(Conns)
      BY <1>1 DEF TypeOK
<1>3. nodePubSubs' = [nodePubSubs EXCEPT ![n] = Append(nodePubSubs[n], c)]
      BY DEF List
<1>4. /\ Append(nodePubSubs[n], c) \in Seq(Conns)
      /\ Range(Append(nodePubSubs[n], c)) = Range(nodePubSubs[n]) \cup {c}
      BY <1>1, <1>2, Members
<1>5. \A x \in Nodes : Range(nodePubSubs'[x])
                         = IF x = n THEN Range(nodePubSubs[n]) \cup {c} ELSE Range(nodePubSubs[x])
      BY <1>2, <1>3, <1>4
<1>6. inNode' = [inNode EXCEPT ![n] = @ \cup {c}]
      BY <1>5 DEF inNode
<1>7. /\ hashslotPubSubs' \in [Slots -> Seq(Conns)]
      /\ inSlot' = [inSlot EXCEPT ![slot[k]] = @ \cup {c}]
      BY <1>1, AddsToSlot DEF List
<1> QED BY <1>2, <1>3, <1>4, <1>6, <1>7

\* removePubSub takes a connection out of the lists and leaves the others in.
LEMMA RetireEffect ==
  ASSUME TypeOK, NEW c \in Conns, Retire(c)
  PROVE  /\ nodePubSubs' \in [Nodes -> Seq(Conns)] /\ hashslotPubSubs' \in [Slots -> Seq(Conns)]
         /\ \A n \in Nodes : inNode'[n] \subseteq inNode[n] /\ inNode[n] \ {c} \subseteq inNode'[n]
         /\ \A s \in Slots : inSlot'[s] \subseteq inSlot[s]
         /\ metadata' = metadata \ {c}
<1>1. nodePubSubs \in [Nodes -> Seq(Conns)] /\ hashslotPubSubs \in [Slots -> Seq(Conns)]
      BY DEF TypeOK
<1>2. CASE c \notin metadata
  <2>1. UNCHANGED <<nodePubSubs, hashslotPubSubs, metadata>>
        BY <1>2 DEF Retire
  <2> QED BY <1>1, <1>2, <2>1, SameLists
<1>3. CASE c \in metadata
  <2>1. /\ nodePubSubs' = [n \in Nodes |-> IF n = nodeOf[c] THEN RemoveFirst(nodePubSubs[n], c)
                                           ELSE nodePubSubs[n]]
        /\ hashslotPubSubs' = [s \in Slots |-> RemoveFirst(hashslotPubSubs[s], c)]
        /\ metadata' = metadata \ {c}
        BY <1>3 DEF Retire
  <2>2. \A q \in Seq(Conns) : /\ RemoveFirst(q, c) \in Seq(Conns)
                              /\ Range(RemoveFirst(q, c)) \subseteq Range(q)
                              /\ Range(q) \ {c} \subseteq Range(RemoveFirst(q, c))
        BY MembersRemoved
  <2>3. /\ \A n \in Nodes : /\ nodePubSubs'[n] \in Seq(Conns)
                            /\ Range(nodePubSubs'[n]) \subseteq Range(nodePubSubs[n])
                            /\ Range(nodePubSubs[n]) \ {c} \subseteq Range(nodePubSubs'[n])
        /\ \A s \in Slots : /\ hashslotPubSubs'[s] \in Seq(Conns)
                            /\ Range(hashslotPubSubs'[s]) \subseteq Range(hashslotPubSubs[s])
        BY <1>1, <2>1, <2>2
  <2>4. nodePubSubs' \in [Nodes -> Seq(Conns)] /\ hashslotPubSubs' \in [Slots -> Seq(Conns)]
        BY <2>1, <2>3
  <2>5. /\ \A n \in Nodes : inNode[n] = Range(nodePubSubs[n]) /\ inNode'[n] = Range(nodePubSubs'[n])
        /\ \A s \in Slots : /\ inSlot[s] = Range(hashslotPubSubs[s])
                            /\ inSlot'[s] = Range(hashslotPubSubs'[s])
        BY DEF inNode, inSlot
  <2>6. /\ \A n \in Nodes : inNode'[n] \subseteq inNode[n] /\ inNode[n] \ {c} \subseteq inNode'[n]
        /\ \A s \in Slots : inSlot'[s] \subseteq inSlot[s]
        BY <2>3, <2>5
  <2> QED BY <2>1, <2>4, <2>6
<1> QED BY <1>2, <1>3

\* invalidateHashslot and closeAll empty lists.
LEMMA EmptyLists ==
  ASSUME TypeOK
  PROVE  /\ \A s \in Slots : Invalidate(s) =>
              /\ inSlot' = [inSlot EXCEPT ![s] = {}] /\ hashslotPubSubs' \in [Slots -> Seq(Conns)]
         /\ CloseTakes => /\ inNode' = [n \in Nodes |-> {}] /\ inSlot' = [s \in Slots |-> {}]
                          /\ nodePubSubs' \in [Nodes -> Seq(Conns)]
                          /\ hashslotPubSubs' \in [Slots -> Seq(Conns)]
<1>1. Range(<<>>) = {} /\ <<>> \in Seq(Conns)
      BY DEF Range
<1>2. hashslotPubSubs \in [Slots -> Seq(Conns)]
      BY DEF TypeOK
<1>3. ASSUME NEW s \in Slots, Invalidate(s)
      PROVE  inSlot' = [inSlot EXCEPT ![s] = {}] /\ hashslotPubSubs' \in [Slots -> Seq(Conns)]
  <2>1. hashslotPubSubs' = [hashslotPubSubs EXCEPT ![s] = <<>>]
        BY <1>3 DEF Invalidate
  <2>2. \A x \in Slots : Range(hashslotPubSubs'[x])
                           = IF x = s THEN {} ELSE Range(hashslotPubSubs[x])
        BY <1>1, <1>2, <2>1
  <2> QED BY <1>1, <1>2, <2>1, <2>2 DEF inSlot
<1>4. ASSUME CloseTakes
      PROVE  /\ inNode' = [n \in Nodes |-> {}] /\ inSlot' = [s \in Slots |-> {}]
             /\ nodePubSubs' \in [Nodes -> Seq(Conns)] /\ hashslotPubSubs' \in [Slots -> Seq(Conns)]
  <2>1. nodePubSubs' = [n \in Nodes |-> <<>>] /\ hashslotPubSubs' = [s \in Slots |-> <<>>]
        BY <1>4 DEF CloseTakes
  <2> QED BY <1>1, <2>1 DEF inNode, inSlot
<1> QED BY <1>3, <1>4

-----------------------------------------------------------------------------
(* The steps of a call, by their outcomes *)

FastHit(k, c) ==
  /\ pc[k] = "fast" /\ Usable(c) /\ c \in inSlot[slot[k]] /\ Return(k, c)
  /\ UNCHANGED <<poolVars, connVars, slot, node, nodes, calls, restVars>>

FastMiss(k) ==
  /\ pc[k] = "fast" /\ Go(k, "view")
  /\ UNCHANGED <<poolVars, connVars, slot, node, nodes, conn, calls, restVars>>

ReuseHit(k, c) ==
  /\ pc[k] = "reuse" /\ Usable(c) /\ c \in inNode[node[k]] /\ Return(k, c)
  /\ AddHashslot(slot[k], c)
  /\ UNCHANGED <<nodePubSubs, metadata, pendingConns, outcome, connVars, slot, node, nodes, calls,
                 restVars>>

ReuseMiss(k) ==
  /\ pc[k] = "reuse" /\ Go(k, "dial")
  /\ UNCHANGED <<poolVars, connVars, slot, node, nodes, conn, calls, restVars>>

SelectHit(k, c) ==
  /\ pc[k] = "select" /\ Usable(c) /\ (\E n \in Nodes : c \in inNode[n]) /\ Return(k, c)
  /\ AddHashslot(slot[k], c) /\ nodes' = [nodes EXCEPT ![k] = <<>>]
  /\ UNCHANGED <<nodePubSubs, metadata, pendingConns, outcome, connVars, slot, node, calls,
                 restVars>>

SelectWaits(k, n) ==
  /\ pc[k] = "select" /\ pendingConns[n] # NoConn /\ Go(k, "wait")
  /\ conn' = [conn EXCEPT ![k] = pendingConns[n]]
  /\ node' = [node EXCEPT ![k] = n] /\ nodes' = [nodes EXCEPT ![k] = <<>>]
  /\ UNCHANGED <<poolVars, connVars, slot, calls, restVars>>

SelectAnnounces(k, n, c) ==
  /\ pc[k] = "select" /\ pendingConns[n] = NoConn /\ (\A d \in inNode[n] : ~Usable(d))
  /\ connState[c] = "none" /\ Go(k, "dial")
  /\ pendingConns' = [pendingConns EXCEPT ![n] = c] /\ outcome' = [outcome EXCEPT ![c] = "open"]
  /\ connState' = [connState EXCEPT ![c] = "reserved"] /\ conn' = [conn EXCEPT ![k] = c]
  /\ node' = [node EXCEPT ![k] = n] /\ nodes' = [nodes EXCEPT ![k] = <<>>]
  /\ UNCHANGED <<nodePubSubs, hashslotPubSubs, metadata, nodeOf, slot, calls, restVars>>

Dials(k, c) ==
  /\ pc[k] = "dial"
  /\ conn[k] = c \/ (conn[k] = NoConn /\ connState[c] = "none")
  /\ Go(k, "list") /\ conn' = [conn EXCEPT ![k] = c]
  /\ connState' = [connState EXCEPT ![c] = "active"]
  /\ nodeOf' = [nodeOf EXCEPT ![c] = node[k]] /\ metadata' = metadata \cup {c}
  /\ UNCHANGED <<nodePubSubs, hashslotPubSubs, pendingConns, outcome, slot, node, nodes, calls,
                 restVars>>

\* Every step of a call is one of these or needs no choice.
LEMMA CallCases ==
  ASSUME TypeOK, Budget, Placed, NEW k \in Callers, CallStep(k)
  PROVE  \/ FastMiss(k) \/ \E c \in Conns : FastHit(k, c)
         \/ ReadView(k) \/ AskCluster(k)
         \/ ReuseMiss(k) \/ \E c \in Conns : ReuseHit(k, c)
         \/ \E c \in Conns : SelectHit(k, c)
         \/ \E n \in Nodes : SelectWaits(k, n)
         \/ \E n \in Nodes, c \in Conns : SelectAnnounces(k, n, c)
         \/ \E c \in Conns : Dials(k, c)
         \/ List(k) \/ Resolve(k) \/ Wait(k) \/ Adopt(k)
<1>1. CASE Fast(k)
      BY <1>1, FastCases DEF Fast, FastHit, FastMiss
<1>2. CASE Reuse(k)
      BY <1>2, ReuseCases DEF Reuse, ReuseHit, ReuseMiss, poolVars
<1>3. CASE Select(k)
  <2>0. /\ pc[k] = "select" /\ nodes' = [nodes EXCEPT ![k] = <<>>]
        /\ UNCHANGED <<nodePubSubs, metadata, nodeOf, slot, calls, restVars>>
        BY <1>3 DEF Select
  <2>1. ASSUME NEW c \in Conns, Usable(c), Return(k, c), AddHashslot(slot[k], c),
               \E n \in Nodes : c \in inNode[n], UNCHANGED <<pendingConns, outcome, connState, node>>
        PROVE  SelectHit(k, c)
        BY <2>0, <2>1 DEF SelectHit, connVars
  <2>2. ASSUME NEW n \in Nodes, \A c \in inNode[n] : ~Usable(c), SelectNode(k, n),
               node' = [node EXCEPT ![k] = n], UNCHANGED hashslotPubSubs
        PROVE  SelectWaits(k, n) \/ \E c \in Conns : SelectAnnounces(k, n, c)
    <3>1. CASE pendingConns[n] # NoConn
          BY <2>0, <2>2, <3>1 DEF SelectNode, SelectWaits, poolVars, connVars
    <3>2. CASE pendingConns[n] = NoConn
      <4> DEFINE c == Fresh
      <4>1. k \in Spenders
            BY <2>0 DEF Spenders, Looking
      <4>2. c \in Conns /\ connState[c] = "none"
            BY <4>1, FreshExists
      <4>3. /\ pendingConns' = [pendingConns EXCEPT ![n] = c]
            /\ outcome' = [outcome EXCEPT ![c] = "open"]
            /\ connState' = [connState EXCEPT ![c] = "reserved"]
            /\ conn' = [conn EXCEPT ![k] = c] /\ Go(k, "dial")
            BY <2>2, <3>2 DEF SelectNode
      <4> HIDE DEF c
      <4>4. SelectAnnounces(k, n, c)
            BY <2>0, <2>2, <3>2, <4>2, <4>3 DEF SelectAnnounces
      <4> QED BY <4>2, <4>4
    <3> QED BY <3>1, <3>2
  <2> QED BY <1>3, <2>1, <2>2, SelectCases
<1>4. CASE Dial(k)
  <2>1. PICK c \in Conns :
           /\ conn[k] = c \/ (conn[k] = NoConn /\ connState[c] = "none")
           /\ connState' = [connState EXCEPT ![c] = "active"]
           /\ nodeOf' = [nodeOf EXCEPT ![c] = node[k]]
           /\ metadata' = metadata \cup {c}
           /\ conn' = [conn EXCEPT ![k] = c]
        BY <1>4, DialCases
  <2>2. Dials(k, c)
        BY <1>4, <2>1 DEF Dial, Dials
  <2> QED BY <2>2
<1> QED BY <1>1, <1>2, <1>3, <1>4 DEF CallStep

-----------------------------------------------------------------------------
(* Every step keeps every part *)

\* Every step keeps the types.
LEMMA TypeStep ==
  ASSUME TypeOK, Budget, Placed, [Next]_vars
  PROVE  TypeOK'
<1> USE ConnPoolAssumption DEF TypeOK, Go, Return, Forget, poolVars, connVars, topoVars,
        callVars, closeVars, ghostVars, restVars, envVars, vars
<1>1. ASSUME NEW k \in Callers, Call(k) \/ CallStep(k) \/ GiveUp(k) \/ Release(k) PROVE TypeOK'
  <2>1. CASE Call(k)
        BY <2>1 DEF Call
  <2>2. CASE FastMiss(k)
        BY <2>2 DEF FastMiss
  <2>3. ASSUME NEW c \in Conns, FastHit(k, c) PROVE TypeOK'
        BY <2>3 DEF FastHit
  <2>4. CASE ReadView(k)
    <3>0. topo[slot[k]] \in Seq(Nodes) /\ topo[slot[k]] # <<>> /\ topo[slot[k]] \in Views
          BY <2>4 DEF ReadView
    <3>1. CASE preference = "balanced"
          BY <2>4, <3>0, <3>1 DEF ReadView
    <3>2. CASE preference # "balanced"
      <4>1. PICK n \in Selectable(topo[slot[k]]) : node' = [node EXCEPT ![k] = n]
            BY <2>4, <3>2 DEF ReadView
      <4>2. n \in Nodes
            BY <3>0 DEF Selectable
      <4> QED BY <2>4, <3>2, <4>1, <4>2 DEF ReadView
    <3> QED BY <3>1, <3>2
  <2>5. CASE AskCluster(k)
    <3>1. node' \in [Callers -> Nodes \cup {NoNode}]
      <4>1. CASE UNCHANGED node
            BY <4>1
      <4>2. ASSUME NEW n \in Nodes, node' = [node EXCEPT ![k] = n]
            PROVE  node' \in [Callers -> Nodes \cup {NoNode}]
            BY <4>2
      <4> QED BY <2>5, <4>1, <4>2 DEF AskCluster
    <3>2. pc' = [pc EXCEPT ![k] = "idle"] \/ pc' = [pc EXCEPT ![k] = "reuse"]
          BY <2>5 DEF AskCluster
    <3>3. UNCHANGED <<poolVars, connVars, slot, nodes, conn, calls, restVars>>
          BY <2>5 DEF AskCluster
    <3> QED BY <3>1, <3>2, <3>3
  <2>6. CASE ReuseMiss(k)
        BY <2>6 DEF ReuseMiss
  <2>7. ASSUME NEW c \in Conns, ReuseHit(k, c) PROVE TypeOK'
    <3>1. slot[k] \in Slots /\ c \in Conns /\ AddHashslot(slot[k], c)
          BY <2>7 DEF ReuseHit
    <3>2. hashslotPubSubs' \in [Slots -> Seq(Conns)]
          BY <3>1, AddsToSlot
    <3> QED BY <2>7, <3>2 DEF ReuseHit
  <2>8. ASSUME NEW c \in Conns, SelectHit(k, c) PROVE TypeOK'
    <3>1. slot[k] \in Slots /\ c \in Conns /\ AddHashslot(slot[k], c)
          BY <2>8 DEF SelectHit
    <3>2. hashslotPubSubs' \in [Slots -> Seq(Conns)]
          BY <3>1, AddsToSlot
    <3> QED BY <2>8, <3>2 DEF SelectHit
  <2>9. ASSUME NEW n \in Nodes, SelectWaits(k, n) PROVE TypeOK'
        BY <2>9 DEF SelectWaits
  <2>10. ASSUME NEW n \in Nodes, NEW c \in Conns, SelectAnnounces(k, n, c) PROVE TypeOK'
        BY <2>10 DEF SelectAnnounces
  <2>11. ASSUME NEW c \in Conns, Dials(k, c) PROVE TypeOK'
        BY <2>11 DEF Dials
  <2>12. CASE List(k)
    <3>1. /\ nodePubSubs' \in [Nodes -> Seq(Conns)] /\ hashslotPubSubs' \in [Slots -> Seq(Conns)]
          BY <2>12, ListEffect
    <3>2. pendingConns' \in [Nodes -> Conns \cup {NoConn}]
          BY <2>12 DEF List
    <3> QED BY <2>12, <3>1, <3>2 DEF List
  <2>13. CASE Resolve(k)
        BY <2>13 DEF Resolve
  <2>14. CASE Wait(k)
        BY <2>14 DEF Wait
  <2>15. CASE Adopt(k)
    <3>1. slot[k] \in Slots /\ conn[k] \in Conns /\ AddHashslot(slot[k], conn[k])
          BY <2>15 DEF Adopt, Placed
    <3>2. hashslotPubSubs' \in [Slots -> Seq(Conns)]
          BY <3>1, AddsToSlot
    <3> QED BY <2>15, <3>2 DEF Adopt
  <2>16. CASE GiveUp(k)
        BY <2>16 DEF GiveUp
  <2>17. CASE Release(k)
        BY <2>17 DEF Release
  <2> QED BY <1>1, CallCases, <2>1, <2>2, <2>3, <2>4, <2>5, <2>6, <2>7, <2>8, <2>9, <2>10, <2>11,
             <2>12, <2>13, <2>14, <2>15, <2>16, <2>17
<1>2. ASSUME NEW c \in Conns, Fail(c) PROVE TypeOK'
      BY <1>2 DEF Fail
<1>3. ASSUME NEW c \in Conns, Retire(c) PROVE TypeOK'
  <2>1. /\ nodePubSubs' \in [Nodes -> Seq(Conns)] /\ hashslotPubSubs' \in [Slots -> Seq(Conns)]
        /\ metadata' = metadata \ {c}
        BY <1>3, RetireEffect
  <2> QED BY <1>3, <2>1 DEF Retire
<1>4. ASSUME NEW s \in Slots, Invalidate(s) PROVE TypeOK'
      BY <1>4 DEF Invalidate
<1>5. ASSUME NEW s \in Slots, NEW view \in Views, Move(s, view) PROVE TypeOK'
      BY <1>5 DEF Move
<1>6. CASE CloseTakes
      BY <1>6 DEF CloseTakes
<1>7. CASE CloseNext
      BY <1>7 DEF CloseNext
<1>8. CASE CloseReturns
      BY <1>8 DEF CloseReturns
<1>9. CASE UNCHANGED vars
      BY <1>9 DEF vars
<1> QED BY <1>1, <1>2, <1>3, <1>4, <1>5, <1>6, <1>7, <1>8, <1>9 DEF Next

\* Every step leaves the local variables of a call as the next place expects them.
LEMMA PlacedStep ==
  ASSUME TypeOK, Budget, Placed, [Next]_vars
  PROVE  Placed'
<1> USE ConnPoolAssumption DEF TypeOK, Placed, Looking, Go, Return, Forget, poolVars, connVars,
        topoVars, callVars, closeVars, ghostVars, restVars, envVars, vars
<1>1. ASSUME NEW k \in Callers, Call(k) \/ CallStep(k) \/ GiveUp(k) \/ Release(k) PROVE Placed'
  <2>1. CASE Call(k)
        BY <2>1 DEF Call
  <2>2. CASE FastMiss(k)
        BY <2>2 DEF FastMiss
  <2>3. ASSUME NEW c \in Conns, FastHit(k, c) PROVE Placed'
        BY <2>3 DEF FastHit
  <2>4. CASE ReadView(k)
    <3>0. topo[slot[k]] \in Seq(Nodes) /\ topo[slot[k]] # <<>> /\ topo[slot[k]] \in Views
          BY <2>4 DEF ReadView
    <3>1. CASE preference = "balanced"
          BY <2>4, <3>0, <3>1 DEF ReadView
    <3>2. CASE preference # "balanced"
      <4>1. PICK n \in Selectable(topo[slot[k]]) : node' = [node EXCEPT ![k] = n]
            BY <2>4, <3>2 DEF ReadView
      <4>2. n \in Nodes
            BY <3>0 DEF Selectable
      <4> QED BY <2>4, <3>2, <4>1, <4>2 DEF ReadView
    <3> QED BY <3>1, <3>2
  <2>5. CASE AskCluster(k)
        BY <2>5 DEF AskCluster
  <2>6. CASE ReuseMiss(k)
        BY <2>6 DEF ReuseMiss
  <2>7. ASSUME NEW c \in Conns, ReuseHit(k, c) PROVE Placed'
        BY <2>7 DEF ReuseHit
  <2>8. ASSUME NEW c \in Conns, SelectHit(k, c) PROVE Placed'
        BY <2>8 DEF SelectHit
  <2>9. ASSUME NEW n \in Nodes, SelectWaits(k, n) PROVE Placed'
        BY <2>9 DEF SelectWaits
  <2>10. ASSUME NEW n \in Nodes, NEW c \in Conns, SelectAnnounces(k, n, c) PROVE Placed'
        BY <2>10 DEF SelectAnnounces
  <2>11. ASSUME NEW c \in Conns, Dials(k, c) PROVE Placed'
        BY <2>11 DEF Dials
  <2>12. CASE List(k)
        BY <2>12 DEF List
  <2>13. CASE Resolve(k)
        BY <2>13 DEF Resolve
  <2>14. CASE Wait(k)
        BY <2>14 DEF Wait
  <2>15. CASE Adopt(k)
        BY <2>15 DEF Adopt
  <2>16. CASE GiveUp(k)
        BY <2>16 DEF GiveUp
  <2>17. CASE Release(k)
        BY <2>17 DEF Release
  <2> QED BY <1>1, CallCases, <2>1, <2>2, <2>3, <2>4, <2>5, <2>6, <2>7, <2>8, <2>9, <2>10, <2>11,
             <2>12, <2>13, <2>14, <2>15, <2>16, <2>17
<1>2. ASSUME NEW c \in Conns, Fail(c) PROVE Placed'
      BY <1>2 DEF Fail
<1>3. ASSUME NEW c \in Conns, Retire(c) PROVE Placed'
      BY <1>3 DEF Retire
<1>4. ASSUME NEW s \in Slots, Invalidate(s) PROVE Placed'
      BY <1>4 DEF Invalidate
<1>5. ASSUME NEW s \in Slots, NEW view \in Views, Move(s, view) PROVE Placed'
      BY <1>5 DEF Move
<1>6. CASE CloseTakes
      BY <1>6 DEF CloseTakes
<1>7. CASE CloseNext
      BY <1>7 DEF CloseNext
<1>8. CASE CloseReturns
      BY <1>8 DEF CloseReturns
<1>9. CASE UNCHANGED vars
      BY <1>9 DEF vars
<1> QED BY <1>1, <1>2, <1>3, <1>4, <1>5, <1>6, <1>7, <1>8, <1>9 DEF Next

\* The budget is not exceeded by a step that takes nothing, by one that takes a connection
\* for a call that has none, and by a new call.
LEMMA BudgetRules ==
  ASSUME TypeOK, Budget
  PROVE  /\ Used' \subseteq Used /\ Spenders' \subseteq Spenders /\ calls' = calls => Budget'
         /\ \A c \in Conns, k \in Spenders :
              Used' \subseteq Used \cup {c} /\ Spenders' \subseteq Spenders \ {k} /\ calls' = calls
                => Budget'
         /\ \A k \in Callers :
              Used' \subseteq Used /\ Spenders' \subseteq Spenders \cup {k} /\ calls' = calls + 1
                => Budget'
<1> DEFINE u == Cardinality(Used)
           s == Cardinality(Spenders)
<1>1. IsFiniteSet(Used) /\ IsFiniteSet(Spenders)
      BY ConnPoolAssumption, FS_Subset DEF Used, Spenders
<1>2. u \in Nat /\ s \in Nat /\ calls \in Nat /\ u + s <= calls
      BY <1>1, FS_CardinalityType DEF TypeOK, Budget
<1>3. ASSUME Used' \subseteq Used, Spenders' \subseteq Spenders, calls' = calls PROVE Budget'
  <2>1. Cardinality(Used') <= u /\ Cardinality(Spenders') <= s
        /\ Cardinality(Used') \in Nat /\ Cardinality(Spenders') \in Nat
        BY <1>1, <1>3, FS_Subset, FS_CardinalityType
  <2> HIDE DEF u, s
  <2> QED BY <1>2, <1>3, <2>1 DEF Budget
<1>4. ASSUME NEW c \in Conns, NEW k \in Spenders,
             Used' \subseteq Used \cup {c}, Spenders' \subseteq Spenders \ {k}, calls' = calls
      PROVE  Budget'
  <2>0. /\ IsFiniteSet(Used \cup {c})
        /\ Cardinality(Used \cup {c}) = IF c \in Used THEN Cardinality(Used)
                                        ELSE Cardinality(Used) + 1
        BY <1>1, FS_AddElement
  <2>1. IsFiniteSet(Used \cup {c}) /\ Cardinality(Used \cup {c}) <= u + 1
        /\ Cardinality(Used \cup {c}) \in Nat
        BY <1>2, <2>0
  <2>2. IsFiniteSet(Spenders \ {k}) /\ Cardinality(Spenders \ {k}) = s - 1
        BY <1>1, FS_RemoveElement
  <2>3. Cardinality(Used') <= Cardinality(Used \cup {c}) /\ Cardinality(Used') \in Nat
        BY <1>4, <2>1, FS_Subset, FS_CardinalityType
  <2>4. Cardinality(Spenders') <= Cardinality(Spenders \ {k}) /\ Cardinality(Spenders') \in Nat
        BY <1>4, <2>2, FS_Subset, FS_CardinalityType
  <2> HIDE DEF u, s
  <2> QED BY <1>2, <1>4, <2>1, <2>2, <2>3, <2>4 DEF Budget
<1>5. ASSUME NEW k \in Callers,
             Used' \subseteq Used, Spenders' \subseteq Spenders \cup {k}, calls' = calls + 1
      PROVE  Budget'
  <2>0. /\ IsFiniteSet(Spenders \cup {k})
        /\ Cardinality(Spenders \cup {k}) = IF k \in Spenders THEN Cardinality(Spenders)
                                            ELSE Cardinality(Spenders) + 1
        BY <1>1, FS_AddElement
  <2>1. IsFiniteSet(Spenders \cup {k}) /\ Cardinality(Spenders \cup {k}) <= s + 1
        /\ Cardinality(Spenders \cup {k}) \in Nat
        BY <1>2, <2>0
  <2>2. Cardinality(Used') <= u /\ Cardinality(Used') \in Nat
        BY <1>1, <1>5, FS_Subset, FS_CardinalityType
  <2>3. Cardinality(Spenders') <= Cardinality(Spenders \cup {k}) /\ Cardinality(Spenders') \in Nat
        BY <1>5, <2>1, FS_Subset, FS_CardinalityType
  <2> HIDE DEF u, s
  <2> QED BY <1>2, <1>5, <2>1, <2>2, <2>3 DEF Budget
<1> QED BY <1>3, <1>4, <1>5

\* A call takes at most one connection.
LEMMA BudgetStep ==
  ASSUME TypeOK, Budget, Placed, Making, Closing, [Next]_vars
  PROVE  Budget'
<1> USE ConnPoolAssumption DEF TypeOK, Placed, Go, Return, Forget, poolVars, connVars, topoVars,
        callVars, closeVars, ghostVars, restVars, envVars, vars
<1>1. ASSUME NEW k \in Callers, Call(k) \/ CallStep(k) \/ GiveUp(k) \/ Release(k) PROVE Budget'
  <2>1. CASE Call(k)
    <3>1. Used' \subseteq Used /\ Spenders' \subseteq Spenders \cup {k} /\ calls' = calls + 1
          BY <2>1 DEF Call, Used, Spenders, Looking
    <3> QED BY <3>1, BudgetRules
  <2>2. CASE FastMiss(k)
    <3>1. Used' \subseteq Used /\ Spenders' \subseteq Spenders /\ calls' = calls
          BY <2>2 DEF FastMiss, Used, Spenders, Looking
    <3> QED BY <3>1, BudgetRules
  <2>3. ASSUME NEW c \in Conns, FastHit(k, c) PROVE Budget'
    <3>1. Used' \subseteq Used /\ Spenders' \subseteq Spenders /\ calls' = calls
          BY <2>3 DEF FastHit, Used, Spenders, Looking
    <3> QED BY <3>1, BudgetRules
  <2>4. CASE ReadView(k)
    <3>1. Used' \subseteq Used /\ Spenders' \subseteq Spenders /\ calls' = calls
          BY <2>4 DEF ReadView, Used, Spenders, Looking
    <3> QED BY <3>1, BudgetRules
  <2>5. CASE AskCluster(k)
    <3>1. Used' \subseteq Used /\ Spenders' \subseteq Spenders /\ calls' = calls
          BY <2>5 DEF AskCluster, Used, Spenders, Looking
    <3> QED BY <3>1, BudgetRules
  <2>6. CASE ReuseMiss(k)
    <3>1. Used' \subseteq Used /\ Spenders' \subseteq Spenders /\ calls' = calls
          BY <2>6 DEF ReuseMiss, Used, Spenders, Looking
    <3> QED BY <3>1, BudgetRules
  <2>7. ASSUME NEW c \in Conns, ReuseHit(k, c) PROVE Budget'
    <3>1. Used' \subseteq Used /\ Spenders' \subseteq Spenders /\ calls' = calls
          BY <2>7 DEF ReuseHit, Used, Spenders, Looking
    <3> QED BY <3>1, BudgetRules
  <2>8. ASSUME NEW c \in Conns, SelectHit(k, c) PROVE Budget'
    <3>1. Used' \subseteq Used /\ Spenders' \subseteq Spenders /\ calls' = calls
          BY <2>8 DEF SelectHit, Used, Spenders, Looking
    <3> QED BY <3>1, BudgetRules
  <2>9. ASSUME NEW n \in Nodes, SelectWaits(k, n) PROVE Budget'
    <3>1. Used' \subseteq Used /\ Spenders' \subseteq Spenders /\ calls' = calls
          BY <2>9 DEF SelectWaits, Used, Spenders, Looking
    <3> QED BY <3>1, BudgetRules
  <2>10. ASSUME NEW n \in Nodes, NEW c \in Conns, SelectAnnounces(k, n, c) PROVE Budget'
    <3>1. k \in Spenders
          BY <2>10 DEF SelectAnnounces, Spenders, Looking
    <3>2. Used' \subseteq Used \cup {c} /\ Spenders' \subseteq Spenders \ {k} /\ calls' = calls
          BY <2>10 DEF SelectAnnounces, Used, Spenders, Looking
    <3> QED BY <3>1, <3>2, BudgetRules
  <2>11. ASSUME NEW c \in Conns, Dials(k, c) PROVE Budget'
    <3>1. CASE conn[k] = NoConn
      <4>1. k \in Spenders
            BY <2>11, <3>1 DEF Dials, Spenders
      <4>2. Used' \subseteq Used \cup {c} /\ Spenders' \subseteq Spenders \ {k} /\ calls' = calls
            BY <2>11 DEF Dials, Used, Spenders, Looking
      <4> QED BY <4>1, <4>2, BudgetRules
    <3>2. CASE conn[k] # NoConn
      <4>1. connState[c] # "none"
            BY <2>11, <3>2 DEF Dials, Making
      <4>2. Used' \subseteq Used /\ Spenders' \subseteq Spenders /\ calls' = calls
            BY <2>11, <4>1 DEF Dials, Used, Spenders, Looking
      <4> QED BY <4>2, BudgetRules
    <3> QED BY <3>1, <3>2
  <2>12. CASE List(k)
    <3>1. Used' \subseteq Used /\ Spenders' \subseteq Spenders /\ calls' = calls
          BY <2>12 DEF List, Used, Spenders, Looking
    <3> QED BY <3>1, BudgetRules
  <2>13. CASE Resolve(k)
    <3>1. Used' \subseteq Used /\ Spenders' \subseteq Spenders /\ calls' = calls
          BY <2>13 DEF Resolve, Used, Spenders, Looking
    <3> QED BY <3>1, BudgetRules
  <2>14. CASE Wait(k)
    <3>1. Used' \subseteq Used /\ Spenders' \subseteq Spenders /\ calls' = calls
          BY <2>14 DEF Wait, Used, Spenders, Looking
    <3> QED BY <3>1, BudgetRules
  <2>15. CASE Adopt(k)
    <3>1. Used' \subseteq Used /\ Spenders' \subseteq Spenders /\ calls' = calls
          BY <2>15 DEF Adopt, Used, Spenders, Looking
    <3> QED BY <3>1, BudgetRules
  <2>16. CASE GiveUp(k)
    <3>1. Used' \subseteq Used /\ Spenders' \subseteq Spenders /\ calls' = calls
          BY <2>16 DEF GiveUp, Used, Spenders, Looking
    <3> QED BY <3>1, BudgetRules
  <2>17. CASE Release(k)
    <3>1. Used' \subseteq Used /\ Spenders' \subseteq Spenders /\ calls' = calls
          BY <2>17 DEF Release, Used, Spenders, Looking
    <3> QED BY <3>1, BudgetRules
  <2> QED BY <1>1, CallCases, <2>1, <2>2, <2>3, <2>4, <2>5, <2>6, <2>7, <2>8, <2>9, <2>10, <2>11,
             <2>12, <2>13, <2>14, <2>15, <2>16, <2>17
<1>2. ASSUME NEW c \in Conns, Fail(c) PROVE Budget'
  <2>1. Used' \subseteq Used /\ Spenders' \subseteq Spenders /\ calls' = calls
        BY <1>2 DEF Fail, Used, Spenders, Looking
  <2> QED BY <2>1, BudgetRules
<1>3. ASSUME NEW c \in Conns, Retire(c) PROVE Budget'
  <2>1. Used' \subseteq Used /\ Spenders' \subseteq Spenders /\ calls' = calls
        BY <1>3 DEF Retire, Used, Spenders, Looking
  <2> QED BY <2>1, BudgetRules
<1>4. ASSUME NEW s \in Slots, Invalidate(s) PROVE Budget'
  <2>1. Used' \subseteq Used /\ Spenders' \subseteq Spenders /\ calls' = calls
        BY <1>4 DEF Invalidate, Used, Spenders, Looking
  <2> QED BY <2>1, BudgetRules
<1>5. ASSUME NEW s \in Slots, NEW view \in Views, Move(s, view) PROVE Budget'
  <2>1. Used' \subseteq Used /\ Spenders' \subseteq Spenders /\ calls' = calls
        BY <1>5 DEF Move, Used, Spenders, Looking
  <2> QED BY <2>1, BudgetRules
<1>6. CASE CloseTakes
  <2>1. Used' \subseteq Used /\ Spenders' \subseteq Spenders /\ calls' = calls
        BY <1>6 DEF CloseTakes, Used, Spenders, Looking
  <2> QED BY <2>1, BudgetRules
<1>7. CASE CloseNext
  <2>1. Used' \subseteq Used /\ Spenders' \subseteq Spenders /\ calls' = calls
        BY <1>7 DEF CloseNext, Used, Spenders, Looking, Closing, Born
  <2> QED BY <2>1, BudgetRules
<1>8. CASE CloseReturns
  <2>1. Used' \subseteq Used /\ Spenders' \subseteq Spenders /\ calls' = calls
        BY <1>8 DEF CloseReturns, Used, Spenders, Looking
  <2> QED BY <2>1, BudgetRules
<1>9. CASE UNCHANGED vars
  <2>1. Used' \subseteq Used /\ Spenders' \subseteq Spenders /\ calls' = calls
        BY <1>9 DEF vars, Used, Spenders, Looking
  <2> QED BY <2>1, BudgetRules
<1> QED BY <1>1, <1>2, <1>3, <1>4, <1>5, <1>6, <1>7, <1>8, <1>9 DEF Next

\* A connection goes through its making in order.
LEMMA MakingStep ==
  ASSUME TypeOK, Budget, Placed, Making, OneMaker, Unborn, Announced, Closing, [Next]_vars
  PROVE  Making'
<1> USE ConnPoolAssumption DEF TypeOK, Placed, Making, Born, Go, Return, Forget, poolVars,
        connVars, topoVars, callVars, closeVars, ghostVars, restVars, envVars, vars
<1>1. ASSUME NEW k \in Callers, Call(k) \/ CallStep(k) \/ GiveUp(k) \/ Release(k) PROVE Making'
  <2>1. CASE Call(k)
        BY <2>1 DEF Call
  <2>2. CASE FastMiss(k)
        BY <2>2 DEF FastMiss
  <2>3. ASSUME NEW c \in Conns, FastHit(k, c) PROVE Making'
        BY <2>3 DEF FastHit
  <2>4. CASE ReadView(k)
        BY <2>4 DEF ReadView
  <2>5. CASE AskCluster(k)
        BY <2>5 DEF AskCluster
  <2>6. CASE ReuseMiss(k)
    <3>1. conn[k] = NoConn
          BY <2>6 DEF Looking, ReuseMiss
    <3> QED BY <2>6, <3>1 DEF ReuseMiss
  <2>7. ASSUME NEW c \in Conns, ReuseHit(k, c) PROVE Making'
        BY <2>7 DEF ReuseHit
  <2>8. ASSUME NEW c \in Conns, SelectHit(k, c) PROVE Making'
        BY <2>8 DEF SelectHit
  <2>9. ASSUME NEW n \in Nodes, SelectWaits(k, n) PROVE Making'
        BY <2>9 DEF SelectWaits, Announced
  <2>10. ASSUME NEW n \in Nodes, NEW c \in Conns, SelectAnnounces(k, n, c) PROVE Making'
        BY <2>10 DEF SelectAnnounces, Unborn
  <2>11. ASSUME NEW c \in Conns, Dials(k, c) PROVE Making'
        BY <2>11 DEF Dials, OneMaker, Unborn
  <2>12. CASE List(k)
        BY <2>12 DEF List
  <2>13. CASE Resolve(k)
        BY <2>13 DEF Resolve, OneMaker
  <2>14. CASE Wait(k)
        BY <2>14 DEF Wait
  <2>15. CASE Adopt(k)
        BY <2>15 DEF Adopt
  <2>16. CASE GiveUp(k)
        BY <2>16 DEF GiveUp
  <2>17. CASE Release(k)
        BY <2>17 DEF Release
  <2> QED BY <1>1, CallCases, <2>1, <2>2, <2>3, <2>4, <2>5, <2>6, <2>7, <2>8, <2>9, <2>10, <2>11,
             <2>12, <2>13, <2>14, <2>15, <2>16, <2>17
<1>2. ASSUME NEW c \in Conns, Fail(c) PROVE Making'
      BY <1>2 DEF Fail
<1>3. ASSUME NEW c \in Conns, Retire(c) PROVE Making'
      BY <1>3 DEF Retire
<1>4. ASSUME NEW s \in Slots, Invalidate(s) PROVE Making'
      BY <1>4 DEF Invalidate
<1>5. ASSUME NEW s \in Slots, NEW view \in Views, Move(s, view) PROVE Making'
      BY <1>5 DEF Move
<1>6. CASE CloseTakes
      BY <1>6 DEF CloseTakes
<1>7. CASE CloseNext
      BY <1>7 DEF CloseNext, Closing
<1>8. CASE CloseReturns
      BY <1>8 DEF CloseReturns
<1>9. CASE UNCHANGED vars
      BY <1>9 DEF vars
<1> QED BY <1>1, <1>2, <1>3, <1>4, <1>5, <1>6, <1>7, <1>8, <1>9 DEF Next

\* Nobody else starts to make a connection that is being made.
LEMMA OneMakerStep ==
  ASSUME TypeOK, Budget, Placed, Making, OneMaker, [Next]_vars
  PROVE  OneMaker'
<1> USE ConnPoolAssumption DEF TypeOK, Placed, OneMaker, Go, Return, Forget, poolVars, connVars,
        topoVars, callVars, closeVars, ghostVars, restVars, envVars, vars
<1>1. ASSUME NEW k \in Callers, Call(k) \/ CallStep(k) \/ GiveUp(k) \/ Release(k) PROVE OneMaker'
  <2>1. CASE Call(k)
        BY <2>1 DEF Call
  <2>2. CASE FastMiss(k)
        BY <2>2 DEF FastMiss
  <2>3. ASSUME NEW c \in Conns, FastHit(k, c) PROVE OneMaker'
        BY <2>3 DEF FastHit
  <2>4. CASE ReadView(k)
    <3>1. conn' = conn /\ (pc' = [pc EXCEPT ![k] = "reuse"] \/ pc' = [pc EXCEPT ![k] = "select"])
          BY <2>4 DEF ReadView
    <3>2. \A j \in Callers : pc'[j] \in {"dial", "list", "resolve"} => pc[j] = pc'[j]
          BY <3>1
    <3> QED BY <3>1, <3>2
  <2>5. CASE AskCluster(k)
    <3>1. conn' = conn /\ (pc' = [pc EXCEPT ![k] = "reuse"] \/ pc' = [pc EXCEPT ![k] = "idle"])
          BY <2>5 DEF AskCluster
    <3>2. \A j \in Callers : pc'[j] \in {"dial", "list", "resolve"} => pc[j] = pc'[j]
          BY <3>1
    <3> QED BY <3>1, <3>2
  <2>6. CASE ReuseMiss(k)
    <3>1. conn[k] = NoConn
          BY <2>6 DEF Looking, ReuseMiss
    <3> QED BY <2>6, <3>1 DEF ReuseMiss
  <2>7. ASSUME NEW c \in Conns, ReuseHit(k, c) PROVE OneMaker'
        BY <2>7 DEF ReuseHit
  <2>8. ASSUME NEW c \in Conns, SelectHit(k, c) PROVE OneMaker'
        BY <2>8 DEF SelectHit
  <2>9. ASSUME NEW n \in Nodes, SelectWaits(k, n) PROVE OneMaker'
        BY <2>9 DEF SelectWaits
  <2>10. ASSUME NEW n \in Nodes, NEW c \in Conns, SelectAnnounces(k, n, c) PROVE OneMaker'
        BY <2>10 DEF SelectAnnounces, Making, Born
  <2>11. ASSUME NEW c \in Conns, Dials(k, c) PROVE OneMaker'
        BY <2>11 DEF Dials, Making, Born
  <2>12. CASE List(k)
        BY <2>12 DEF List
  <2>13. CASE Resolve(k)
        BY <2>13 DEF Resolve
  <2>14. CASE Wait(k)
        BY <2>14 DEF Wait
  <2>15. CASE Adopt(k)
        BY <2>15 DEF Adopt
  <2>16. CASE GiveUp(k)
        BY <2>16 DEF GiveUp
  <2>17. CASE Release(k)
        BY <2>17 DEF Release
  <2> QED BY <1>1, CallCases, <2>1, <2>2, <2>3, <2>4, <2>5, <2>6, <2>7, <2>8, <2>9, <2>10, <2>11,
             <2>12, <2>13, <2>14, <2>15, <2>16, <2>17
<1>2. ASSUME NEW c \in Conns, Fail(c) PROVE OneMaker'
      BY <1>2 DEF Fail
<1>3. ASSUME NEW c \in Conns, Retire(c) PROVE OneMaker'
      BY <1>3 DEF Retire
<1>4. ASSUME NEW s \in Slots, Invalidate(s) PROVE OneMaker'
      BY <1>4 DEF Invalidate
<1>5. ASSUME NEW s \in Slots, NEW view \in Views, Move(s, view) PROVE OneMaker'
      BY <1>5 DEF Move
<1>6. CASE CloseTakes
      BY <1>6 DEF CloseTakes
<1>7. CASE CloseNext
      BY <1>7 DEF CloseNext
<1>8. CASE CloseReturns
      BY <1>8 DEF CloseReturns
<1>9. CASE UNCHANGED vars
      BY <1>9 DEF vars
<1> QED BY <1>1, <1>2, <1>3, <1>4, <1>5, <1>6, <1>7, <1>8, <1>9 DEF Next

\* Only a connection that was made is registered, listed, cached or resolved.
LEMMA UnbornStep ==
  ASSUME TypeOK, Budget, Placed, Making, Unborn, Closing, [Next]_vars
  PROVE  Unborn'
<1> USE ConnPoolAssumption DEF TypeOK, Placed, Unborn, Born, Go, Return, Forget, poolVars,
        connVars, topoVars, callVars, closeVars, ghostVars, restVars, envVars, vars
<1>0. inNode \in [Nodes -> SUBSET Conns] /\ inSlot \in [Slots -> SUBSET Conns]
      BY ListTypes
<1>1. ASSUME NEW k \in Callers, Call(k) \/ CallStep(k) \/ GiveUp(k) \/ Release(k) PROVE Unborn'
  <2>1. CASE Call(k)
        BY <2>1, <1>0, SameLists DEF Call
  <2>2. CASE FastMiss(k)
        BY <2>2, <1>0, SameLists DEF FastMiss
  <2>3. ASSUME NEW c \in Conns, FastHit(k, c) PROVE Unborn'
        BY <2>3, <1>0, SameLists DEF FastHit
  <2>4. CASE ReadView(k)
        BY <2>4, <1>0, SameLists DEF ReadView
  <2>5. CASE AskCluster(k)
        BY <2>5, <1>0, SameLists DEF AskCluster
  <2>6. CASE ReuseMiss(k)
        BY <2>6, <1>0, SameLists DEF ReuseMiss
  <2>7. ASSUME NEW c \in Conns, ReuseHit(k, c) PROVE Unborn'
    <3>1. inSlot' = [inSlot EXCEPT ![slot[k]] = @ \cup {c}] /\ inNode' = inNode
      <4>1. slot[k] \in Slots /\ c \in Conns /\ AddHashslot(slot[k], c)
            /\ nodePubSubs' = nodePubSubs
            BY <2>7 DEF ReuseHit
      <4> QED BY <4>1, AddsToSlot, SameLists
    <3> QED BY <2>7, <1>0, <3>1 DEF ReuseHit, Usable
  <2>8. ASSUME NEW c \in Conns, SelectHit(k, c) PROVE Unborn'
    <3>1. inSlot' = [inSlot EXCEPT ![slot[k]] = @ \cup {c}] /\ inNode' = inNode
      <4>1. slot[k] \in Slots /\ c \in Conns /\ AddHashslot(slot[k], c)
            /\ nodePubSubs' = nodePubSubs
            BY <2>8 DEF SelectHit
      <4> QED BY <4>1, AddsToSlot, SameLists
    <3> QED BY <2>8, <1>0, <3>1 DEF SelectHit, Usable
  <2>9. ASSUME NEW n \in Nodes, SelectWaits(k, n) PROVE Unborn'
        BY <2>9, <1>0, SameLists DEF SelectWaits
  <2>10. ASSUME NEW n \in Nodes, NEW c \in Conns, SelectAnnounces(k, n, c) PROVE Unborn'
        BY <2>10, <1>0, SameLists DEF SelectAnnounces
  <2>11. ASSUME NEW c \in Conns, Dials(k, c) PROVE Unborn'
        BY <2>11, <1>0, SameLists DEF Dials, Making
  <2>12. CASE List(k)
    <3>1. /\ inNode' = [inNode EXCEPT ![node[k]] = @ \cup {conn[k]}]
          /\ inSlot' = [inSlot EXCEPT ![slot[k]] = @ \cup {conn[k]}]
          BY <2>12, ListEffect
    <3> QED BY <2>12, <1>0, <3>1 DEF List, Making
  <2>13. CASE Resolve(k)
        BY <2>13, <1>0, SameLists DEF Resolve, Making
  <2>14. CASE Wait(k)
        BY <2>14, <1>0, SameLists DEF Wait
  <2>15. CASE Adopt(k)
    <3>1. inSlot' = [inSlot EXCEPT ![slot[k]] = @ \cup {conn[k]}] /\ inNode' = inNode
      <4>1. slot[k] \in Slots /\ conn[k] \in Conns /\ AddHashslot(slot[k], conn[k])
            /\ nodePubSubs' = nodePubSubs
            BY <2>15 DEF Adopt
      <4> QED BY <4>1, AddsToSlot, SameLists
    <3> QED BY <2>15, <1>0, <3>1 DEF Adopt, Making
  <2>16. CASE GiveUp(k)
        BY <2>16, <1>0, SameLists DEF GiveUp
  <2>17. CASE Release(k)
        BY <2>17, <1>0, SameLists DEF Release
  <2> QED BY <1>1, CallCases, <2>1, <2>2, <2>3, <2>4, <2>5, <2>6, <2>7, <2>8, <2>9, <2>10, <2>11,
             <2>12, <2>13, <2>14, <2>15, <2>16, <2>17
<1>2. ASSUME NEW c \in Conns, Fail(c) PROVE Unborn'
      BY <1>2, <1>0, SameLists DEF Fail
<1>3. ASSUME NEW c \in Conns, Retire(c) PROVE Unborn'
  <2>1. /\ \A n \in Nodes : inNode'[n] \subseteq inNode[n] /\ inNode[n] \ {c} \subseteq inNode'[n]
        /\ \A s \in Slots : inSlot'[s] \subseteq inSlot[s]
        /\ metadata' = metadata \ {c}
        BY <1>3, RetireEffect
  <2> QED BY <1>3, <1>0, <2>1 DEF Retire
<1>4. ASSUME NEW s \in Slots, Invalidate(s) PROVE Unborn'
  <2>1. inSlot' = [inSlot EXCEPT ![s] = {}] /\ inNode' = inNode
    <3>1. nodePubSubs' = nodePubSubs
          BY <1>4 DEF Invalidate
    <3> QED BY <1>4, <3>1, EmptyLists, SameLists
  <2> QED BY <1>4, <1>0, <2>1 DEF Invalidate
<1>5. ASSUME NEW s \in Slots, NEW view \in Views, Move(s, view) PROVE Unborn'
      BY <1>5, <1>0, SameLists DEF Move
<1>6. CASE CloseTakes
  <2>1. inNode' = [n \in Nodes |-> {}] /\ inSlot' = [s \in Slots |-> {}]
        BY <1>6, EmptyLists
  <2> QED BY <1>6, <1>0, <2>1 DEF CloseTakes
<1>7. CASE CloseNext
      BY <1>7, <1>0, SameLists DEF CloseNext, Closing
<1>8. CASE CloseReturns
      BY <1>8, <1>0, SameLists DEF CloseReturns
<1>9. CASE UNCHANGED vars
      BY <1>9, <1>0, SameLists DEF vars
<1> QED BY <1>1, <1>2, <1>3, <1>4, <1>5, <1>6, <1>7, <1>8, <1>9 DEF Next

\* The announcements hold if no announcement changes, their makers stay where they are,
\* and a caller that begins to make a connection has not announced one.
LEMMA QuietAnnounced ==
  ASSUME Announced, UNCHANGED <<pendingConns, outcome>>, closePc' = "open" => closePc = "open",
         \A j \in Callers : pc[j] \in {"dial", "list"} =>
           pc'[j] \in {"dial", "list"} /\ node'[j] = node[j] /\ conn'[j] = conn[j],
         \A j \in Callers : pc'[j] \in {"dial", "list"} =>
           pc[j] \in {"dial", "list"} \/ conn'[j] = NoConn
  PROVE  Announced'
<1>1. ASSUME NEW n \in Nodes, pendingConns'[n] # NoConn
      PROVE  /\ outcome'[pendingConns'[n]] = "open"
             /\ \E k \in Callers :
                  pc'[k] \in {"dial", "list"} /\ node'[k] = n /\ conn'[k] = pendingConns'[n]
  <2>1. PICK j \in Callers :
           pc[j] \in {"dial", "list"} /\ node[j] = n /\ conn[j] = pendingConns[n]
        BY <1>1 DEF Announced
  <2>2. pc'[j] \in {"dial", "list"} /\ node'[j] = n /\ conn'[j] = pendingConns'[n]
        BY <2>1
  <2> QED BY <1>1, <2>2 DEF Announced
<1>2. ASSUME closePc' = "open", NEW j \in Callers, pc'[j] \in {"dial", "list"},
             conn'[j] # NoConn, outcome'[conn'[j]] = "open"
      PROVE  pendingConns'[node'[j]] = conn'[j]
  <2>1. pc[j] \in {"dial", "list"} /\ node'[j] = node[j] /\ conn'[j] = conn[j]
        BY <1>2
  <2> QED BY <1>2, <2>1 DEF Announced
<1> QED BY <1>1, <1>2 DEF Announced

\* An announcement and its maker stay together.
LEMMA AnnouncedStep ==
  ASSUME TypeOK, Budget, Placed, Making, OneMaker, Unborn, Announced, [Next]_vars
  PROVE  Announced'
<1> USE ConnPoolAssumption DEF TypeOK, Placed, Go, Return, Forget, poolVars, connVars, topoVars,
        callVars, closeVars, ghostVars, restVars, envVars, vars
<1>1. ASSUME NEW k \in Callers, Call(k) \/ CallStep(k) \/ GiveUp(k) \/ Release(k) PROVE Announced'
  <2>1. CASE Call(k)
    <3>1. /\ UNCHANGED <<pendingConns, outcome>> /\ (closePc' = "open" => closePc = "open")
          /\ \A j \in Callers : pc[j] \in {"dial", "list"} =>
               pc'[j] \in {"dial", "list"} /\ node'[j] = node[j] /\ conn'[j] = conn[j]
          /\ \A j \in Callers : pc'[j] \in {"dial", "list"} =>
               pc[j] \in {"dial", "list"} \/ conn'[j] = NoConn
          BY <2>1 DEF Call, Looking
    <3> QED BY <3>1, QuietAnnounced
  <2>2. CASE FastMiss(k)
    <3>1. /\ UNCHANGED <<pendingConns, outcome>> /\ (closePc' = "open" => closePc = "open")
          /\ \A j \in Callers : pc[j] \in {"dial", "list"} =>
               pc'[j] \in {"dial", "list"} /\ node'[j] = node[j] /\ conn'[j] = conn[j]
          /\ \A j \in Callers : pc'[j] \in {"dial", "list"} =>
               pc[j] \in {"dial", "list"} \/ conn'[j] = NoConn
          BY <2>2 DEF FastMiss, Looking
    <3> QED BY <3>1, QuietAnnounced
  <2>3. ASSUME NEW c \in Conns, FastHit(k, c) PROVE Announced'
    <3>1. /\ UNCHANGED <<pendingConns, outcome>> /\ (closePc' = "open" => closePc = "open")
          /\ \A j \in Callers : pc[j] \in {"dial", "list"} =>
               pc'[j] \in {"dial", "list"} /\ node'[j] = node[j] /\ conn'[j] = conn[j]
          /\ \A j \in Callers : pc'[j] \in {"dial", "list"} =>
               pc[j] \in {"dial", "list"} \/ conn'[j] = NoConn
          BY <2>3 DEF FastHit, Looking
    <3> QED BY <3>1, QuietAnnounced
  <2>4. CASE ReadView(k)
    <3>1. /\ UNCHANGED <<pendingConns, outcome>> /\ (closePc' = "open" => closePc = "open")
          /\ \A j \in Callers : pc[j] \in {"dial", "list"} =>
               pc'[j] \in {"dial", "list"} /\ node'[j] = node[j] /\ conn'[j] = conn[j]
          /\ \A j \in Callers : pc'[j] \in {"dial", "list"} =>
               pc[j] \in {"dial", "list"} \/ conn'[j] = NoConn
          BY <2>4 DEF ReadView, Looking
    <3> QED BY <3>1, QuietAnnounced
  <2>5. CASE AskCluster(k)
    <3>1. /\ UNCHANGED <<pendingConns, outcome>> /\ (closePc' = "open" => closePc = "open")
          /\ \A j \in Callers : pc[j] \in {"dial", "list"} =>
               pc'[j] \in {"dial", "list"} /\ node'[j] = node[j] /\ conn'[j] = conn[j]
          /\ \A j \in Callers : pc'[j] \in {"dial", "list"} =>
               pc[j] \in {"dial", "list"} \/ conn'[j] = NoConn
          BY <2>5 DEF AskCluster, Looking
    <3> QED BY <3>1, QuietAnnounced
  <2>6. CASE ReuseMiss(k)
    <3>1. /\ UNCHANGED <<pendingConns, outcome>> /\ (closePc' = "open" => closePc = "open")
          /\ \A j \in Callers : pc[j] \in {"dial", "list"} =>
               pc'[j] \in {"dial", "list"} /\ node'[j] = node[j] /\ conn'[j] = conn[j]
          /\ \A j \in Callers : pc'[j] \in {"dial", "list"} =>
               pc[j] \in {"dial", "list"} \/ conn'[j] = NoConn
          BY <2>6 DEF ReuseMiss, Looking
    <3> QED BY <3>1, QuietAnnounced
  <2>7. ASSUME NEW c \in Conns, ReuseHit(k, c) PROVE Announced'
    <3>1. /\ UNCHANGED <<pendingConns, outcome>> /\ (closePc' = "open" => closePc = "open")
          /\ \A j \in Callers : pc[j] \in {"dial", "list"} =>
               pc'[j] \in {"dial", "list"} /\ node'[j] = node[j] /\ conn'[j] = conn[j]
          /\ \A j \in Callers : pc'[j] \in {"dial", "list"} =>
               pc[j] \in {"dial", "list"} \/ conn'[j] = NoConn
          BY <2>7 DEF ReuseHit, Looking
    <3> QED BY <3>1, QuietAnnounced
  <2>8. ASSUME NEW c \in Conns, SelectHit(k, c) PROVE Announced'
    <3>1. /\ UNCHANGED <<pendingConns, outcome>> /\ (closePc' = "open" => closePc = "open")
          /\ \A j \in Callers : pc[j] \in {"dial", "list"} =>
               pc'[j] \in {"dial", "list"} /\ node'[j] = node[j] /\ conn'[j] = conn[j]
          /\ \A j \in Callers : pc'[j] \in {"dial", "list"} =>
               pc[j] \in {"dial", "list"} \/ conn'[j] = NoConn
          BY <2>8 DEF SelectHit, Looking
    <3> QED BY <3>1, QuietAnnounced
  <2>9. ASSUME NEW n \in Nodes, SelectWaits(k, n) PROVE Announced'
    <3>1. /\ UNCHANGED <<pendingConns, outcome>> /\ (closePc' = "open" => closePc = "open")
          /\ \A j \in Callers : pc[j] \in {"dial", "list"} =>
               pc'[j] \in {"dial", "list"} /\ node'[j] = node[j] /\ conn'[j] = conn[j]
          /\ \A j \in Callers : pc'[j] \in {"dial", "list"} =>
               pc[j] \in {"dial", "list"} \/ conn'[j] = NoConn
          BY <2>9 DEF SelectWaits, Looking
    <3> QED BY <3>1, QuietAnnounced
  <2>10. ASSUME NEW n \in Nodes, NEW c \in Conns, SelectAnnounces(k, n, c) PROVE Announced'
    <3>1. ASSUME NEW m \in Nodes, pendingConns'[m] # NoConn
          PROVE  /\ outcome'[pendingConns'[m]] = "open"
                 /\ \E i \in Callers :
                      pc'[i] \in {"dial", "list"} /\ node'[i] = m /\ conn'[i] = pendingConns'[m]
      <4>1. CASE m = n
        <5>1. pc'[k] \in {"dial", "list"} /\ node'[k] = m /\ conn'[k] = pendingConns'[m]
              BY <2>10, <4>1 DEF SelectAnnounces
        <5> QED BY <2>10, <4>1, <5>1 DEF SelectAnnounces
      <4>2. CASE m # n
        <5>0. pendingConns'[m] = pendingConns[m] /\ pendingConns[m] # NoConn
              BY <2>10, <3>1, <4>2 DEF SelectAnnounces
        <5>1. PICK i \in Callers :
                 pc[i] \in {"dial", "list"} /\ node[i] = m /\ conn[i] = pendingConns[m]
              BY <5>0 DEF Announced
        <5>2. pc'[i] \in {"dial", "list"} /\ node'[i] = m /\ conn'[i] = pendingConns'[m]
              BY <2>10, <5>0, <5>1 DEF SelectAnnounces
        <5>3. outcome'[pendingConns'[m]] = "open"
              BY <2>10, <5>0 DEF SelectAnnounces, Announced
        <5> QED BY <5>2, <5>3
      <4> QED BY <4>1, <4>2
    <3>2. ASSUME closePc' = "open", NEW j \in Callers, pc'[j] \in {"dial", "list"},
                 conn'[j] # NoConn, outcome'[conn'[j]] = "open"
          PROVE  pendingConns'[node'[j]] = conn'[j]
      <4>1. CASE j = k
            BY <2>10, <4>1 DEF SelectAnnounces
      <4>2. CASE j # k
        <5>1. pc[j] \in {"dial", "list"} /\ conn'[j] = conn[j] /\ node'[j] = node[j] /\ conn[j] \in Conns
              BY <2>10, <3>2, <4>2 DEF SelectAnnounces
        <5>2. conn[j] # c
              BY <2>10, <5>1, <3>2 DEF SelectAnnounces, Making, Born
        <5>3. pendingConns[node[j]] = conn[j]
              BY <2>10, <3>2, <5>1, <5>2 DEF SelectAnnounces, Announced
        <5>4. node[j] # n
              BY <2>10, <5>1, <5>3 DEF SelectAnnounces
        <5> QED BY <2>10, <5>1, <5>3, <5>4 DEF SelectAnnounces
      <4> QED BY <4>1, <4>2
    <3> QED BY <3>1, <3>2 DEF Announced
  <2>11. ASSUME NEW c \in Conns, Dials(k, c) PROVE Announced'
    <3>1. ASSUME NEW m \in Nodes, pendingConns'[m] # NoConn
          PROVE  /\ outcome'[pendingConns'[m]] = "open"
                 /\ \E i \in Callers :
                      pc'[i] \in {"dial", "list"} /\ node'[i] = m /\ conn'[i] = pendingConns'[m]
      <4>0. UNCHANGED <<pendingConns, outcome, node>>
            BY <2>11 DEF Dials
      <4>1. PICK i \in Callers :
               pc[i] \in {"dial", "list"} /\ node[i] = m /\ conn[i] = pendingConns[m]
            BY <3>1, <4>0 DEF Announced
      <4>2. pc'[i] \in {"dial", "list"} /\ node'[i] = m /\ conn'[i] = pendingConns'[m]
            BY <2>11, <3>1, <4>0, <4>1 DEF Dials
      <4> QED BY <3>1, <4>0, <4>2 DEF Announced
    <3>2. ASSUME closePc' = "open", NEW j \in Callers, pc'[j] \in {"dial", "list"},
                 conn'[j] # NoConn, outcome'[conn'[j]] = "open"
          PROVE  pendingConns'[node'[j]] = conn'[j]
      <4>1. CASE j = k /\ conn[k] = NoConn
            BY <2>11, <3>2, <4>1 DEF Dials, Unborn
      <4>2. CASE ~(j = k /\ conn[k] = NoConn)
            BY <2>11, <3>2, <4>2 DEF Dials, Announced
      <4> QED BY <4>1, <4>2
    <3> QED BY <3>1, <3>2 DEF Announced
  <2>12. CASE List(k)
    <3>1. ASSUME NEW m \in Nodes, pendingConns'[m] # NoConn
          PROVE  /\ outcome'[pendingConns'[m]] = "open"
                 /\ \E i \in Callers :
                      pc'[i] \in {"dial", "list"} /\ node'[i] = m /\ conn'[i] = pendingConns'[m]
      <4>1. pendingConns'[m] = pendingConns[m] /\ UNCHANGED <<outcome, node, conn>>
            BY <2>12, <3>1 DEF List
      <4>2. PICK i \in Callers :
               pc[i] \in {"dial", "list"} /\ node[i] = m /\ conn[i] = pendingConns[m]
            BY <3>1, <4>1 DEF Announced
      <4>3. outcome[pendingConns[m]] = "open"
            BY <3>1, <4>1 DEF Announced
      <4>4. i # k
            BY <2>12, <3>1, <4>1, <4>2, <4>3 DEF List
      <4>5. pc'[i] = pc[i]
            BY <2>12, <4>4 DEF List
      <4> QED BY <4>1, <4>2, <4>3, <4>5
    <3>2. ASSUME closePc' = "open", NEW j \in Callers, pc'[j] \in {"dial", "list"},
                 conn'[j] # NoConn, outcome'[conn'[j]] = "open"
          PROVE  pendingConns'[node'[j]] = conn'[j]
      <4>1. j # k /\ pc'[j] = pc[j] /\ UNCHANGED <<outcome, node, conn, closePc>>
            BY <2>12, <3>2 DEF List
      <4>2. pendingConns[node[j]] = conn[j]
            BY <3>2, <4>1 DEF Announced
      <4>3. CASE outcome[conn[k]] = "open"
        <5>1. pendingConns[node[k]] = conn[k] /\ conn[k] # NoConn /\ pc[k] = "list"
              BY <2>12, <3>2, <4>1, <4>3 DEF List, Announced
        <5>2. node[j] # node[k]
              BY <3>2, <4>1, <4>2, <5>1 DEF OneMaker
        <5> QED BY <2>12, <3>2, <4>1, <4>2, <4>3, <5>2 DEF List
      <4>4. CASE outcome[conn[k]] # "open"
            BY <2>12, <4>1, <4>2, <4>4 DEF List
      <4> QED BY <4>3, <4>4
    <3> QED BY <3>1, <3>2 DEF Announced
  <2>13. CASE Resolve(k)
    <3>1. ASSUME NEW m \in Nodes, pendingConns'[m] # NoConn
          PROVE  /\ outcome'[pendingConns'[m]] = "open"
                 /\ \E i \in Callers :
                      pc'[i] \in {"dial", "list"} /\ node'[i] = m /\ conn'[i] = pendingConns'[m]
      <4>1. UNCHANGED <<pendingConns, node, conn>>
            BY <2>13 DEF Resolve
      <4>2. PICK i \in Callers :
               pc[i] \in {"dial", "list"} /\ node[i] = m /\ conn[i] = pendingConns[m]
            BY <3>1, <4>1 DEF Announced
      <4>3. i # k /\ pc'[i] = pc[i]
            BY <2>13, <4>2 DEF Resolve
      <4>4. pendingConns[m] # conn[k]
            BY <2>13, <3>1, <4>1, <4>2, <4>3 DEF Resolve, OneMaker
      <4>5. outcome'[pendingConns[m]] = "open"
            BY <2>13, <3>1, <4>1, <4>4 DEF Resolve, Announced
      <4> QED BY <4>1, <4>2, <4>3, <4>5
    <3>2. ASSUME closePc' = "open", NEW j \in Callers, pc'[j] \in {"dial", "list"},
                 conn'[j] # NoConn, outcome'[conn'[j]] = "open"
          PROVE  pendingConns'[node'[j]] = conn'[j]
      <4>1. j # k /\ pc'[j] = pc[j] /\ UNCHANGED <<pendingConns, node, conn, closePc>>
            BY <2>13, <3>2 DEF Resolve
      <4>2. outcome[conn[j]] = "open" /\ conn[j] # NoConn
            BY <2>13, <3>2, <4>1 DEF Resolve
      <4> QED BY <3>2, <4>1, <4>2 DEF Announced
    <3> QED BY <3>1, <3>2 DEF Announced
  <2>14. CASE Wait(k)
    <3>1. /\ UNCHANGED <<pendingConns, outcome>> /\ (closePc' = "open" => closePc = "open")
          /\ \A j \in Callers : pc[j] \in {"dial", "list"} =>
               pc'[j] \in {"dial", "list"} /\ node'[j] = node[j] /\ conn'[j] = conn[j]
          /\ \A j \in Callers : pc'[j] \in {"dial", "list"} =>
               pc[j] \in {"dial", "list"} \/ conn'[j] = NoConn
          BY <2>14 DEF Wait, Looking
    <3> QED BY <3>1, QuietAnnounced
  <2>15. CASE Adopt(k)
    <3>1. /\ UNCHANGED <<pendingConns, outcome>> /\ (closePc' = "open" => closePc = "open")
          /\ \A j \in Callers : pc[j] \in {"dial", "list"} =>
               pc'[j] \in {"dial", "list"} /\ node'[j] = node[j] /\ conn'[j] = conn[j]
          /\ \A j \in Callers : pc'[j] \in {"dial", "list"} =>
               pc[j] \in {"dial", "list"} \/ conn'[j] = NoConn
          BY <2>15 DEF Adopt, Looking
    <3> QED BY <3>1, QuietAnnounced
  <2>16. CASE GiveUp(k)
    <3>1. /\ UNCHANGED <<pendingConns, outcome>> /\ (closePc' = "open" => closePc = "open")
          /\ \A j \in Callers : pc[j] \in {"dial", "list"} =>
               pc'[j] \in {"dial", "list"} /\ node'[j] = node[j] /\ conn'[j] = conn[j]
          /\ \A j \in Callers : pc'[j] \in {"dial", "list"} =>
               pc[j] \in {"dial", "list"} \/ conn'[j] = NoConn
          BY <2>16 DEF GiveUp, Looking
    <3> QED BY <3>1, QuietAnnounced
  <2>17. CASE Release(k)
    <3>1. /\ UNCHANGED <<pendingConns, outcome>> /\ (closePc' = "open" => closePc = "open")
          /\ \A j \in Callers : pc[j] \in {"dial", "list"} =>
               pc'[j] \in {"dial", "list"} /\ node'[j] = node[j] /\ conn'[j] = conn[j]
          /\ \A j \in Callers : pc'[j] \in {"dial", "list"} =>
               pc[j] \in {"dial", "list"} \/ conn'[j] = NoConn
          BY <2>17 DEF Release, Looking
    <3> QED BY <3>1, QuietAnnounced
  <2> QED BY <1>1, CallCases, <2>1, <2>2, <2>3, <2>4, <2>5, <2>6, <2>7, <2>8, <2>9, <2>10, <2>11,
             <2>12, <2>13, <2>14, <2>15, <2>16, <2>17
<1>2. ASSUME NEW c \in Conns, Fail(c) PROVE Announced'
  <2>1. /\ UNCHANGED <<pendingConns, outcome>> /\ (closePc' = "open" => closePc = "open")
        /\ \A j \in Callers : pc[j] \in {"dial", "list"} =>
             pc'[j] \in {"dial", "list"} /\ node'[j] = node[j] /\ conn'[j] = conn[j]
        /\ \A j \in Callers : pc'[j] \in {"dial", "list"} =>
             pc[j] \in {"dial", "list"} \/ conn'[j] = NoConn
        BY <1>2 DEF Fail, Looking
  <2> QED BY <2>1, QuietAnnounced
<1>3. ASSUME NEW c \in Conns, Retire(c) PROVE Announced'
  <2>1. /\ UNCHANGED <<pendingConns, outcome>> /\ (closePc' = "open" => closePc = "open")
        /\ \A j \in Callers : pc[j] \in {"dial", "list"} =>
             pc'[j] \in {"dial", "list"} /\ node'[j] = node[j] /\ conn'[j] = conn[j]
        /\ \A j \in Callers : pc'[j] \in {"dial", "list"} =>
             pc[j] \in {"dial", "list"} \/ conn'[j] = NoConn
        BY <1>3 DEF Retire, Looking
  <2> QED BY <2>1, QuietAnnounced
<1>4. ASSUME NEW s \in Slots, Invalidate(s) PROVE Announced'
  <2>1. /\ UNCHANGED <<pendingConns, outcome>> /\ (closePc' = "open" => closePc = "open")
        /\ \A j \in Callers : pc[j] \in {"dial", "list"} =>
             pc'[j] \in {"dial", "list"} /\ node'[j] = node[j] /\ conn'[j] = conn[j]
        /\ \A j \in Callers : pc'[j] \in {"dial", "list"} =>
             pc[j] \in {"dial", "list"} \/ conn'[j] = NoConn
        BY <1>4 DEF Invalidate, Looking
  <2> QED BY <2>1, QuietAnnounced
<1>5. ASSUME NEW s \in Slots, NEW view \in Views, Move(s, view) PROVE Announced'
  <2>1. /\ UNCHANGED <<pendingConns, outcome>> /\ (closePc' = "open" => closePc = "open")
        /\ \A j \in Callers : pc[j] \in {"dial", "list"} =>
             pc'[j] \in {"dial", "list"} /\ node'[j] = node[j] /\ conn'[j] = conn[j]
        /\ \A j \in Callers : pc'[j] \in {"dial", "list"} =>
             pc[j] \in {"dial", "list"} \/ conn'[j] = NoConn
        BY <1>5 DEF Move, Looking
  <2> QED BY <2>1, QuietAnnounced
<1>6. CASE CloseTakes
      BY <1>6 DEF CloseTakes, Announced
<1>7. CASE CloseNext
  <2>1. /\ UNCHANGED <<pendingConns, outcome>> /\ (closePc' = "open" => closePc = "open")
        /\ \A j \in Callers : pc[j] \in {"dial", "list"} =>
             pc'[j] \in {"dial", "list"} /\ node'[j] = node[j] /\ conn'[j] = conn[j]
        /\ \A j \in Callers : pc'[j] \in {"dial", "list"} =>
             pc[j] \in {"dial", "list"} \/ conn'[j] = NoConn
        BY <1>7 DEF CloseNext, Looking
  <2> QED BY <2>1, QuietAnnounced
<1>8. CASE CloseReturns
  <2>1. /\ UNCHANGED <<pendingConns, outcome>> /\ (closePc' = "open" => closePc = "open")
        /\ \A j \in Callers : pc[j] \in {"dial", "list"} =>
             pc'[j] \in {"dial", "list"} /\ node'[j] = node[j] /\ conn'[j] = conn[j]
        /\ \A j \in Callers : pc'[j] \in {"dial", "list"} =>
             pc[j] \in {"dial", "list"} \/ conn'[j] = NoConn
        BY <1>8 DEF CloseReturns, Looking
  <2> QED BY <2>1, QuietAnnounced
<1>9. CASE UNCHANGED vars
  <2>1. /\ UNCHANGED <<pendingConns, outcome>> /\ (closePc' = "open" => closePc = "open")
        /\ \A j \in Callers : pc[j] \in {"dial", "list"} =>
             pc'[j] \in {"dial", "list"} /\ node'[j] = node[j] /\ conn'[j] = conn[j]
        /\ \A j \in Callers : pc'[j] \in {"dial", "list"} =>
             pc[j] \in {"dial", "list"} \/ conn'[j] = NoConn
        BY <1>9 DEF vars, Looking
  <2> QED BY <2>1, QuietAnnounced
<1> QED BY <1>1, <1>2, <1>3, <1>4, <1>5, <1>6, <1>7, <1>8, <1>9 DEF Next

\* The registries agree after a step that lists nothing, takes nothing out, and caches
\* only what is listed.
LEMMA QuietRegistered ==
  ASSUME Registered, inNode' = inNode, UNCHANGED <<nodeOf, metadata>>,
         closePc' = "open" => closePc = "open",
         \A c \in Conns : connState'[c] = "active" => connState[c] = "active",
         \A j \in Callers : pc[j] = "list" => pc'[j] = "list" /\ conn'[j] = conn[j],
         \A s \in Slots : \A c \in inSlot'[s] :
           \/ c \in inSlot[s]
           \/ c \in metadata /\ closePc = "open" => nodeOf[c] \in Nodes /\ c \in inNode[nodeOf[c]]
  PROVE  Registered'
<1>1. \A n \in Nodes : \A c \in inNode'[n] : nodeOf'[c] = n
      BY DEF Registered
<1>2. ASSUME closePc' = "open"
      PROVE  /\ \A c \in Conns : connState'[c] = "active" => c \in metadata'
             /\ \A s \in Slots : \A c \in inSlot'[s] \cap metadata' :
                  nodeOf'[c] \in Nodes /\ c \in inNode'[nodeOf'[c]]
      BY <1>2 DEF Registered
<1>3. ASSUME closePc' = "open", NEW c \in metadata'
      PROVE  \/ nodeOf'[c] \in Nodes /\ c \in inNode'[nodeOf'[c]]
             \/ \E k \in Callers : pc'[k] = "list" /\ conn'[k] = c
  <2>1. CASE nodeOf[c] \in Nodes /\ c \in inNode[nodeOf[c]]
        BY <2>1
  <2>2. ASSUME NEW j \in Callers, pc[j] = "list", conn[j] = c
        PROVE  \E k \in Callers : pc'[k] = "list" /\ conn'[k] = c
        BY <2>2
  <2>3. c \in metadata /\ closePc = "open"
        BY <1>3
  <2> QED BY <2>1, <2>2, <2>3 DEF Registered
<1> QED BY <1>1, <1>2, <1>3 DEF Registered

\* What works is registered, what is registered is listed, what is cached is listed.
LEMMA RegisteredStep ==
  ASSUME TypeOK, Budget, Placed, Making, OneMaker, Unborn, Registered, Closing, [Next]_vars
  PROVE  Registered'
<1> USE ConnPoolAssumption DEF TypeOK, Placed, Usable, Go, Return, Forget, poolVars, connVars,
        topoVars, callVars, closeVars, ghostVars, restVars, envVars, vars
<1>0. inNode \in [Nodes -> SUBSET Conns] /\ inSlot \in [Slots -> SUBSET Conns]
      BY ListTypes
<1>1. ASSUME NEW k \in Callers, Call(k) \/ CallStep(k) \/ GiveUp(k) \/ Release(k)
      PROVE  Registered'
  <2>1. CASE Call(k)
    <3>0. inNode' = inNode /\ inSlot' = inSlot
          BY <2>1, SameLists DEF Call
    <3>1. /\ UNCHANGED <<nodeOf, metadata>> /\ (closePc' = "open" => closePc = "open")
          /\ \A d \in Conns : connState'[d] = "active" => connState[d] = "active"
          /\ \A j \in Callers : pc[j] = "list" => pc'[j] = "list" /\ conn'[j] = conn[j]
          BY <2>1 DEF Call
    <3>2. \A t \in Slots : \A d \in inSlot'[t] :
            \/ d \in inSlot[t]
            \/ d \in metadata /\ closePc = "open" => nodeOf[d] \in Nodes /\ d \in inNode[nodeOf[d]]
          BY <2>1, <1>0, <3>0 DEF Call
    <3> QED BY <3>0, <3>1, <3>2, QuietRegistered
  <2>2. CASE FastMiss(k)
    <3>0. inNode' = inNode /\ inSlot' = inSlot
          BY <2>2, SameLists DEF FastMiss
    <3>1. /\ UNCHANGED <<nodeOf, metadata>> /\ (closePc' = "open" => closePc = "open")
          /\ \A d \in Conns : connState'[d] = "active" => connState[d] = "active"
          /\ \A j \in Callers : pc[j] = "list" => pc'[j] = "list" /\ conn'[j] = conn[j]
          BY <2>2 DEF FastMiss
    <3>2. \A t \in Slots : \A d \in inSlot'[t] :
            \/ d \in inSlot[t]
            \/ d \in metadata /\ closePc = "open" => nodeOf[d] \in Nodes /\ d \in inNode[nodeOf[d]]
          BY <2>2, <1>0, <3>0 DEF FastMiss
    <3> QED BY <3>0, <3>1, <3>2, QuietRegistered
  <2>3. ASSUME NEW c \in Conns, FastHit(k, c) PROVE Registered'
    <3>0. inNode' = inNode /\ inSlot' = inSlot
          BY <2>3, SameLists DEF FastHit
    <3>1. /\ UNCHANGED <<nodeOf, metadata>> /\ (closePc' = "open" => closePc = "open")
          /\ \A d \in Conns : connState'[d] = "active" => connState[d] = "active"
          /\ \A j \in Callers : pc[j] = "list" => pc'[j] = "list" /\ conn'[j] = conn[j]
          BY <2>3 DEF FastHit
    <3>2. \A t \in Slots : \A d \in inSlot'[t] :
            \/ d \in inSlot[t]
            \/ d \in metadata /\ closePc = "open" => nodeOf[d] \in Nodes /\ d \in inNode[nodeOf[d]]
          BY <2>3, <1>0, <3>0 DEF FastHit
    <3> QED BY <3>0, <3>1, <3>2, QuietRegistered
  <2>4. CASE ReadView(k)
    <3>0. inNode' = inNode /\ inSlot' = inSlot
          BY <2>4, SameLists DEF ReadView
    <3>1. /\ UNCHANGED <<nodeOf, metadata>> /\ (closePc' = "open" => closePc = "open")
          /\ \A d \in Conns : connState'[d] = "active" => connState[d] = "active"
          /\ \A j \in Callers : pc[j] = "list" => pc'[j] = "list" /\ conn'[j] = conn[j]
          BY <2>4 DEF ReadView
    <3>2. \A t \in Slots : \A d \in inSlot'[t] :
            \/ d \in inSlot[t]
            \/ d \in metadata /\ closePc = "open" => nodeOf[d] \in Nodes /\ d \in inNode[nodeOf[d]]
          BY <2>4, <1>0, <3>0 DEF ReadView
    <3> QED BY <3>0, <3>1, <3>2, QuietRegistered
  <2>5. CASE AskCluster(k)
    <3>0. inNode' = inNode /\ inSlot' = inSlot
          BY <2>5, SameLists DEF AskCluster
    <3>1. /\ UNCHANGED <<nodeOf, metadata>> /\ (closePc' = "open" => closePc = "open")
          /\ \A d \in Conns : connState'[d] = "active" => connState[d] = "active"
          /\ \A j \in Callers : pc[j] = "list" => pc'[j] = "list" /\ conn'[j] = conn[j]
          BY <2>5 DEF AskCluster
    <3>2. \A t \in Slots : \A d \in inSlot'[t] :
            \/ d \in inSlot[t]
            \/ d \in metadata /\ closePc = "open" => nodeOf[d] \in Nodes /\ d \in inNode[nodeOf[d]]
          BY <2>5, <1>0, <3>0 DEF AskCluster
    <3> QED BY <3>0, <3>1, <3>2, QuietRegistered
  <2>6. CASE ReuseMiss(k)
    <3>0. inNode' = inNode /\ inSlot' = inSlot
          BY <2>6, SameLists DEF ReuseMiss
    <3>1. /\ UNCHANGED <<nodeOf, metadata>> /\ (closePc' = "open" => closePc = "open")
          /\ \A d \in Conns : connState'[d] = "active" => connState[d] = "active"
          /\ \A j \in Callers : pc[j] = "list" => pc'[j] = "list" /\ conn'[j] = conn[j]
          BY <2>6 DEF ReuseMiss
    <3>2. \A t \in Slots : \A d \in inSlot'[t] :
            \/ d \in inSlot[t]
            \/ d \in metadata /\ closePc = "open" => nodeOf[d] \in Nodes /\ d \in inNode[nodeOf[d]]
          BY <2>6, <1>0, <3>0 DEF ReuseMiss
    <3> QED BY <3>0, <3>1, <3>2, QuietRegistered
  <2>7. ASSUME NEW c \in Conns, ReuseHit(k, c) PROVE Registered'
    <3>0. inSlot' = [inSlot EXCEPT ![slot[k]] = @ \cup {c}] /\ inNode' = inNode
      <4>1. slot[k] \in Slots /\ c \in Conns /\ AddHashslot(slot[k], c)
            /\ nodePubSubs' = nodePubSubs
            BY <2>7 DEF ReuseHit
      <4> QED BY <4>1, AddsToSlot, SameLists
    <3>1. /\ UNCHANGED <<nodeOf, metadata>> /\ (closePc' = "open" => closePc = "open")
          /\ \A d \in Conns : connState'[d] = "active" => connState[d] = "active"
          /\ \A j \in Callers : pc[j] = "list" => pc'[j] = "list" /\ conn'[j] = conn[j]
          BY <2>7 DEF ReuseHit
    <3>2. \A t \in Slots : \A d \in inSlot'[t] :
            \/ d \in inSlot[t]
            \/ d \in metadata /\ closePc = "open" => nodeOf[d] \in Nodes /\ d \in inNode[nodeOf[d]]
          BY <2>7, <1>0, <3>0 DEF ReuseHit, Registered
    <3> QED BY <3>0, <3>1, <3>2, QuietRegistered
  <2>8. ASSUME NEW c \in Conns, SelectHit(k, c) PROVE Registered'
    <3>0. inSlot' = [inSlot EXCEPT ![slot[k]] = @ \cup {c}] /\ inNode' = inNode
      <4>1. slot[k] \in Slots /\ c \in Conns /\ AddHashslot(slot[k], c)
            /\ nodePubSubs' = nodePubSubs
            BY <2>8 DEF SelectHit
      <4> QED BY <4>1, AddsToSlot, SameLists
    <3>1. /\ UNCHANGED <<nodeOf, metadata>> /\ (closePc' = "open" => closePc = "open")
          /\ \A d \in Conns : connState'[d] = "active" => connState[d] = "active"
          /\ \A j \in Callers : pc[j] = "list" => pc'[j] = "list" /\ conn'[j] = conn[j]
          BY <2>8 DEF SelectHit
    <3>2. \A t \in Slots : \A d \in inSlot'[t] :
            \/ d \in inSlot[t]
            \/ d \in metadata /\ closePc = "open" => nodeOf[d] \in Nodes /\ d \in inNode[nodeOf[d]]
          BY <2>8, <1>0, <3>0 DEF SelectHit, Registered
    <3> QED BY <3>0, <3>1, <3>2, QuietRegistered
  <2>9. ASSUME NEW n \in Nodes, SelectWaits(k, n) PROVE Registered'
    <3>0. inNode' = inNode /\ inSlot' = inSlot
          BY <2>9, SameLists DEF SelectWaits
    <3>1. /\ UNCHANGED <<nodeOf, metadata>> /\ (closePc' = "open" => closePc = "open")
          /\ \A d \in Conns : connState'[d] = "active" => connState[d] = "active"
          /\ \A j \in Callers : pc[j] = "list" => pc'[j] = "list" /\ conn'[j] = conn[j]
          BY <2>9 DEF SelectWaits
    <3>2. \A t \in Slots : \A d \in inSlot'[t] :
            \/ d \in inSlot[t]
            \/ d \in metadata /\ closePc = "open" => nodeOf[d] \in Nodes /\ d \in inNode[nodeOf[d]]
          BY <2>9, <1>0, <3>0 DEF SelectWaits
    <3> QED BY <3>0, <3>1, <3>2, QuietRegistered
  <2>10. ASSUME NEW n \in Nodes, NEW c \in Conns, SelectAnnounces(k, n, c) PROVE Registered'
    <3>0. inNode' = inNode /\ inSlot' = inSlot
          BY <2>10, SameLists DEF SelectAnnounces
    <3>1. /\ UNCHANGED <<nodeOf, metadata>> /\ (closePc' = "open" => closePc = "open")
          /\ \A d \in Conns : connState'[d] = "active" => connState[d] = "active"
          /\ \A j \in Callers : pc[j] = "list" => pc'[j] = "list" /\ conn'[j] = conn[j]
          BY <2>10 DEF SelectAnnounces
    <3>2. \A t \in Slots : \A d \in inSlot'[t] :
            \/ d \in inSlot[t]
            \/ d \in metadata /\ closePc = "open" => nodeOf[d] \in Nodes /\ d \in inNode[nodeOf[d]]
          BY <2>10, <1>0, <3>0 DEF SelectAnnounces
    <3> QED BY <3>0, <3>1, <3>2, QuietRegistered
  <2>11. ASSUME NEW c \in Conns, Dials(k, c) PROVE Registered'
    <3>0. inNode' = inNode /\ inSlot' = inSlot /\ closePc' = closePc
          BY <2>11, SameLists DEF Dials
    <3>5. ~Born(c)
          BY <2>11 DEF Dials, Making, Born
    
    <3>1. \A n \in Nodes : \A d \in inNode'[n] : nodeOf'[d] = n
          BY <2>11, <1>0, <3>0, <3>5 DEF Dials, Registered, Unborn
    <3>2. ASSUME closePc' = "open", NEW d \in Conns, connState'[d] = "active"
          PROVE  d \in metadata'
          BY <2>11, <3>0, <3>2 DEF Dials, Registered
    <3>3. ASSUME closePc' = "open", NEW d \in metadata'
          PROVE  \/ nodeOf'[d] \in Nodes /\ d \in inNode'[nodeOf'[d]]
                 \/ \E i \in Callers : pc'[i] = "list" /\ conn'[i] = d
      <4>1. CASE d = c
        <5>1. pc'[k] = "list" /\ conn'[k] = d
              BY <2>11, <4>1 DEF Dials
        <5> QED BY <5>1
      <4>2. CASE d # c
        <5>0. d \in metadata /\ nodeOf'[d] = nodeOf[d]
              BY <2>11, <4>2, <3>3 DEF Dials
        <5>1. CASE nodeOf[d] \in Nodes /\ d \in inNode[nodeOf[d]]
              BY <3>0, <5>0, <5>1
        <5>2. ASSUME NEW i \in Callers, pc[i] = "list", conn[i] = d
              PROVE  pc'[i] = "list" /\ conn'[i] = d
              BY <2>11, <5>2 DEF Dials
        <5> QED BY <3>0, <3>3, <5>0, <5>1, <5>2 DEF Registered
      <4> QED BY <4>1, <4>2
    <3>4. ASSUME closePc' = "open", NEW t \in Slots, NEW d \in inSlot'[t] \cap metadata'
          PROVE  nodeOf'[d] \in Nodes /\ d \in inNode'[nodeOf'[d]]
      <4>1. d # c
          BY <1>0, <3>0, <3>4, <3>5 DEF Unborn
      <4> QED BY <2>11, <3>0, <3>4, <4>1 DEF Dials, Registered
    <3> QED BY <3>1, <3>2, <3>3, <3>4 DEF Registered
  <2>12. CASE List(k)
    <3>0. /\ inNode' = [inNode EXCEPT ![node[k]] = @ \cup {conn[k]}]
          /\ inSlot' = [inSlot EXCEPT ![slot[k]] = @ \cup {conn[k]}]
          BY <2>12, ListEffect
    <3>5. /\ node[k] \in Nodes /\ conn[k] \in Conns /\ nodeOf[conn[k]] = node[k] /\ slot[k] \in Slots
          /\ UNCHANGED <<metadata, connState, nodeOf, conn, closePc>>
          BY <2>12 DEF List, Making
    
    <3>1. \A n \in Nodes : \A d \in inNode'[n] : nodeOf'[d] = n
          BY <1>0, <3>0, <3>5 DEF Registered
    <3>2. ASSUME closePc' = "open", NEW d \in Conns, connState'[d] = "active"
          PROVE  d \in metadata'
          BY <3>2, <3>5 DEF Registered
    <3>3. ASSUME closePc' = "open", NEW d \in metadata'
          PROVE  \/ nodeOf'[d] \in Nodes /\ d \in inNode'[nodeOf'[d]]
                 \/ \E i \in Callers : pc'[i] = "list" /\ conn'[i] = d
      <4>1. CASE d = conn[k]
          BY <1>0, <3>0, <3>5, <4>1
      <4>2. CASE d # conn[k]
        <5>1. CASE nodeOf[d] \in Nodes /\ d \in inNode[nodeOf[d]]
              BY <1>0, <3>0, <3>5, <5>1
        <5>2. ASSUME NEW i \in Callers, pc[i] = "list", conn[i] = d
              PROVE  pc'[i] = "list" /\ conn'[i] = d
              BY <2>12, <3>5, <4>2, <5>2 DEF List
        <5> QED BY <3>3, <3>5, <5>1, <5>2 DEF Registered
      <4> QED BY <4>1, <4>2
    <3>4. ASSUME closePc' = "open", NEW t \in Slots, NEW d \in inSlot'[t] \cap metadata'
          PROVE  nodeOf'[d] \in Nodes /\ d \in inNode'[nodeOf'[d]]
      <4>1. CASE d = conn[k]
          BY <1>0, <3>0, <3>5, <4>1
      <4>2. CASE d # conn[k]
        <5>1. nodeOf[d] \in Nodes /\ d \in inNode[nodeOf[d]]
              BY <1>0, <3>0, <3>4, <3>5, <4>2 DEF Registered
        <5> QED BY <1>0, <3>0, <3>5, <5>1
      <4> QED BY <4>1, <4>2
    <3> QED BY <3>1, <3>2, <3>3, <3>4 DEF Registered
  <2>13. CASE Resolve(k)
    <3>0. inNode' = inNode /\ inSlot' = inSlot
          BY <2>13, SameLists DEF Resolve
    <3>1. /\ UNCHANGED <<nodeOf, metadata>> /\ (closePc' = "open" => closePc = "open")
          /\ \A d \in Conns : connState'[d] = "active" => connState[d] = "active"
          /\ \A j \in Callers : pc[j] = "list" => pc'[j] = "list" /\ conn'[j] = conn[j]
          BY <2>13 DEF Resolve
    <3>2. \A t \in Slots : \A d \in inSlot'[t] :
            \/ d \in inSlot[t]
            \/ d \in metadata /\ closePc = "open" => nodeOf[d] \in Nodes /\ d \in inNode[nodeOf[d]]
          BY <2>13, <1>0, <3>0 DEF Resolve
    <3> QED BY <3>0, <3>1, <3>2, QuietRegistered
  <2>14. CASE Wait(k)
    <3>0. inNode' = inNode /\ inSlot' = inSlot
          BY <2>14, SameLists DEF Wait
    <3>1. /\ UNCHANGED <<nodeOf, metadata>> /\ (closePc' = "open" => closePc = "open")
          /\ \A d \in Conns : connState'[d] = "active" => connState[d] = "active"
          /\ \A j \in Callers : pc[j] = "list" => pc'[j] = "list" /\ conn'[j] = conn[j]
          BY <2>14 DEF Wait
    <3>2. \A t \in Slots : \A d \in inSlot'[t] :
            \/ d \in inSlot[t]
            \/ d \in metadata /\ closePc = "open" => nodeOf[d] \in Nodes /\ d \in inNode[nodeOf[d]]
          BY <2>14, <1>0, <3>0 DEF Wait
    <3> QED BY <3>0, <3>1, <3>2, QuietRegistered
  <2>15. CASE Adopt(k)
    <3>0. inSlot' = [inSlot EXCEPT ![slot[k]] = @ \cup {conn[k]}] /\ inNode' = inNode
      <4>1. slot[k] \in Slots /\ conn[k] \in Conns /\ AddHashslot(slot[k], conn[k])
            /\ nodePubSubs' = nodePubSubs
            BY <2>15 DEF Adopt
      <4> QED BY <4>1, AddsToSlot, SameLists
    <3>1. /\ UNCHANGED <<nodeOf, metadata>> /\ (closePc' = "open" => closePc = "open")
          /\ \A d \in Conns : connState'[d] = "active" => connState[d] = "active"
          /\ \A j \in Callers : pc[j] = "list" => pc'[j] = "list" /\ conn'[j] = conn[j]
          BY <2>15 DEF Adopt
    <3>2. \A t \in Slots : \A d \in inSlot'[t] :
            \/ d \in inSlot[t]
            \/ d \in metadata /\ closePc = "open" => nodeOf[d] \in Nodes /\ d \in inNode[nodeOf[d]]
          BY <2>15, <1>0, <3>0 DEF Adopt, Registered, Making
    <3> QED BY <3>0, <3>1, <3>2, QuietRegistered
  <2>16. CASE GiveUp(k)
    <3>0. inNode' = inNode /\ inSlot' = inSlot
          BY <2>16, SameLists DEF GiveUp
    <3>1. /\ UNCHANGED <<nodeOf, metadata>> /\ (closePc' = "open" => closePc = "open")
          /\ \A d \in Conns : connState'[d] = "active" => connState[d] = "active"
          /\ \A j \in Callers : pc[j] = "list" => pc'[j] = "list" /\ conn'[j] = conn[j]
          BY <2>16 DEF GiveUp
    <3>2. \A t \in Slots : \A d \in inSlot'[t] :
            \/ d \in inSlot[t]
            \/ d \in metadata /\ closePc = "open" => nodeOf[d] \in Nodes /\ d \in inNode[nodeOf[d]]
          BY <2>16, <1>0, <3>0 DEF GiveUp
    <3> QED BY <3>0, <3>1, <3>2, QuietRegistered
  <2>17. CASE Release(k)
    <3>0. inNode' = inNode /\ inSlot' = inSlot
          BY <2>17, SameLists DEF Release
    <3>1. /\ UNCHANGED <<nodeOf, metadata>> /\ (closePc' = "open" => closePc = "open")
          /\ \A d \in Conns : connState'[d] = "active" => connState[d] = "active"
          /\ \A j \in Callers : pc[j] = "list" => pc'[j] = "list" /\ conn'[j] = conn[j]
          BY <2>17 DEF Release
    <3>2. \A t \in Slots : \A d \in inSlot'[t] :
            \/ d \in inSlot[t]
            \/ d \in metadata /\ closePc = "open" => nodeOf[d] \in Nodes /\ d \in inNode[nodeOf[d]]
          BY <2>17, <1>0, <3>0 DEF Release
    <3> QED BY <3>0, <3>1, <3>2, QuietRegistered
  <2> QED BY <1>1, CallCases, <2>1, <2>2, <2>3, <2>4, <2>5, <2>6, <2>7, <2>8, <2>9, <2>10, <2>11,
             <2>12, <2>13, <2>14, <2>15, <2>16, <2>17
<1>2. ASSUME NEW c \in Conns, Fail(c) PROVE Registered'
  <2>0. inNode' = inNode /\ inSlot' = inSlot
        BY <1>2, SameLists DEF Fail
  <2>1. /\ UNCHANGED <<nodeOf, metadata>> /\ (closePc' = "open" => closePc = "open")
        /\ \A d \in Conns : connState'[d] = "active" => connState[d] = "active"
        /\ \A j \in Callers : pc[j] = "list" => pc'[j] = "list" /\ conn'[j] = conn[j]
        BY <1>2 DEF Fail
  <2>2. \A t \in Slots : \A d \in inSlot'[t] :
          \/ d \in inSlot[t]
          \/ d \in metadata /\ closePc = "open" => nodeOf[d] \in Nodes /\ d \in inNode[nodeOf[d]]
        BY <1>2, <1>0, <2>0 DEF Fail
  <2> QED BY <2>0, <2>1, <2>2, QuietRegistered
<1>3. ASSUME NEW c \in Conns, Retire(c) PROVE Registered'
  <2>0. /\ \A n \in Nodes : inNode'[n] \subseteq inNode[n] /\ inNode[n] \ {c} \subseteq inNode'[n]
        /\ \A s \in Slots : inSlot'[s] \subseteq inSlot[s]
        /\ metadata' = metadata \ {c}
        BY <1>3, RetireEffect
  <2>5. UNCHANGED <<nodeOf, pc, conn, closePc>>
        BY <1>3 DEF Retire
  
  <2>1. \A n \in Nodes : \A d \in inNode'[n] : nodeOf'[d] = n
        BY <2>0, <2>5 DEF Registered
  <2>2. ASSUME closePc' = "open", NEW d \in Conns, connState'[d] = "active" PROVE d \in metadata'
        BY <1>3, <2>0, <2>2, <2>5 DEF Retire, Registered
  <2>3. ASSUME closePc' = "open", NEW d \in metadata'
        PROVE  \/ nodeOf'[d] \in Nodes /\ d \in inNode'[nodeOf'[d]]
               \/ \E i \in Callers : pc'[i] = "list" /\ conn'[i] = d
        BY <2>0, <2>3, <2>5 DEF Registered
  <2>4. ASSUME closePc' = "open", NEW t \in Slots, NEW d \in inSlot'[t] \cap metadata'
        PROVE  nodeOf'[d] \in Nodes /\ d \in inNode'[nodeOf'[d]]
        BY <2>0, <2>4, <2>5 DEF Registered
  <2> QED BY <2>1, <2>2, <2>3, <2>4 DEF Registered
<1>4. ASSUME NEW s \in Slots, Invalidate(s) PROVE Registered'
  <2>0. inSlot' = [inSlot EXCEPT ![s] = {}] /\ inNode' = inNode
    <3>1. nodePubSubs' = nodePubSubs
          BY <1>4 DEF Invalidate
    <3> QED BY <1>4, <3>1, EmptyLists, SameLists
  <2>1. /\ UNCHANGED <<nodeOf, metadata>> /\ (closePc' = "open" => closePc = "open")
        /\ \A d \in Conns : connState'[d] = "active" => connState[d] = "active"
        /\ \A j \in Callers : pc[j] = "list" => pc'[j] = "list" /\ conn'[j] = conn[j]
        BY <1>4 DEF Invalidate
  <2>2. \A t \in Slots : \A d \in inSlot'[t] :
          \/ d \in inSlot[t]
          \/ d \in metadata /\ closePc = "open" => nodeOf[d] \in Nodes /\ d \in inNode[nodeOf[d]]
        BY <1>4, <1>0, <2>0 DEF Invalidate
  <2> QED BY <2>0, <2>1, <2>2, QuietRegistered
<1>5. ASSUME NEW s \in Slots, NEW view \in Views, Move(s, view) PROVE Registered'
  <2>0. inNode' = inNode /\ inSlot' = inSlot
        BY <1>5, SameLists DEF Move
  <2>1. /\ UNCHANGED <<nodeOf, metadata>> /\ (closePc' = "open" => closePc = "open")
        /\ \A d \in Conns : connState'[d] = "active" => connState[d] = "active"
        /\ \A j \in Callers : pc[j] = "list" => pc'[j] = "list" /\ conn'[j] = conn[j]
        BY <1>5 DEF Move
  <2>2. \A t \in Slots : \A d \in inSlot'[t] :
          \/ d \in inSlot[t]
          \/ d \in metadata /\ closePc = "open" => nodeOf[d] \in Nodes /\ d \in inNode[nodeOf[d]]
        BY <1>5, <1>0, <2>0 DEF Move
  <2> QED BY <2>0, <2>1, <2>2, QuietRegistered
<1>6. CASE CloseTakes
  <2>1. inNode' = [n \in Nodes |-> {}] /\ closePc' # "open"
        BY <1>6, EmptyLists DEF CloseTakes
  <2> QED BY <2>1 DEF Registered
<1>7. CASE CloseNext
  <2>0. inNode' = inNode /\ inSlot' = inSlot
        BY <1>7, SameLists DEF CloseNext
  <2>1. /\ UNCHANGED <<nodeOf, metadata>> /\ (closePc' = "open" => closePc = "open")
        /\ \A d \in Conns : connState'[d] = "active" => connState[d] = "active"
        /\ \A j \in Callers : pc[j] = "list" => pc'[j] = "list" /\ conn'[j] = conn[j]
        BY <1>7 DEF CloseNext
  <2>2. \A t \in Slots : \A d \in inSlot'[t] :
          \/ d \in inSlot[t]
          \/ d \in metadata /\ closePc = "open" => nodeOf[d] \in Nodes /\ d \in inNode[nodeOf[d]]
        BY <1>7, <1>0, <2>0 DEF CloseNext
  <2> QED BY <2>0, <2>1, <2>2, QuietRegistered
<1>8. CASE CloseReturns
  <2>0. inNode' = inNode /\ inSlot' = inSlot
        BY <1>8, SameLists DEF CloseReturns
  <2>1. /\ UNCHANGED <<nodeOf, metadata>> /\ (closePc' = "open" => closePc = "open")
        /\ \A d \in Conns : connState'[d] = "active" => connState[d] = "active"
        /\ \A j \in Callers : pc[j] = "list" => pc'[j] = "list" /\ conn'[j] = conn[j]
        BY <1>8 DEF CloseReturns
  <2>2. \A t \in Slots : \A d \in inSlot'[t] :
          \/ d \in inSlot[t]
          \/ d \in metadata /\ closePc = "open" => nodeOf[d] \in Nodes /\ d \in inNode[nodeOf[d]]
        BY <1>8, <1>0, <2>0 DEF CloseReturns
  <2> QED BY <2>0, <2>1, <2>2, QuietRegistered
<1>9. CASE UNCHANGED vars
  <2>0. inNode' = inNode /\ inSlot' = inSlot
        BY <1>9, SameLists DEF vars
  <2>1. /\ UNCHANGED <<nodeOf, metadata>> /\ (closePc' = "open" => closePc = "open")
        /\ \A d \in Conns : connState'[d] = "active" => connState[d] = "active"
        /\ \A j \in Callers : pc[j] = "list" => pc'[j] = "list" /\ conn'[j] = conn[j]
        BY <1>9 DEF vars
  <2>2. \A t \in Slots : \A d \in inSlot'[t] :
          \/ d \in inSlot[t]
          \/ d \in metadata /\ closePc = "open" => nodeOf[d] \in Nodes /\ d \in inNode[nodeOf[d]]
        BY <1>9, <1>0, <2>0 DEF vars
  <2> QED BY <2>0, <2>1, <2>2, QuietRegistered
<1> QED BY <1>1, <1>2, <1>3, <1>4, <1>5, <1>6, <1>7, <1>8, <1>9 DEF Next

\* A node gets no second shared connection: a caller announces one only if no usable
\* one is listed and none is on its way.
LEMMA SharedStep ==
  ASSUME TypeOK, Budget, Placed, Making, OneMaker, Unborn, Announced, Registered, Shared, OneSharedPerNode, [Next]_vars
  PROVE  (Shared /\ OneSharedPerNode)'
<1> USE ConnPoolAssumption DEF TypeOK, Placed, Shared, OneSharedPerNode, Go, Return, Forget,
        poolVars, connVars, topoVars, callVars, closeVars, ghostVars, restVars, envVars, vars
<1>1. ASSUME NEW k \in Callers, Call(k) \/ CallStep(k) \/ GiveUp(k) \/ Release(k)
      PROVE  (Shared /\ OneSharedPerNode)'
  <2>1. CASE Call(k)
        BY <2>1 DEF Call
  <2>2. CASE FastMiss(k)
        BY <2>2 DEF FastMiss
  <2>3. ASSUME NEW c \in Conns, FastHit(k, c) PROVE (Shared /\ OneSharedPerNode)'
        BY <2>3 DEF FastHit
  <2>4. CASE ReadView(k)
        BY <2>4 DEF ReadView
  <2>5. CASE AskCluster(k)
        BY <2>5 DEF AskCluster
  <2>6. CASE ReuseMiss(k)
        BY <2>6 DEF ReuseMiss
  <2>7. ASSUME NEW c \in Conns, ReuseHit(k, c) PROVE (Shared /\ OneSharedPerNode)'
        BY <2>7 DEF ReuseHit
  <2>8. ASSUME NEW c \in Conns, SelectHit(k, c) PROVE (Shared /\ OneSharedPerNode)'
        BY <2>8 DEF SelectHit
  <2>9. ASSUME NEW n \in Nodes, SelectWaits(k, n) PROVE (Shared /\ OneSharedPerNode)'
        BY <2>9 DEF SelectWaits
  <2>10. ASSUME NEW n \in Nodes, NEW c \in Conns, SelectAnnounces(k, n, c)
         PROVE  (Shared /\ OneSharedPerNode)'
    <3>0. /\ UNCHANGED <<nodeOf, closePc>> /\ connState[c] = "none" /\ pendingConns[n] = NoConn
          /\ pendingConns' = [pendingConns EXCEPT ![n] = c]
          /\ outcome' = [outcome EXCEPT ![c] = "open"]
          /\ connState' = [connState EXCEPT ![c] = "reserved"]
          /\ \A d \in inNode[n] : ~Usable(d)
          BY <2>10 DEF SelectAnnounces
    <3>1. ASSUME closePc = "open", NEW d \in Conns,
                 outcome[d] # "none", connState[d] = "active", nodeOf[d] = n
          PROVE  FALSE
      <4>1. d \in metadata
            BY <3>1 DEF Registered
      <4>2. d \notin inNode[nodeOf[d]]
            BY <3>0, <3>1, <4>1 DEF Usable
      <4>3. PICK j \in Callers : pc[j] = "list" /\ conn[j] = d
            BY <3>1, <4>1, <4>2 DEF Registered
      <4>4. outcome[d] = "open" /\ node[j] = n /\ conn[j] # NoConn
            BY <3>1, <4>3 DEF Making
      <4>5. pendingConns[n] = d
            BY <3>1, <4>3, <4>4 DEF Announced
      <4> QED BY <3>0, <4>5
    <3> QED BY <3>0, <3>1
  <2>11. ASSUME NEW c \in Conns, Dials(k, c) PROVE (Shared /\ OneSharedPerNode)'
    <3>0. /\ UNCHANGED <<pendingConns, outcome, closePc>> /\ node[k] \in Nodes
          /\ connState' = [connState EXCEPT ![c] = "active"]
          /\ nodeOf' = [nodeOf EXCEPT ![c] = node[k]]
          BY <2>11 DEF Dials
    <3>1. CASE conn[k] = NoConn
      <4>1. outcome[c] = "none"
            BY <2>11, <3>1 DEF Dials, Unborn
      <4> QED BY <3>0, <4>1
    <3>2. CASE conn[k] # NoConn
      <4>1. conn[k] = c /\ pc[k] = "dial" /\ outcome[c] = "open"
            BY <2>11, <3>2 DEF Dials, Making
      <4>2. closePc = "open" => pendingConns[node[k]] = c
            BY <4>1, <3>2 DEF Announced
      <4>3. closePc = "open" => \A d \in Conns :
              outcome[d] # "none" /\ connState[d] = "active" /\ nodeOf[d] = node[k] => d = c
            BY <3>0, <3>2, <4>1, <4>2
      <4> QED BY <3>0, <4>2, <4>3
    <3> QED BY <3>1, <3>2
  <2>12. CASE List(k)
    <3>1. UNCHANGED <<outcome, connState, nodeOf, closePc>>
          BY <2>12 DEF List
    <3>2. \A n \in Nodes : pendingConns'[n] # NoConn => pendingConns'[n] = pendingConns[n]
          BY <2>12 DEF List
    <3> QED BY <3>1, <3>2
  <2>13. CASE Resolve(k)
    <3>1. /\ UNCHANGED <<pendingConns, connState, nodeOf, closePc>> /\ outcome[conn[k]] # "none"
          /\ outcome' = [outcome EXCEPT ![conn[k]] = "resolved"] /\ conn[k] \in Conns
          BY <2>13 DEF Resolve, Making
    <3> QED BY <3>1
  <2>14. CASE Wait(k)
        BY <2>14 DEF Wait
  <2>15. CASE Adopt(k)
        BY <2>15 DEF Adopt
  <2>16. CASE GiveUp(k)
        BY <2>16 DEF GiveUp
  <2>17. CASE Release(k)
        BY <2>17 DEF Release
  <2> QED BY <1>1, CallCases, <2>1, <2>2, <2>3, <2>4, <2>5, <2>6, <2>7, <2>8, <2>9, <2>10, <2>11,
             <2>12, <2>13, <2>14, <2>15, <2>16, <2>17
<1>2. ASSUME NEW c \in Conns, Fail(c) PROVE (Shared /\ OneSharedPerNode)'
      BY <1>2 DEF Fail
<1>3. ASSUME NEW c \in Conns, Retire(c) PROVE (Shared /\ OneSharedPerNode)'
      BY <1>3 DEF Retire
<1>4. ASSUME NEW s \in Slots, Invalidate(s) PROVE (Shared /\ OneSharedPerNode)'
      BY <1>4 DEF Invalidate
<1>5. ASSUME NEW s \in Slots, NEW view \in Views, Move(s, view)
      PROVE  (Shared /\ OneSharedPerNode)'
      BY <1>5 DEF Move
<1>6. CASE CloseTakes
      BY <1>6 DEF CloseTakes
<1>7. CASE CloseNext
      BY <1>7 DEF CloseNext
<1>8. CASE CloseReturns
      BY <1>8 DEF CloseReturns
<1>9. CASE UNCHANGED vars
      BY <1>9 DEF vars
<1> QED BY <1>1, <1>2, <1>3, <1>4, <1>5, <1>6, <1>7, <1>8, <1>9 DEF Next

\* A call works for the master it has read, and caches nothing else.
LEMMA CurrentStep ==
  ASSUME TypeOK, Budget, Placed, Making, OneMaker, Unborn, Registered, Current, [Next]_vars
  PROVE  Current'
<1> USE ConnPoolAssumption DEF TypeOK, Placed, Current, Go, Return, Forget, poolVars, connVars,
        topoVars, callVars, closeVars, ghostVars, restVars, envVars, vars
<1>0. inNode \in [Nodes -> SUBSET Conns] /\ inSlot \in [Slots -> SUBSET Conns]
      BY ListTypes
<1>1. ASSUME NEW k \in Callers, Call(k) \/ CallStep(k) \/ GiveUp(k) \/ Release(k) PROVE Current'
  <2>1. CASE Call(k)
        BY <2>1, <1>0, SameLists DEF Call
  <2>2. CASE FastMiss(k)
        BY <2>2, <1>0, SameLists DEF FastMiss
  <2>3. ASSUME NEW c \in Conns, FastHit(k, c) PROVE Current'
        BY <2>3, <1>0, SameLists DEF FastHit
  <2>4. CASE ReadView(k)
    <3>1. CASE preference = "masters"
      <4>0. /\ topo[slot[k]] # <<>> /\ Selectable(topo[slot[k]]) = {topo[slot[k]][1]}
            /\ pc' = [pc EXCEPT ![k] = "reuse"]
            /\ UNCHANGED <<poolVars, connVars, slot, conn, calls, restVars>>
            BY <2>4, <3>1 DEF ReadView, Selectable
      <4>1. node' = [node EXCEPT ![k] = topo[slot[k]][1]]
            BY <2>4, <3>1, <4>0 DEF ReadView
      <4> QED BY <1>0, <4>0, <4>1, SameLists
    <3>2. CASE preference # "masters"
          BY <2>4, <3>2 DEF ReadView
    <3> QED BY <3>1, <3>2
  <2>5. CASE AskCluster(k)
    <3>0. /\ topo[slot[k]] = <<>> /\ UNCHANGED <<poolVars, connVars, slot, nodes, conn, calls, restVars>>
          /\ pc' = [pc EXCEPT ![k] = "idle"] \/ pc' = [pc EXCEPT ![k] = "reuse"]
          /\ \A j \in Callers \ {k} : node'[j] = node[j]
          BY <2>5 DEF AskCluster
    <3>1. inSlot' = inSlot
          BY <3>0, SameLists
    <3>2. CASE pc' = [pc EXCEPT ![k] = "idle"]
          BY <3>0, <3>1, <3>2
    <3>3. CASE pc' = [pc EXCEPT ![k] = "reuse"]
          BY <3>0, <3>1, <3>3
    <3> QED BY <3>0, <3>2, <3>3
  <2>6. CASE ReuseMiss(k)
        BY <2>6, <1>0, SameLists DEF ReuseMiss
  <2>7. ASSUME NEW c \in Conns, ReuseHit(k, c) PROVE Current'
    <3>1. inSlot' = [inSlot EXCEPT ![slot[k]] = @ \cup {c}] /\ inNode' = inNode
      <4>1. slot[k] \in Slots /\ c \in Conns /\ AddHashslot(slot[k], c)
            /\ nodePubSubs' = nodePubSubs
            BY <2>7 DEF ReuseHit
      <4> QED BY <4>1, AddsToSlot, SameLists
    <3> QED BY <2>7, <1>0, <3>1 DEF ReuseHit, Registered
  <2>8. ASSUME NEW c \in Conns, SelectHit(k, c) PROVE Current'
    <3>1. inSlot' = [inSlot EXCEPT ![slot[k]] = @ \cup {c}] /\ inNode' = inNode
      <4>1. slot[k] \in Slots /\ c \in Conns /\ AddHashslot(slot[k], c)
            /\ nodePubSubs' = nodePubSubs
            BY <2>8 DEF SelectHit
      <4> QED BY <4>1, AddsToSlot, SameLists
    <3> QED BY <2>8, <1>0, <3>1 DEF SelectHit
  <2>9. ASSUME NEW n \in Nodes, SelectWaits(k, n) PROVE Current'
        BY <2>9, <1>0, SameLists DEF SelectWaits
  <2>10. ASSUME NEW n \in Nodes, NEW c \in Conns, SelectAnnounces(k, n, c) PROVE Current'
        BY <2>10, <1>0, SameLists DEF SelectAnnounces
  <2>11. ASSUME NEW c \in Conns, Dials(k, c) PROVE Current'
    <3>1. ~Born(c)
          BY <2>11 DEF Dials, Making, Born
    <3>2. \A t \in Slots : c \notin inSlot[t]
          BY <3>1 DEF Unborn
    <3>3. inSlot' = inSlot
          BY <2>11, SameLists DEF Dials
    <3> QED BY <2>11, <1>0, <3>2, <3>3 DEF Dials
  <2>12. CASE List(k)
    <3>1. /\ inNode' = [inNode EXCEPT ![node[k]] = @ \cup {conn[k]}]
          /\ inSlot' = [inSlot EXCEPT ![slot[k]] = @ \cup {conn[k]}]
          BY <2>12, ListEffect
    <3> QED BY <2>12, <1>0, <3>1 DEF List, Making
  <2>13. CASE Resolve(k)
        BY <2>13, <1>0, SameLists DEF Resolve
  <2>14. CASE Wait(k)
        BY <2>14, <1>0, SameLists DEF Wait
  <2>15. CASE Adopt(k)
    <3>1. inSlot' = [inSlot EXCEPT ![slot[k]] = @ \cup {conn[k]}] /\ inNode' = inNode
      <4>1. slot[k] \in Slots /\ conn[k] \in Conns /\ AddHashslot(slot[k], conn[k])
            /\ nodePubSubs' = nodePubSubs
            BY <2>15 DEF Adopt
      <4> QED BY <4>1, AddsToSlot, SameLists
    <3> QED BY <2>15, <1>0, <3>1 DEF Adopt
  <2>16. CASE GiveUp(k)
        BY <2>16, <1>0, SameLists DEF GiveUp
  <2>17. CASE Release(k)
        BY <2>17, <1>0, SameLists DEF Release
  <2> QED BY <1>1, CallCases, <2>1, <2>2, <2>3, <2>4, <2>5, <2>6, <2>7, <2>8, <2>9, <2>10, <2>11,
             <2>12, <2>13, <2>14, <2>15, <2>16, <2>17
<1>2. ASSUME NEW c \in Conns, Fail(c) PROVE Current'
      BY <1>2, <1>0, SameLists DEF Fail
<1>3. ASSUME NEW c \in Conns, Retire(c) PROVE Current'
  <2>1. /\ \A n \in Nodes : inNode'[n] \subseteq inNode[n] /\ inNode[n] \ {c} \subseteq inNode'[n]
        /\ \A s \in Slots : inSlot'[s] \subseteq inSlot[s]
        /\ metadata' = metadata \ {c}
        BY <1>3, RetireEffect
  <2> QED BY <1>3, <1>0, <2>1 DEF Retire
<1>4. ASSUME NEW s \in Slots, Invalidate(s) PROVE Current'
  <2>1. inSlot' = [inSlot EXCEPT ![s] = {}] /\ inNode' = inNode
    <3>1. nodePubSubs' = nodePubSubs
          BY <1>4 DEF Invalidate
    <3> QED BY <1>4, <3>1, EmptyLists, SameLists
  <2> QED BY <1>4, <1>0, <2>1 DEF Invalidate
<1>5. ASSUME NEW s \in Slots, NEW view \in Views, Move(s, view) PROVE Current'
  <2>0. inSlot' = inSlot
        BY <1>5, SameLists DEF Move
  <2>1. /\ UNCHANGED <<preference, connVars, callVars>> /\ raced \subseteq raced'
        /\ toInvalidate \subseteq toInvalidate' /\ topo' = [topo EXCEPT ![s] = view]
        BY <1>5 DEF Move
  <2>2. \A k \in Callers : Using(k, s) => s \in raced'
        BY <1>5 DEF Move
  <2>3. view # <<>> => (topo[s] # <<>> /\ view[1] = topo[s][1]) \/ s \in toInvalidate'
        BY <1>5 DEF Move
  <2>4. ASSUME NEW k \in Callers, preference = "masters", pc[k] \in {"reuse", "dial", "list"},
               slot[k] \notin raced', topo'[slot[k]] # <<>>
        PROVE  node[k] = topo'[slot[k]][1]
    <3>1. slot[k] # s
          BY <2>2, <2>4 DEF Using
    <3> QED BY <2>1, <2>4, <3>1
  <2>5. ASSUME NEW t \in Slots, preference = "masters", t \notin toInvalidate', t \notin raced',
               topo'[t] # <<>>, NEW c \in inSlot[t]
        PROVE  nodeOf[c] = topo'[t][1]
    <3>1. topo[t] # <<>> /\ topo'[t][1] = topo[t][1]
          BY <2>1, <2>3, <2>5
    <3> QED BY <2>1, <2>5, <3>1
  <2> QED BY <2>0, <2>1, <2>4, <2>5
<1>6. CASE CloseTakes
  <2>1. inNode' = [n \in Nodes |-> {}] /\ inSlot' = [s \in Slots |-> {}]
        BY <1>6, EmptyLists
  <2> QED BY <1>6, <1>0, <2>1 DEF CloseTakes
<1>7. CASE CloseNext
      BY <1>7, <1>0, SameLists DEF CloseNext
<1>8. CASE CloseReturns
      BY <1>8, <1>0, SameLists DEF CloseReturns
<1>9. CASE UNCHANGED vars
      BY <1>9, <1>0, SameLists DEF vars
<1> QED BY <1>1, <1>2, <1>3, <1>4, <1>5, <1>6, <1>7, <1>8, <1>9 DEF Next

\* closeAll takes what works, and nothing is made behind its back by an idle pool.
LEMMA ClosingStep ==
  ASSUME TypeOK, Budget, Placed, Making, Unborn, Registered, Closing, [Next]_vars
  PROVE  Closing'
<1> USE ConnPoolAssumption DEF TypeOK, Placed, Closing, Born, Go, Return, Forget, poolVars,
        connVars, topoVars, callVars, closeVars, ghostVars, restVars, envVars, vars
<1>1. ASSUME NEW k \in Callers, Call(k) \/ CallStep(k) \/ GiveUp(k) \/ Release(k) PROVE Closing'
  <2>1. CASE Call(k)
        BY <2>1 DEF Call
  <2>2. CASE FastMiss(k)
        BY <2>2 DEF FastMiss
  <2>3. ASSUME NEW c \in Conns, FastHit(k, c) PROVE Closing'
        BY <2>3 DEF FastHit
  <2>4. CASE ReadView(k)
        BY <2>4 DEF ReadView
  <2>5. CASE AskCluster(k)
        BY <2>5 DEF AskCluster
  <2>6. CASE ReuseMiss(k)
        BY <2>6 DEF ReuseMiss
  <2>7. ASSUME NEW c \in Conns, ReuseHit(k, c) PROVE Closing'
        BY <2>7 DEF ReuseHit
  <2>8. ASSUME NEW c \in Conns, SelectHit(k, c) PROVE Closing'
        BY <2>8 DEF SelectHit
  <2>9. ASSUME NEW n \in Nodes, SelectWaits(k, n) PROVE Closing'
        BY <2>9 DEF SelectWaits
  <2>10. ASSUME NEW n \in Nodes, NEW c \in Conns, SelectAnnounces(k, n, c) PROVE Closing'
        BY <2>10 DEF SelectAnnounces, Unborn
  <2>11. ASSUME NEW c \in Conns, Dials(k, c) PROVE Closing'
        BY <2>11 DEF Dials
  <2>12. CASE List(k)
        BY <2>12 DEF List
  <2>13. CASE Resolve(k)
        BY <2>13 DEF Resolve
  <2>14. CASE Wait(k)
        BY <2>14 DEF Wait
  <2>15. CASE Adopt(k)
        BY <2>15 DEF Adopt
  <2>16. CASE GiveUp(k)
        BY <2>16 DEF GiveUp
  <2>17. CASE Release(k)
        BY <2>17 DEF Release
  <2> QED BY <1>1, CallCases, <2>1, <2>2, <2>3, <2>4, <2>5, <2>6, <2>7, <2>8, <2>9, <2>10, <2>11,
             <2>12, <2>13, <2>14, <2>15, <2>16, <2>17
<1>2. ASSUME NEW c \in Conns, Fail(c) PROVE Closing'
      BY <1>2 DEF Fail
<1>3. ASSUME NEW c \in Conns, Retire(c) PROVE Closing'
      BY <1>3 DEF Retire
<1>4. ASSUME NEW s \in Slots, Invalidate(s) PROVE Closing'
      BY <1>4 DEF Invalidate
<1>5. ASSUME NEW s \in Slots, NEW view \in Views, Move(s, view) PROVE Closing'
      BY <1>5 DEF Move
<1>6. CASE CloseTakes
  <2>1. ASSUME ~busyAtClose', NEW k \in Callers PROVE pc'[k] \in {"idle", "held"}
        BY <1>6, <2>1 DEF CloseTakes
  <2>2. ASSUME ~busyAtClose', NEW c \in Conns, connState'[c] = "active" PROVE c \in closeList'
    <3>1. c \in metadata /\ closePc = "open"
          BY <1>6, <2>2 DEF CloseTakes, Registered
    <3>2. nodeOf[c] \in Nodes /\ c \in inNode[nodeOf[c]]
          BY <1>6, <2>1, <2>2, <3>1 DEF CloseTakes, Registered
    <3>3. c \in Taken
          BY <3>2 DEF Taken, inNode
    <3> QED BY <1>6, <3>1, <3>3 DEF CloseTakes
  <2>3. \A c \in closeList' : Born(c)'
        BY <1>6 DEF CloseTakes, Unborn, Born
  <2>4. closePc' = "closing"
        BY <1>6 DEF CloseTakes
  <2> QED BY <2>1, <2>2, <2>3, <2>4
<1>7. CASE CloseNext
      BY <1>7 DEF CloseNext
<1>8. CASE CloseReturns
      BY <1>8 DEF CloseReturns
<1>9. CASE UNCHANGED vars
      BY <1>9 DEF vars
<1> QED BY <1>1, <1>2, <1>3, <1>4, <1>5, <1>6, <1>7, <1>8, <1>9 DEF Next

-----------------------------------------------------------------------------
(* The theorems *)

\* At the start there are no connections and no calls.
LEMMA InitIInv == Init => IInv
<1> SUFFICES ASSUME Init PROVE IInv
    OBVIOUS
<1>1. TypeOK
  <2>1. nodePubSubs \in [Nodes -> Seq(Conns)] /\ hashslotPubSubs \in [Slots -> Seq(Conns)]
    <3>1. <<>> \in Seq(Conns)
          OBVIOUS
    <3> QED BY <3>1 DEF Init
  <2>2. nodes \in [Callers -> Views \cup {<<>>}] /\ topo \in [Slots -> Views]
        BY ConnPoolAssumption DEF Init
  <2>3. events \in 0..MaxEvents /\ calls \in 0..MaxCalls
        BY ConnPoolAssumption DEF Init
  <2> QED BY <2>1, <2>2, <2>3 DEF Init, TypeOK
<1>2. Range(<<>>) = {}
      BY DEF Range
<1>3. inNode = [n \in Nodes |-> {}] /\ inSlot = [s \in Slots |-> {}]
      BY <1>2 DEF Init, inNode, inSlot
<1>4. Budget
  <2>1. Used = {} /\ Spenders = {} /\ calls = 0
        BY DEF Init, Used, Spenders, Looking
  <2> QED BY <2>1, FS_EmptySet DEF Budget
<1>5. Placed /\ Making /\ OneMaker
      BY DEF Init, Placed, Looking, Making, OneMaker
<1>6. Unborn /\ Registered
      BY <1>3 DEF Init, Unborn, Born, Registered
<1>7. Announced /\ Shared /\ OneSharedPerNode
      BY DEF Init, Announced, Shared, OneSharedPerNode
<1>8. Current /\ Closing
      BY <1>3 DEF Init, Current, Closing, Born
<1> QED BY <1>1, <1>4, <1>5, <1>6, <1>7, <1>8 DEF IInv

\* Every step keeps the inductive invariant.
LEMMA NextIInv == IInv /\ [Next]_vars => IInv'
BY TypeStep, PlacedStep, BudgetStep, MakingStep, OneMakerStep, UnbornStep, AnnouncedStep,
   RegisteredStep, SharedStep, CurrentStep, ClosingStep DEF IInv

\* The pool keeps it in every reachable state.
LEMMA Invariance == Spec => []IInv
BY InitIInv, NextIInv, PTL DEF Spec

\* The registries of the pool agree with each other and with the calls in progress, for any
\* number of callers, hashslots, nodes and failures: an announced connection has exactly one
\* maker, a node has at most one shared connection that works, and what the cache of a
\* hashslot offers is in the list of its node (pool.go:436-634, 808-886).
THEOREM RegistriesTheorem == Spec => []RegistriesAgree
<1>1. ASSUME IInv PROVE RegistriesAgree
  <2> USE <1>1 DEF IInv
  <2>1. PendingHasMaker
    <3> SUFFICES ASSUME NEW n \in Nodes, pendingConns[n] # NoConn
                 PROVE  Cardinality({k \in Callers : /\ pc[k] \in {"dial", "list"}
                                                     /\ node[k] = n /\ conn[k] = pendingConns[n]}) = 1
        BY DEF PendingHasMaker
    <3> DEFINE makers == {k \in Callers : /\ pc[k] \in {"dial", "list"}
                                          /\ node[k] = n /\ conn[k] = pendingConns[n]}
    <3>1. PICK j \in Callers :
             pc[j] \in {"dial", "list"} /\ node[j] = n /\ conn[j] = pendingConns[n]
          BY DEF Announced
    <3>2. makers = {j}
          BY <3>1 DEF OneMaker
    <3> QED BY <3>2, FS_Singleton
  <2>2. CachedIsListed
    <3> SUFFICES ASSUME closePc = "open", NEW c \in Cached \cap metadata PROVE c \in Listed
        BY DEF CachedIsListed
    <3>1. PICK s \in Slots : c \in inSlot[s]
          BY DEF Cached, inSlot
    <3>2. nodeOf[c] \in Nodes /\ c \in inNode[nodeOf[c]]
          BY <3>1 DEF Registered
    <3> QED BY <3>2 DEF Listed, inNode
  <2> QED BY <2>1, <2>2 DEF RegistriesAgree
<1> QED BY <1>1, Invariance, PTL

\* With PreferMasters, once the monitor has handled a change of master, the cache of the
\* hashslot leads to the new one only, unless a call had read the old one by then
\* (pool.go:753-760, topology.go:550-552).
THEOREM FreshTheorem == Spec => []FreshUnlessRaced
<1>1. ASSUME IInv PROVE FreshUnlessRaced
  <2>1. \A s \in Slots : inSlot[s] = Range(hashslotPubSubs[s])
        BY DEF inSlot
  <2> QED BY <1>1, <2>1 DEF IInv, Current, FreshUnlessRaced
<1> QED BY <1>1, Invariance, PTL

\* When closeAll returns, no connection is left working, if no call was between its first
\* look at the pool and its return when closeAll took the pool (pool.go:848-886).
THEOREM CloseTheorem == Spec => []CloseClosesAll
<1>1. ASSUME IInv PROVE CloseClosesAll
      BY <1>1 DEF IInv, Closing, CloseClosesAll
<1> QED BY <1>1, Invariance, PTL

=============================================================================
