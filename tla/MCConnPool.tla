----------------------------- MODULE MCConnPool -----------------------------
(* Two shards' worth of node lists over two nodes: each may be master of the *)
(* hashslot with the other as its replica, or the hashslot be unknown.       *)
EXTENDS ConnPool

CONSTANTS n1, n2

Pair == {<<n1, n2>>, <<n2, n1>>}
FirstOrUnknown == {<<n1, n2>>, <<>>}
PairOrUnknown == Pair \cup {<<>>}
Modes == {"masters", "replicas", "balanced"}

=============================================================================
