------------------------- MODULE MCTopologyMonitor -------------------------
(* Small instances of TopologyMonitor for TLC. *)
EXTENDS TopologyMonitor

CONSTANTS n1, n2, r1, k1, h1, h2, s1, s2

\* All subscriptions are of one of the hashslots.
AllOfOne == [s \in Subs |-> 0]
=============================================================================
