------------------------------ MODULE MCRingBuf ------------------------------
(* Two distinguishable callbacks, every limit up to the largest buffer, and *)
(* a growable ring that doubles twice from two slots.                       *)
EXTENDS RingBuf

AllLimits == 0..3

=============================================================================
