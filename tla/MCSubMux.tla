------------------------------ MODULE MCSubMux ------------------------------
(* Small instances of SubMux for TLC. *)
EXTENDS SubMux, TLC

CONSTANTS h1, h2, s1, s2, s3, ch1, ch2, c1, c2

\* One subscription each, on one channel.
TwoHandles   == {h1, h2}
TwoSubs      == {s1, s2}
TwoSubsOf    == (h1 :> <<s1>>) @@ (h2 :> <<s2>>)
TwoChannelOf == (s1 :> ch1) @@ (s2 :> ch1)
TwoTypeOf    == [s \in TwoSubs |-> "SUBSCRIBE"]

\* A handle with two channels and one that shares the second of them.
MixedSubs      == {s1, s2, s3}
MixedSubsOf    == (h1 :> <<s1, s2>>) @@ (h2 :> <<s3>>)
MixedChannelOf == (s1 :> ch1) @@ (s2 :> ch2) @@ (s3 :> ch2)
MixedTypeOf    == [s \in MixedSubs |-> "SUBSCRIBE"]
=============================================================================
