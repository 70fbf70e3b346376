---------------------------- MODULE MCMigration ----------------------------
(* Small instances of Migration for TLC. *)
EXTENDS Migration

CONSTANTS s1, s2, s3, ch1, ch2, n1, n2, c1, c2, c3, h1, h2

\* There are two subscriptions, of one channel or of two.
StartsWithTwo == {{s1, s2}, {s1, s3}}
TwoChannelsOf == [s \in {s1, s2, s3} |-> IF s = s3 THEN ch2 ELSE ch1]
=============================================================================
