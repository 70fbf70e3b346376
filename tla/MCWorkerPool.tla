----------------------------- MODULE MCWorkerPool -----------------------------
(***************************************************************************)
(* WorkerPool with one or two tasks per submit method.                     *)
(***************************************************************************)
EXTENDS WorkerPool, TLC

CONSTANTS t1, t2, t3, t4

MCMethod == (t1 :> "Submit") @@ (t2 :> "Submit") @@ (t3 :> "TrySubmit")
              @@ (t4 :> "SubmitWithContext")
=============================================================================
