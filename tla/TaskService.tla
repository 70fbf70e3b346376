----------------------------- MODULE TaskService -----------------------------
(***************************************************************************)
(* What a user of the worker pool may rely on, without queue, locks or     *)
(* workers: a task is either rejected, and then never runs, or accepted,   *)
(* and then runs exactly once; the pool shuts down only when no accepted   *)
(* task is left.  Module WorkerPool is shown to implement it.              *)
(***************************************************************************)
CONSTANT Tasks

VARIABLES status,    \* the life of each task
          down       \* Stop has returned to the goroutine that stopped the pool

svars == <<status, down>>

Init == /\ status = [t \in Tasks |-> "new"]
        /\ down = FALSE

Move(t, from, to) == /\ status[t] = from
                     /\ status' = [status EXCEPT ![t] = to]
                     /\ UNCHANGED down

Accept(t) == ~down /\ Move(t, "new", "accepted")
Reject(t) == Move(t, "new", "rejected")
Begin(t)  == ~down /\ Move(t, "accepted", "running")
Finish(t) == Move(t, "running", "done")

ShutDown  == /\ ~down
             /\ \A t \in Tasks : status[t] \notin {"accepted", "running"}
             /\ down' = TRUE
             /\ UNCHANGED status

Next == \/ \E t \in Tasks : Accept(t) \/ Reject(t) \/ Begin(t) \/ Finish(t)
        \/ ShutDown

Safety == Init /\ [][Next]_svars

\* An accepted task does not wait for ever, and a task that began ends.
Spec == Safety /\ \A t \in Tasks : WF_svars(Begin(t)) /\ WF_svars(Finish(t))
=============================================================================
