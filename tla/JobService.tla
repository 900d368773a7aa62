------------------------------ MODULE JobService ------------------------------
(***************************************************************************)
(* What an implementation of JobDistributor (distribution/distributor.go)  *)
(* and the workers on top of it promise about each job, queues, entries,   *)
(* workers and instances left out.  Undisturbed, a job that is accepted is *)
(* run once.  A disruption (a shutdown, a crash, a lost command) may have  *)
(* it abandoned or, if the implementation redelivers jobs, run again; but  *)
(* never again once it is completed or abandoned.  Jobs of which it breaks *)
(* these promises are exempt; each implementation says which they are.     *)
(***************************************************************************)
CONSTANTS
    Jobs,
    Redelivers   \* whether a job outlives the process that runs it

VARIABLES
    status,      \* of each job: "none" until it is accepted, and "exempt"
                 \* when nothing is promised of it any more
    disrupted    \* whether anything has gone wrong yet

Statuses == {"none", "accepted", "running", "suspended", "completed", "abandoned", "exempt"}

Init ==
    /\ status = [j \in Jobs |-> "none"]
    /\ disrupted = FALSE

Move(j, from, to) ==
    /\ status[j] = from
    /\ status' = [status EXCEPT ![j] = to]
    /\ UNCHANGED disrupted

Accept(j) == Move(j, "none", "accepted")
Start(j) == Move(j, "accepted", "running")
Complete(j) == Move(j, "running", "completed")

\* The workflow suspends its execution.  It is resumed as a job of its own.
Suspend(j) == Move(j, "running", "suspended")
Resume(j) == Move(j, "suspended", "exempt")

\* The job of an execution that was suspended has been delivered again.
StartAgain(j) == Redelivers /\ disrupted /\ Move(j, "suspended", "running")

\* What a disruption may do to a job, or not keep from happening to it.
Setback(from, to) ==
    \/ from = "accepted" /\ to \in {"running", "abandoned"}
    \/ Redelivers /\ from = "running" /\ to \in {"accepted", "suspended", "abandoned"}
    \/ to = "exempt"

Disrupt ==
    /\ disrupted' = TRUE
    /\ status' \in [Jobs -> Statuses]
    /\ \A j \in Jobs : status'[j] = status[j] \/ Setback(status[j], status'[j])

Next ==
    \/ \E j \in Jobs :
        Accept(j) \/ Start(j) \/ Complete(j) \/ Suspend(j) \/ Resume(j) \/ StartAgain(j)
    \/ Disrupt

Spec == Init /\ [][Next]_<<status, disrupted>>
=============================================================================
