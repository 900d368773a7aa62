---------------------------- MODULE ExecutionRecord ----------------------------
(***************************************************************************)
(* What whoever reads the records of executions may rely on, with jobs,    *)
(* the register, the timer and the ways to resume an execution left out.   *)
(* Of each execution there is its record, whether it is being run, and     *)
(* whether anybody asked to resume it.  Only who runs an execution says    *)
(* what becomes of it, except that a resume with nothing left to run       *)
(* settles it, and that the start of the server settles what an earlier    *)
(* process was running.                                                    *)
(***************************************************************************)
CONSTANTS
    Executions,
    Outcomes

VARIABLES
    alive,   \* whether the server is there
    record,  \* "none", "running", "waiting", an outcome, "deleted" or "pruned"
    run,     \* executions that are being run
    asked    \* executions that a resume was asked for

vars == <<alive, record, run, asked>>

Gone == {"deleted", "pruned"}

\* What is not there cannot be written to.
Written(e, to) == [record EXCEPT ![e] = IF @ \in Gone THEN @ ELSE to]

Init ==
    /\ alive = TRUE
    /\ record = [e \in Executions |-> "none"]
    /\ run = {}
    /\ asked = {}

\* An execution is recorded, to be run later or at once.
Create(e) ==
    /\ alive
    /\ record[e] = "none"
    /\ record' = [record EXCEPT ![e] = "running"]
    /\ run' \in {run, run \cup {e}}
    /\ UNCHANGED <<alive, asked>>

\* One run at a time, and without a resume only while there is no outcome and
\* nothing to wait for.
Begin(e) ==
    /\ alive
    /\ e \notin run
    /\ record[e] \in {"running", "deleted"} \/ e \in asked
    /\ run' = run \cup {e}
    /\ UNCHANGED <<alive, record, asked>>

\* A run ends with an outcome, is suspended, or leaves no record of what it did.
End(e) ==
    /\ alive
    /\ e \in run
    /\ run' = run \ {e}
    /\ record' \in {Written(e, to) : to \in Outcomes \cup {"waiting"}} \cup {record}
    /\ UNCHANGED <<alive, asked>>

\* A resume is asked for what waits, or was read when it did.
Resume(e) ==
    /\ alive
    /\ record[e] \in {"waiting", "deleted"} \/ e \in asked
    /\ asked' = asked \cup {e}
    /\ record' \in {record, Written(e, "success")}
    /\ UNCHANGED <<alive, run>>

Delete(e) ==
    /\ alive
    /\ record[e] \in {"running", "waiting"} \cup Outcomes
    /\ record' = [record EXCEPT ![e] = "deleted"]
    /\ UNCHANGED <<alive, run, asked>>

Prune(S) ==
    /\ alive
    /\ \A e \in S : record[e] \in Outcomes
    /\ record' = [e \in Executions |-> IF e \in S THEN "pruned" ELSE record[e]]
    /\ UNCHANGED <<alive, run, asked>>

Die ==
    /\ alive
    /\ alive' = FALSE
    /\ run' = {}
    /\ UNCHANGED <<record, asked>>

Start ==
    /\ ~alive
    /\ alive' = TRUE
    /\ record' = [e \in Executions |-> IF record[e] = "running" THEN "error" ELSE record[e]]
    /\ UNCHANGED <<run, asked>>

Next ==
    \/ \E e \in Executions : Create(e) \/ Begin(e) \/ End(e) \/ Resume(e) \/ Delete(e)
    \/ \E S \in SUBSET Executions : Prune(S)
    \/ Die \/ Start

Spec == Init /\ [][Next]_vars
=============================================================================
