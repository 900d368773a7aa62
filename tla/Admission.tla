------------------------------ MODULE Admission ------------------------------
(***************************************************************************)
(* What ActiveExecutions of internal/engine/active_executions.go promises  *)
(* to the code that runs workflows, queues and permits left out: a call    *)
(* that was let in is the only one running its execution, and never more   *)
(* run at once than the global limit and their workflow's limit allow.     *)
(***************************************************************************)
EXTENDS Integers, FiniteSets

CONSTANTS
    Calls,        \* calls of Add
    Executions,   \* execution identifiers
    WorkflowNames,
    NoJob         \* what a call runs while it is not let in

VARIABLES
    job,          \* the execution and the workflow each call runs, or NoJob
    globalLimit,  \* the global limit, none if not positive
    limits        \* the limit of each workflow, none if not positive

Running == {c \in Calls : job[c] # NoJob}

RunningOf(w) == {c \in Running : job[c].workflow = w}

Below(n, limit) == limit > 0 => n < limit

Init == job = [c \in Calls |-> NoJob]

Start(c, id, w) ==
    /\ job[c] = NoJob
    /\ \A d \in Running : job[d].id # id
    /\ Below(Cardinality(Running), globalLimit)
    /\ Below(Cardinality(RunningOf(w)), limits[w])
    /\ job' = [job EXCEPT ![c] = [id |-> id, workflow |-> w]]

End(c) ==
    /\ job[c] # NoJob
    /\ job' = [job EXCEPT ![c] = NoJob]

Next ==
    /\ \/ \E c \in Calls, id \in Executions, w \in WorkflowNames : Start(c, id, w)
       \/ \E c \in Calls : End(c)
    /\ UNCHANGED <<globalLimit, limits>>

Spec == Init /\ [][Next]_<<job, globalLimit, limits>>
=============================================================================
