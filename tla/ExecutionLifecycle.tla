-------------------------- MODULE ExecutionLifecycle --------------------------
(***************************************************************************)
(* The life of an execution, from the row that records it to the run that  *)
(* settles it: the handlers that create, resume, delete and prune rows,    *)
(* executeWorkflowDirect between them, the executions it starts on the     *)
(* side (sub-workflows and error workflows), the timer that resumes what   *)
(* waits, and a process that may crash and start again.                    *)
(*                                                                         *)
(* Every statement of the execution store is one transaction on the single *)
(* connection of the database (sqlite/db.go:15), hence one step.  A job is *)
(* a dispatched request for a run of an execution; how it reaches a worker *)
(* is LocalDispatch, how it gets its permit is ActiveExecutions.  Of the   *)
(* latter two outcomes are left here: the run is registered, or refused.   *)
(* Stop only makes a run end, with any outcome, and a run may end with any *)
(* outcome at any time; a graceful shutdown leaves behind what a crash     *)
(* does.  Neither is a step of its own.                                    *)
(***************************************************************************)
EXTENDS Naturals, FiniteSets

CONSTANTS
    Ids,         \* executions that may be created
    Requested,   \* those that handlers create, the others being created by
                 \* runs, as sub-workflows and error workflows
    MaxJobs,     \* bound: how many jobs each execution has at a time
    Outcomes,    \* how runs end
    NoId,        \* no execution
    MaxMishaps   \* bound: how often something outside the code fails

ASSUME LifecycleAssumption ==
    /\ Requested \subseteq Ids
    /\ NoId \notin Ids
    /\ MaxJobs \in [Ids -> Nat \ {0}]
    /\ Outcomes \subseteq {"success", "error", "crashed"}
    /\ MaxMishaps \in Nat

VARIABLES
    up,         \* the process runs
    row,        \* execution_entity
    fresh,      \* rows whose handler has not dispatched a job yet
    job,        \* where the jobs of each execution are, see JobStates
    active,     \* executions in the register of ActiveExecutions
    handler,    \* the error workflow's execution that a failed run waits for
    subs,       \* executions that run as a sub-workflow of another run
    listed,     \* rows the timer has read and not come to yet, each with
                \* what it read
    resumed,    \* history: executions that a resume was asked for
    abandoned,  \* history: executions given up by this process, see below
    mishaps     \* history: failures from outside

runVars == <<job, active, handler, subs>>
history == <<resumed, abandoned, mishaps>>
vars == <<up, row, fresh, runVars, listed, history>>

Terminal == {"success", "error", "crashed"}  \* isTerminalExecutionStatus
Absent == {"unborn", "deleted", "pruned"}    \* there is no row

\* A job is with a worker or on its way ("queued"), has "passed" the guard of
\* executeWorkflowDirect, is "running" in the evaluator, has "failed" and not
\* yet launched an error workflow, is "handling" one, or is "leaving": all
\* that remains is the deferred Remove.
JobStates ==
    {"free", "queued", "passed", "running", "failed", "handling", "leaving"}

\* wait_till is null, later or due.  Of the data only one thing matters, and
\* only while the execution waits: whether the node it waits at is the last.
Row(status, finished, till, last) ==
    [status |-> status, finished |-> finished, till |-> till, last |-> last]

NoRow(why) == Row(why, FALSE, "null", FALSE)

Exists(e) == row[e].status \notin Absent
Waiting(e) == row[e].status = "waiting"
Due(e) == Waiting(e) /\ row[e].till = "due"
Settled(e) == row[e].status \in Terminal

Slots(e) == 1..MaxJobs[e]

Init ==
    /\ up = TRUE
    /\ row = [e \in Ids |-> NoRow("unborn")]
    /\ fresh = {}
    /\ job = [e \in Ids |-> [s \in Slots(e) |-> "free"]]
    /\ active = {}
    /\ handler = [e \in Ids |-> NoId]
    /\ subs = {}
    /\ listed = {}
    /\ resumed = {}
    /\ abandoned = {}
    /\ mishaps = 0

-----------------------------------------------------------------------------
\* The execution store.

\* Create inserts a row.
Created(e) == [row EXCEPT ![e] = Row("running", FALSE, "null", FALSE)]

\* Mutant of Finished: the row is written whether it exists or not.
FinishedAnyway(e, status) == [row EXCEPT ![e] = Row(status, TRUE, "null", FALSE)]

\* Finish, whose UPDATE finds nothing to change once the row is gone.
Finished(e, status) ==
    IF Exists(e)
    THEN [row EXCEPT ![e] = Row(status, TRUE, "null", FALSE)]
    ELSE row

\* Mutant of MarkedWaiting: finished keeps its value.
MarkedWaitingOnly(e, last) ==
    IF Exists(e)
    THEN [row EXCEPT ![e] = Row("waiting", row[e].finished, "later", last)]
    ELSE row

\* MarkWaiting, which changes a finished row back like any other.
MarkedWaiting(e, last) ==
    IF Exists(e)
    THEN [row EXCEPT ![e] = Row("waiting", FALSE, "later", last)]
    ELSE row

\* Mutant of CleanedOrphans: whatever does not wait is an orphan.
CleanedOrphansAll ==
    [e \in Ids |-> IF Exists(e) /\ row[e].till = "null"
                   THEN Row("error", TRUE, "null", FALSE)
                   ELSE row[e]]

\* CleanOrphanedExecutions.
CleanedOrphans ==
    [e \in Ids |-> IF /\ ~row[e].finished
                      /\ row[e].status = "running"
                      /\ row[e].till = "null"
                   THEN Row("error", TRUE, "null", FALSE)
                   ELSE row[e]]

-----------------------------------------------------------------------------
\* Handlers and the timer.

\* Something outside the code fails.
Mishap ==
    /\ mishaps < MaxMishaps
    /\ mishaps' = mishaps + 1

NoMishap == UNCHANGED mishaps

SetJob(e, s, state) == job' = [job EXCEPT ![e][s] = state]

\* A job is dispatched, to the first free slot: slots are all alike.
FirstFree(e) == CHOOSE s \in Slots(e) : job[e][s] = "free"
HasFree(e) == \E s \in Slots(e) : job[e][s] = "free"
Dispatch(e) == HasFree(e) /\ SetJob(e, FirstFree(e), "queued")

\* The execution is left with no one to settle it until the next restart.
Abandon(e) == abandoned' = abandoned \cup {e}

\* A manual run, a webhook, a form, a schedule, a poll or a retry creates the
\* row of a new execution.
Create(e) ==
    /\ up
    /\ e \in Requested
    /\ row[e].status = "unborn"
    /\ row' = Created(e)
    /\ fresh' = fresh \cup {e}
    /\ UNCHANGED <<up, runVars, listed, history>>

\* It then dispatches a job, unless it stops at an error on the way there or
\* the job is rejected.
DispatchNew(e) ==
    /\ e \in fresh
    /\ fresh' = fresh \ {e}
    /\ \/ Dispatch(e) /\ NoMishap /\ UNCHANGED abandoned
       \/ Mishap /\ Abandon(e) /\ UNCHANGED job
    /\ UNCHANGED <<up, row, active, handler, subs, listed, resumed>>

TimePasses(e) ==
    /\ Waiting(e) /\ row[e].till = "later"
    /\ row' = [row EXCEPT ![e].till = "due"]
    /\ UNCHANGED <<up, fresh, runVars, listed, history>>

\* Every thirty seconds the timer reads the rows that are due.  The limit of
\* fifty rows is left out.
TimerTick ==
    /\ up
    /\ listed = {}
    /\ listed' = {<<e, row[e].last>> : e \in {d \in Ids : Due(d)}}
    /\ listed' # {}
    /\ UNCHANGED <<up, row, fresh, runVars, history>>

\* resumeWaitingExecution of a row as it was read: with nothing left to run
\* the execution is finished on the spot, else a job is dispatched or
\* rejected.  RunSync may return before that job is over (it may find the
\* result of an earlier job of the execution), so the timer does not wait.
TimerResume(e, last) ==
    /\ up
    /\ <<e, last>> \in listed
    /\ listed' = listed \ {<<e, last>>}
    /\ resumed' = resumed \cup {e}
    /\ \/ last /\ row' = Finished(e, "success") /\ NoMishap /\ UNCHANGED job
       \/ ~last /\ Dispatch(e) /\ NoMishap /\ UNCHANGED row
       \/ ~last /\ ~HasFree(e) /\ NoMishap /\ UNCHANGED <<job, row>>
       \/ Mishap /\ UNCHANGED <<job, row>>
    /\ UNCHANGED <<up, fresh, active, handler, subs, abandoned>>

\* A webhook or form resumes an execution whose row it finds waiting with
\* something left to run.
WebhookResume(e) ==
    /\ up
    /\ Waiting(e)
    /\ ~row[e].last
    /\ Dispatch(e)
    /\ resumed' = resumed \cup {e}
    /\ UNCHANGED <<up, row, fresh, active, handler, subs, listed, abandoned,
                   mishaps>>

\* Delete removes whatever row there is.
Delete(e) ==
    /\ up
    /\ Exists(e)
    /\ row' = [row EXCEPT ![e] = NoRow("deleted")]
    /\ UNCHANGED <<up, fresh, runVars, listed, history>>

\* DeleteOlderThan removes finished rows that are old enough.
Prune(S) ==
    /\ up
    /\ S # {}
    /\ \A e \in S : Exists(e) /\ row[e].finished
    /\ row' = [e \in Ids |-> IF e \in S THEN NoRow("pruned") ELSE row[e]]
    /\ UNCHANGED <<up, fresh, runVars, listed, history>>

-----------------------------------------------------------------------------
\* executeWorkflowDirect.

\* The guard.  It lets a job pass when the row cannot be read, or is gone.
Guard(e, s) ==
    /\ job[e][s] = "queued"
    /\ \/ SetJob(e, s, IF Settled(e) THEN "free" ELSE "passed") /\ NoMishap
       \/ SetJob(e, s, "passed") /\ Mishap
    /\ UNCHANGED <<up, row, fresh, active, handler, subs, listed, resumed,
                   abandoned>>

\* Add gives up waiting for a permit, or is told that the queue is full.
Refuse(e, s) ==
    /\ job[e][s] = "passed"
    /\ SetJob(e, s, "free")
    /\ Mishap
    /\ Abandon(e)
    /\ UNCHANGED <<up, row, fresh, active, handler, subs, listed, resumed>>

\* Mutant of Register: a run is registered over another one.
RegisterOver(e, s) ==
    /\ job[e][s] = "passed"
    /\ SetJob(e, s, "running")
    /\ active' = active \cup {e}
    /\ UNCHANGED <<up, row, fresh, handler, subs, listed, history>>

\* Add returns nil, the evaluator starts.
Register(e, s) ==
    /\ job[e][s] = "passed"
    /\ e \notin active
    /\ SetJob(e, s, "running")
    /\ active' = active \cup {e}
    /\ UNCHANGED <<up, row, fresh, handler, subs, listed, history>>

\* Add finds that the execution runs already.
RejectDuplicate(e, s) ==
    /\ job[e][s] = "passed"
    /\ e \in active
    /\ SetJob(e, s, "free")
    /\ UNCHANGED <<up, row, fresh, active, handler, subs, listed, history>>

\* The evaluator suspends.
Suspend(e, s, last) ==
    /\ job[e][s] = "running"
    /\ row' = MarkedWaiting(e, last)
    /\ SetJob(e, s, "leaving")
    /\ UNCHANGED <<up, fresh, active, handler, subs, listed, history>>

\* The evaluator ends.  An error workflow is launched only if Finish found
\* the row.
End(e, s, status) ==
    /\ job[e][s] = "running"
    /\ row' = Finished(e, status)
    /\ SetJob(e, s, IF status # "success" /\ Exists(e) THEN "failed"
                    ELSE "leaving")
    /\ UNCHANGED <<up, fresh, active, handler, subs, listed, history>>

\* Neither MarkWaiting nor Finish succeeds within its fifteen seconds.
StoreFails(e, s) ==
    /\ job[e][s] = "running"
    /\ SetJob(e, s, "leaving")
    /\ Mishap
    /\ Abandon(e)
    /\ UNCHANGED <<up, row, fresh, active, handler, subs, listed, resumed>>

\* launchErrorWorkflow creates another execution and runs it to its end while
\* the failed one stays registered, without a job or an entry of its own.
LaunchErrorWorkflow(e, s, d) ==
    /\ job[e][s] = "failed"
    /\ row[d].status = "unborn"
    /\ row' = Created(d)
    /\ handler' = [handler EXCEPT ![e] = d]
    /\ SetJob(e, s, "handling")
    /\ UNCHANGED <<up, fresh, active, subs, listed, history>>

\* A suspension of an error workflow is an error as any other.
EndErrorWorkflow(e, s, status) ==
    /\ job[e][s] = "handling"
    /\ handler' = [handler EXCEPT ![e] = NoId]
    /\ SetJob(e, s, "leaving")
    /\ \/ row' = Finished(handler[e], status) /\ NoMishap /\ UNCHANGED abandoned
       \/ Mishap /\ Abandon(handler[e]) /\ UNCHANGED row
    /\ UNCHANGED <<up, fresh, active, subs, listed, resumed>>

\* Mutant of Leave: the deferred Remove is skipped.
LeaveRegistered(e, s) ==
    /\ job[e][s] \in {"failed", "leaving"}
    /\ SetJob(e, s, "free")
    /\ UNCHANGED <<up, row, fresh, active, handler, subs, listed, history>>

\* Remove.
Leave(e, s) ==
    /\ job[e][s] \in {"failed", "leaving"}
    /\ SetJob(e, s, "free")
    /\ active' = active \ {e}
    /\ UNCHANGED <<up, row, fresh, handler, subs, listed, history>>

-----------------------------------------------------------------------------
\* Sub-workflows: a node of a running execution creates another execution and
\* runs it itself or in a goroutine, past the register and its permits.

LaunchSubWorkflow(e, s, d) ==
    /\ job[e][s] = "running"
    /\ row[d].status = "unborn"
    /\ row' = Created(d)
    /\ subs' = subs \cup {d}
    /\ UNCHANGED <<up, fresh, job, active, handler, listed, history>>

\* It may end before or after the run that launched it.
EndSubWorkflow(d) ==
    /\ d \in subs
    /\ subs' = subs \ {d}
    /\ \/ /\ \/ \E last \in BOOLEAN : row' = MarkedWaiting(d, last)
             \/ \E status \in Outcomes \ {"crashed"} : row' = Finished(d, status)
          /\ NoMishap /\ UNCHANGED abandoned
       \/ Mishap /\ Abandon(d) /\ UNCHANGED row
    /\ UNCHANGED <<up, fresh, job, active, handler, listed, resumed>>

-----------------------------------------------------------------------------
\* The process dies with all it has in memory.
Crash ==
    /\ up
    /\ Mishap
    /\ up' = FALSE
    /\ fresh' = {}
    /\ job' = [e \in Ids |-> [s \in Slots(e) |-> "free"]]
    /\ active' = {}
    /\ handler' = [e \in Ids |-> NoId]
    /\ subs' = {}
    /\ listed' = {}
    /\ abandoned' = {}
    /\ UNCHANGED <<row, resumed>>

\* Mutant of Restart: orphans are left as they are.
RestartUncleaned ==
    /\ ~up
    /\ up' = TRUE
    /\ UNCHANGED <<row, fresh, runVars, listed, history>>

\* main cleans up orphans before it starts the server.
Restart ==
    /\ ~up
    /\ up' = TRUE
    /\ row' = CleanedOrphans
    /\ UNCHANGED <<fresh, runVars, listed, history>>

Direct(e, s) ==
    \/ Guard(e, s)
    \/ Refuse(e, s)
    \/ Register(e, s)
    \/ RejectDuplicate(e, s)
    \/ \E last \in BOOLEAN : Suspend(e, s, last)
    \/ \E status \in Outcomes : End(e, s, status)
    \/ StoreFails(e, s)
    \/ \E d \in Ids : LaunchErrorWorkflow(e, s, d)
    \/ \E status \in Outcomes \ {"crashed"} : EndErrorWorkflow(e, s, status)
    \/ Leave(e, s)

Resume(e) == \E last \in BOOLEAN : TimerResume(e, last)

Next ==
    \/ \E e \in Ids : \/ Create(e) \/ DispatchNew(e) \/ TimePasses(e)
                      \/ Resume(e) \/ WebhookResume(e) \/ Delete(e)
                      \/ EndSubWorkflow(e)
    \/ \E e \in Ids : \E s \in Slots(e) :
          Direct(e, s) \/ \E d \in Ids : LaunchSubWorkflow(e, s, d)
    \/ \E S \in SUBSET Ids : Prune(S)
    \/ TimerTick
    \/ Crash
    \/ Restart

\* Goroutines run on and runs end, those of jobs at the latest by the timeout
\* of the job; the timer ticks on; a process that died is started again.
\* Nobody has to create, resume or delete anything, and nothing has to fail.
Fairness ==
    /\ \A e \in Ids :
          /\ WF_vars(DispatchNew(e))
          /\ WF_vars(Resume(e))
          /\ WF_vars(EndSubWorkflow(e))
          /\ \A s \in Slots(e) : WF_vars(Direct(e, s))
    /\ WF_vars(TimerTick)
    /\ WF_vars(Restart)

Spec == Init /\ [][Next]_vars
FairSpec == Spec /\ Fairness

-----------------------------------------------------------------------------
\* What the evaluator is running.
Runs(e) == {s \in Slots(e) : job[e][s] = "running"}
Aside(e) == e \in subs \/ \E f \in Ids : handler[f] = e

\* A row is finished exactly when its status is terminal and has a time to
\* wait for exactly when it waits: what the queries for due, for prunable and
\* for orphaned rows rely on, each looking at other columns of what Finish,
\* MarkWaiting and CleanOrphanedExecutions wrote.
TypeOK ==
    /\ up \in BOOLEAN
    /\ \A e \in Ids :
          /\ row[e].status \in Absent \cup Terminal \cup {"running", "waiting"}
          /\ row[e].finished = (row[e].status \in Terminal)
          /\ row[e].till \in {"null", "later", "due"}
          /\ row[e].till # "null" <=> row[e].status = "waiting"
          /\ row[e].last \in BOOLEAN
    /\ DOMAIN job = Ids
    /\ \A e \in Ids : job[e] \in [Slots(e) -> JobStates]
    /\ handler \in [Ids -> Ids \cup {NoId}]
    /\ fresh \cup active \cup subs \subseteq Ids
    /\ listed \subseteq Ids \X BOOLEAN
    /\ resumed \cup abandoned \subseteq Ids
    /\ mishaps \in 0..MaxMishaps

\* However often an execution is resumed by the timer and over HTTP, it is run
\* by one goroutine at a time: by a job that is registered, or aside from the
\* register as a sub-workflow or error workflow, never both.
OneRunAtATime ==
    \A e \in Ids :
       /\ \A s, t \in Runs(e) : s = t
       /\ Runs(e) # {} => e \in active /\ ~Aside(e)

\* While the process runs, a row that says "running" is about to be dispatched
\* or run by someone, unless this process has given the execution up (it was
\* rejected, refused a permit, or its outcome could not be stored): nothing
\* else is left behind, and nothing at all by earlier processes.
RunningHasRunner ==
    up => \A e \in Ids :
             row[e].status = "running" =>
                \/ e \in fresh \cup abandoned
                \/ \E s \in Slots(e) : job[e][s] \in {"queued", "passed", "running"}
                \/ Aside(e)

\* An execution that was deleted or pruned does not come back, though a run of
\* it may only now end or suspend, or the timer still have it on its list.
StaysRemoved ==
    [][\A e \in Ids :
          row[e].status \in {"deleted", "pruned"} => row'[e] = row[e]]_vars

\* The outcome of an execution that nobody ever resumed is final: no second
\* run, crash or start of the server rewrites it.
OutcomeKept ==
    [][\A e \in Ids :
          Settled(e) /\ e \notin resumed =>
             row'[e] = row[e] \/ row'[e].status \in {"deleted", "pruned"}]_vars

\* The record of each execution, and who is being run.
Recorded ==
    [e \in Ids |-> IF row[e].status = "unborn" THEN "none" ELSE row[e].status]
Running == {e \in Ids : Runs(e) # {} \/ Aside(e)}

\* What is promised to whoever reads the rows: only who runs an execution, one
\* at a time, says what becomes of it, unless it was resumed or orphaned.
Record == INSTANCE ExecutionRecord WITH
    Executions <- Ids,
    Outcomes <- Terminal,
    alive <- up,
    record <- Recorded,
    run <- Running,
    asked <- resumed

ImplementsRecord == Record!Spec

Unsettled(e) == Due(e) \/ (row[e].status = "running" /\ e \notin abandoned)

\* Every execution settles: what says it is running ends, waits, or is given
\* up, and what has waited long enough is resumed and its row written, across
\* crashes, refused permits and resumes that get in each other's way.
EveryoneSettles == \A e \in Ids : Unsettled(e) ~> ~Unsettled(e)

\* What the guard of executeWorkflowDirect promises: an execution that has
\* reached a terminal state is not run again.
NoRerun ==
    [][\A e \in Ids : Settled(e) => Runs(e)' \subseteq Runs(e)]_vars
=============================================================================
