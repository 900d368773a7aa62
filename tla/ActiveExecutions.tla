-------------------------- MODULE ActiveExecutions --------------------------
(***************************************************************************)
(* ActiveExecutions of internal/engine/active_executions.go: the register  *)
(* of running executions, put together with the concurrency service that   *)
(* lets them in.                                                           *)
(*                                                                         *)
(* A request of ConcurrencyControl is one call of Add here, followed, when *)
(* it succeeds, by the Remove its caller defers.  The server never calls   *)
(* UpdateConfig, so the configuration stays what it was at the start.      *)
(***************************************************************************)
EXTENDS ConcurrencyControl

CONSTANTS
    ExecutionIds,  \* execution identifiers; a resumed execution keeps its own
    ExecutionOf,   \* the execution each request is for
    Nobody,        \* no request
    NoJob          \* what a request runs while it is not registered

ASSUME ActiveAssumption ==
    /\ ExecutionOf \in [Requests -> ExecutionIds]
    /\ Nobody \notin Requests
    /\ NoJob \notin [id : ExecutionIds, workflow : WorkflowIds]

VARIABLES
    executions,    \* ActiveExecutions.executions: the request registered
    leaving,       \* requests inside Remove, between delete and release
    counter,       \* ActiveExecutions.counter
    cancelled,     \* registered requests whose context was cancelled by Stop
    shutdown,      \* where the call of GracefulShutdown is
    toStop,        \* identifiers StopAll took and has not stopped yet
    victims        \* history: those of the requests StopAll found registered
                   \* that still are

registerVars == <<executions, leaving, counter>>
shutdownVars == <<cancelled, shutdown, toStop, victims>>
activeVars == <<vars, registerVars, shutdownVars>>

Registered == {r \in Requests : \E i \in ExecutionIds : executions[i] = r}

\* Add is past Wait and has not looked at the register.
Entering(r) == pc[r] = "holding" /\ r \notin Registered /\ r \notin leaving

ActiveInit ==
    /\ Init
    /\ executions = [i \in ExecutionIds |-> Nobody]
    /\ leaving = {}
    /\ counter = 0
    /\ cancelled = {}
    /\ shutdown = "off"
    /\ toStop = {}
    /\ victims = {}

-----------------------------------------------------------------------------
\* Add waits for its permit: the steps of WaitWithOptions and of dispatchLocked.
Waiting ==
    /\ \/ \E r \in Requests : WaitWithOptions(r)
       \/ \E r \in Requests : Wake(r)
       \/ \E r \in Requests : Expire(r)
       \/ \E r \in Requests : Cancel(r)
       \/ \E r \in Requests : Grant(r)
       \/ DispatchDone
    /\ UNCHANGED <<registerVars, shutdownVars>>

\* Mutant of Register: the register is not consulted.
RegisterAnyway(r) ==
    /\ Entering(r)
    /\ executions' = [executions EXCEPT ![ExecutionOf[r]] = r]
    /\ counter' = counter + 1
    /\ UNCHANGED <<vars, leaving, shutdownVars>>

\* Add under a.mu, the execution is not registered.
Register(r) ==
    /\ Entering(r)
    /\ executions[ExecutionOf[r]] = Nobody
    /\ executions' = [executions EXCEPT ![ExecutionOf[r]] = r]
    /\ counter' = counter + 1
    /\ UNCHANGED <<vars, leaving, shutdownVars>>

\* Mutant of RejectDuplicate: the permit of the rejected call is kept.
RejectKeepsPermit(r) ==
    /\ Entering(r)
    /\ executions[ExecutionOf[r]] # Nobody
    /\ pc' = [pc EXCEPT ![r] = "released"]
    /\ UNCHANGED <<config, mu, entry, sequence, queue, granted, globalUsed,
                   workflowUsed, updates, drift, registerVars, shutdownVars>>

\* Add under a.mu, the execution is active already: the permit goes back.
RejectDuplicate(r) ==
    /\ Entering(r)
    /\ executions[ExecutionOf[r]] # Nobody
    /\ Release(r)
    /\ UNCHANGED <<registerVars, shutdownVars>>

\* Mutant of Remove: the permit is released before the entry is deleted.
RemoveAfterRelease(r) ==
    /\ r \in Registered
    /\ Release(r)
    /\ UNCHANGED <<registerVars, shutdownVars>>

\* The execution ended and its runner calls Remove: the part under a.mu.
Remove(r) ==
    /\ r \in Registered
    /\ executions' = [executions EXCEPT ![ExecutionOf[r]] = Nobody]
    /\ leaving' = leaving \cup {r}
    /\ counter' = counter - 1
    /\ cancelled' = cancelled \ {r}
    /\ victims' = victims \ {r}
    /\ UNCHANGED <<vars, shutdown, toStop>>

\* The rest of Remove, after the unlock.
ReleasePermit(r) ==
    /\ r \in leaving
    /\ Release(r)
    /\ leaving' = leaving \ {r}
    /\ UNCHANGED <<executions, counter, shutdownVars>>

-----------------------------------------------------------------------------
CancelExecution(i) == cancelled' = cancelled \cup ({executions[i]} \ {Nobody})

\* Stop, called for one execution.  The entry it read may be removed before
\* it calls cancel, which then cancels a context nobody uses any more.
Stop(i) ==
    /\ executions[i] # Nobody
    /\ CancelExecution(i)
    /\ UNCHANGED <<vars, registerVars, shutdown, toStop, victims>>

GracefulShutdown ==
    /\ shutdown = "off"
    /\ shutdown' = IF counter = 0 THEN "clean" ELSE "listing"
    /\ UNCHANGED <<vars, registerVars, cancelled, toStop, victims>>

\* StopAll takes the identifiers under the lock, then stops one at a time.
StopAll ==
    /\ shutdown = "listing"
    /\ shutdown' = "stopping"
    /\ toStop' = {i \in ExecutionIds : executions[i] # Nobody}
    /\ victims' = Registered
    /\ UNCHANGED <<vars, registerVars, cancelled>>

StopNext(i) ==
    /\ shutdown = "stopping"
    /\ i \in toStop
    /\ toStop' = toStop \ {i}
    /\ CancelExecution(i)
    /\ UNCHANGED <<vars, registerVars, shutdown, victims>>

\* Mutant of StopAllDone: the loop stops at the first identifier.
StopAllDoneEarly ==
    /\ shutdown = "stopping"
    /\ shutdown' = "waiting"
    /\ UNCHANGED <<vars, registerVars, cancelled, toStop, victims>>

StopAllDone ==
    /\ shutdown = "stopping"
    /\ toStop = {}
    /\ shutdown' = "waiting"
    /\ UNCHANGED <<vars, registerVars, cancelled, toStop, victims>>

\* WaitForAll polls the counter until its deadline.
WaitForAll ==
    /\ shutdown = "waiting"
    /\ shutdown' \in {"timeout"} \cup (IF counter = 0 THEN {"clean"} ELSE {})
    /\ UNCHANGED <<vars, registerVars, cancelled, toStop, victims>>

ActiveNext ==
    \/ Waiting
    \/ \E r \in Requests : Register(r)
    \/ \E r \in Requests : RejectDuplicate(r)
    \/ \E r \in Requests : Remove(r)
    \/ \E r \in Requests : ReleasePermit(r)
    \/ \E i \in ExecutionIds : Stop(i)
    \/ GracefulShutdown
    \/ StopAll
    \/ \E i \in ExecutionIds : StopNext(i)
    \/ StopAllDone
    \/ WaitForAll

\* The lock holder runs on, woken and cancelled waiters run on, and every
\* execution ends, whether somebody stops it or not.
ActiveFairness ==
    /\ WF_activeVars(DispatchDone /\ UNCHANGED <<registerVars, shutdownVars>>)
    /\ \A r \in Requests :
        /\ WF_activeVars(Grant(r) /\ UNCHANGED <<registerVars, shutdownVars>>)
        /\ WF_activeVars(Wake(r) /\ UNCHANGED <<registerVars, shutdownVars>>)
        /\ WF_activeVars(Cancel(r) /\ UNCHANGED <<registerVars, shutdownVars>>)
        /\ WF_activeVars(Register(r))
        /\ WF_activeVars(RejectDuplicate(r))
        /\ WF_activeVars(Remove(r))
        /\ WF_activeVars(ReleasePermit(r))

ActiveSpec == ActiveInit /\ [][ActiveNext]_activeVars

FairActiveSpec == ActiveSpec /\ ActiveFairness

-----------------------------------------------------------------------------
\* Count, which shutdown polls without the lock, never differs from the
\* number of registered executions, and a registered execution has a permit
\* of its own until after it is unregistered.
CountedAndPermitted ==
    /\ counter = Cardinality(Registered)
    /\ \A r \in Registered : pc[r] = "holding" /\ r \notin leaving

\* When StopAll is through, every execution it found has been cancelled or has
\* ended, and a clean shutdown means that none of them runs any more.
StopAllReaches ==
    /\ shutdown \in {"waiting", "timeout"} => victims \subseteq cancelled
    /\ shutdown = "clean" => victims = {}

\* What callers of Add are promised, stated without queue and permits.
Promise == INSTANCE Admission WITH
    Calls <- Requests,
    Executions <- ExecutionIds,
    WorkflowNames <- WorkflowIds,
    job <- [r \in Requests |->
              IF r \in Registered THEN [id |-> ExecutionOf[r], workflow |-> entry[r].workflow]
              ELSE NoJob],
    globalLimit <- config.global,
    limits <- [w \in WorkflowIds |-> WorkflowLimit(w)]

\* Executions run at most once at a time and within the limits, although a
\* second Add for the same execution waits, gets a permit and is turned away
\* only then, and although a permit outlives the entry it was taken for.
ImplementsAdmission == Promise!Spec

\* Every Add is answered without relying on its timeout, whatever duplicates
\* come in between.
AddReturns ==
    \A r \in Requests : pc[r] = "waiting" ~> pc[r] \notin {"waiting", "cancelling"}
=============================================================================
