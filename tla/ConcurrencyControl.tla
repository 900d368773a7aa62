------------------------- MODULE ConcurrencyControl -------------------------
(***************************************************************************)
(* ConcurrencyControlService of internal/engine/concurrency.go: a global   *)
(* semaphore, one semaphore per workflow and a bounded priority queue of   *)
(* the executions that wait for both.                                      *)
(*                                                                         *)
(* A request is one call of WaitWithOptions together with the release      *)
(* function it returns.  What the code does under svc.mu is one step, with *)
(* one exception: dispatchLocked wakes waiters one at a time, and a woken  *)
(* waiter does not need the lock to go on, so every turn of its loop is a  *)
(* step of its own, during which mu is "dispatching".                      *)
(***************************************************************************)
EXTENDS Integers, FiniteSets

CONSTANTS
    Requests,     \* calls of WaitWithOptions
    Workflows,    \* workflow identifiers
    NoWorkflow,   \* the empty workflow identifier, which has no semaphore
    Priorities,   \* ExecutionPriority values, PriorityLow = 0 and up
    Configs,      \* the ConcurrencyConfig values the service may be given
    MaxUpdates    \* bound: how often UpdateConfig is called

WorkflowIds == Workflows \cup {NoWorkflow}

\* A limit that is not positive means that there is no limit.  The overrides
\* map names some workflows, the others take perWorkflow.
ConfigType(c) ==
    /\ c.global \in Int
    /\ c.perWorkflow \in Int
    /\ c.queueSize \in Int
    /\ DOMAIN c.overrides \subseteq Workflows
    /\ \A w \in DOMAIN c.overrides : c.overrides[w] \in Int

ASSUME ConstantsAssumption ==
    /\ IsFiniteSet(Requests)
    /\ NoWorkflow \notin Workflows
    /\ Priorities \subseteq Int
    /\ MaxUpdates \in Nat
    /\ \A c \in Configs : ConfigType(c)

VARIABLES
    config,       \* svc.config
    mu,           \* "free", or "dispatching" while dispatchLocked loops
    pc,           \* where each request is
    entry,        \* what each request asks for, with its place in arrival order
    sequence,     \* PriorityQueue.sequence
    queue,        \* the requests in svc.queue.items
    granted,      \* requests whose Ready is closed and that have not returned
    globalUsed,   \* tokens in globalSem, 0 while there is no globalSem
    workflowUsed, \* tokens in each workflow's semaphore, 0 while it has none
    updates,      \* how often UpdateConfig was called
    drift         \* history: limits changed under the current permit holders

vars == <<config, mu, pc, entry, sequence, queue, granted, globalUsed,
          workflowUsed, updates, drift>>

\* The fields of QueuedExecution that matter, the release function knows the
\* workflow too.
Entries == [workflow : WorkflowIds, priority : Int, ticket : Nat]

\* A request that has not started or has ended.
NoEntry == [workflow |-> NoWorkflow, priority |-> 0, ticket |-> 0]

PcStates == {"idle", "waiting", "cancelling", "holding",
             "released", "refused", "timedOut"}

-----------------------------------------------------------------------------
\* Limits and semaphores.

LimitIn(c, w) ==
    IF w = NoWorkflow THEN 0
    ELSE IF w \in DOMAIN c.overrides THEN c.overrides[w]
    ELSE c.perWorkflow

WorkflowLimit(w) == LimitIn(config, w)

GlobalFree == config.global <= 0 \/ globalUsed < config.global

WorkflowFree(w) == WorkflowLimit(w) <= 0 \/ workflowUsed[w] < WorkflowLimit(w)

\* Mutant of CanAcquire: the workflow's semaphore is not consulted.
CanAcquireGlobalOnly(w) == GlobalFree

\* tryAcquireLocked takes both tokens or, giving the global one back, none.
CanAcquire(w) == GlobalFree /\ WorkflowFree(w)

TakeTokens(w) ==
    /\ globalUsed' = IF config.global > 0 THEN globalUsed + 1 ELSE globalUsed
    /\ workflowUsed' = IF WorkflowLimit(w) > 0
                       THEN [workflowUsed EXCEPT ![w] = @ + 1]
                       ELSE workflowUsed

\* Mutant of Less: a release that does not look whether the channel is empty.
LessUnchecked(n) == n - 1

\* Semaphore.Release on an empty channel does nothing.
Less(n) == IF n > 0 THEN n - 1 ELSE 0

\* Mutant of ReturnTokens: the workflow's semaphore is not released.
ReturnTokensGlobalOnly(w) ==
    /\ globalUsed' = Less(globalUsed)
    /\ UNCHANGED workflowUsed

ReturnTokens(w) ==
    /\ globalUsed' = Less(globalUsed)
    /\ workflowUsed' = [workflowUsed EXCEPT ![w] = Less(@)]

-----------------------------------------------------------------------------
\* The priority queue: higher priority first, then first come first served.

Before(a, b) ==
    \/ entry[a].priority > entry[b].priority
    \/ entry[a].priority = entry[b].priority /\ entry[a].ticket < entry[b].ticket

QueueFull == config.queueSize > 0 /\ Cardinality(queue) >= config.queueSize

Admissible == {r \in queue : CanAcquire(entry[r].workflow)}

\* Mutant of IsSelected: any admissible item, in no order.
IsSelectedAny(r) == r \in Admissible

\* dispatchLocked scans the items in order and takes the first it can admit.
IsSelected(r) == r \in Admissible /\ \A q \in Admissible \ {r} : Before(r, q)

-----------------------------------------------------------------------------
\* Requests that own a permit, whether or not they have noticed it yet.
Holders == granted \cup {r \in Requests : pc[r] = "holding"}

HoldersOf(w) == {r \in Holders : entry[r].workflow = w}

-----------------------------------------------------------------------------
Init ==
    /\ config \in Configs
    /\ mu = "free"
    /\ pc = [r \in Requests |-> "idle"]
    /\ entry = [r \in Requests |-> NoEntry]
    /\ sequence = 0
    /\ queue = {}
    /\ granted = {}
    /\ globalUsed = 0
    /\ workflowUsed = [w \in WorkflowIds |-> 0]
    /\ updates = 0
    /\ drift = FALSE

\* WaitWithOptions, fast path: nobody queues and both tokens are there.
Admit(r, w, p) ==
    /\ queue = {} /\ CanAcquire(w)
    /\ TakeTokens(w)
    /\ pc' = [pc EXCEPT ![r] = "holding"]
    /\ entry' = [entry EXCEPT ![r] = [workflow |-> w, priority |-> p, ticket |-> 0]]
    /\ UNCHANGED <<sequence, queue>>

\* WaitWithOptions, no queue or a full one.
Refuse(r, w) ==
    /\ ~(queue = {} /\ CanAcquire(w))
    /\ config.queueSize <= 0 \/ QueueFull
    /\ pc' = [pc EXCEPT ![r] = "refused"]
    /\ UNCHANGED <<entry, sequence, queue, globalUsed, workflowUsed>>

\* WaitWithOptions, enqueueLocked.  Nothing is dispatched here.
Enqueue(r, w, p) ==
    /\ ~(queue = {} /\ CanAcquire(w))
    /\ config.queueSize > 0 /\ ~QueueFull
    /\ sequence' = sequence + 1
    /\ entry' = [entry EXCEPT ![r] =
                    [workflow |-> w, priority |-> p, ticket |-> sequence + 1]]
    /\ queue' = queue \cup {r}
    /\ pc' = [pc EXCEPT ![r] = "waiting"]
    /\ UNCHANGED <<globalUsed, workflowUsed>>

WaitAs(r, w, p) ==
    /\ mu = "free"
    /\ pc[r] = "idle"
    /\ Admit(r, w, p) \/ Refuse(r, w) \/ Enqueue(r, w, p)
    /\ UNCHANGED <<config, mu, granted, updates, drift>>

WaitWithOptions(r) ==
    \E w \in WorkflowIds, p \in Priorities : WaitAs(r, w, p)

\* The select of WaitWithOptions takes the Ready branch.
Wake(r) ==
    /\ pc[r] = "waiting" /\ r \in granted
    /\ pc' = [pc EXCEPT ![r] = "holding"]
    /\ granted' = granted \ {r}
    /\ UNCHANGED <<config, mu, entry, sequence, queue,
                   globalUsed, workflowUsed, updates, drift>>

\* The select takes the ctx.Done branch, Ready may be closed already.
Expire(r) ==
    /\ pc[r] = "waiting"
    /\ pc' = [pc EXCEPT ![r] = "cancelling"]
    /\ UNCHANGED <<config, mu, entry, sequence, queue,
                   granted, globalUsed, workflowUsed, updates, drift>>

\* Mutant of Cancel: a wait that ended is reported cancelled, granted or not.
CancelForgetsGrant(r) ==
    /\ mu = "free"
    /\ pc[r] = "cancelling"
    /\ queue' = queue \ {r}
    /\ granted' = granted \ {r}
    /\ pc' = [pc EXCEPT ![r] = "timedOut"]
    /\ entry' = [entry EXCEPT ![r] = NoEntry]
    /\ UNCHANGED <<config, mu, sequence, globalUsed, workflowUsed, updates, drift>>

\* Under the lock: leave the queue, or keep the permit that came meanwhile.
Cancel(r) ==
    /\ mu = "free"
    /\ pc[r] = "cancelling"
    /\ queue' = queue \ {r}
    /\ granted' = granted \ {r}
    /\ IF r \notin queue /\ r \in granted
       THEN /\ pc' = [pc EXCEPT ![r] = "holding"]
            /\ UNCHANGED entry
       ELSE /\ pc' = [pc EXCEPT ![r] = "timedOut"]
            /\ entry' = [entry EXCEPT ![r] = NoEntry]
    /\ UNCHANGED <<config, mu, sequence, globalUsed, workflowUsed, updates,
                   drift>>

\* Mutant of Release: dispatchLocked is not called.
ReleaseWithoutDispatch(r) ==
    /\ mu = "free"
    /\ pc[r] = "holding"
    /\ pc' = [pc EXCEPT ![r] = "released"]
    /\ entry' = [entry EXCEPT ![r] = NoEntry]
    /\ ReturnTokens(entry[r].workflow)
    /\ drift' = (drift /\ Holders # {r})
    /\ UNCHANGED <<config, mu, sequence, queue, granted, updates>>

\* release, up to the call of dispatchLocked.  The once of releaseFunc makes
\* every later call of the same function a no-op.
Release(r) ==
    /\ mu = "free"
    /\ pc[r] = "holding"
    /\ pc' = [pc EXCEPT ![r] = "released"]
    /\ entry' = [entry EXCEPT ![r] = NoEntry]
    /\ ReturnTokens(entry[r].workflow)
    /\ drift' = (drift /\ Holders # {r})
    /\ mu' = "dispatching"
    /\ UNCHANGED <<config, sequence, queue, granted, updates>>

\* One turn of the loop of dispatchLocked.
Grant(r) ==
    /\ mu = "dispatching"
    /\ IsSelected(r)
    /\ TakeTokens(entry[r].workflow)
    /\ queue' = queue \ {r}
    /\ granted' = granted \cup {r}
    /\ UNCHANGED <<config, mu, pc, entry, sequence, updates, drift>>

DispatchDone ==
    /\ mu = "dispatching"
    /\ Admissible = {}
    /\ mu' = "free"
    /\ UNCHANGED <<config, pc, entry, sequence, queue,
                   granted, globalUsed, workflowUsed, updates, drift>>

LimitsDiffer(c) ==
    \/ c.global # config.global
    \/ \E w \in Workflows : LimitIn(c, w) # WorkflowLimit(w)

\* UpdateConfig replaces each semaphore whose size changes by an empty one;
\* permits of the old one stay out.  It ends in dispatchLocked.
UpdateConfig(c) ==
    /\ mu = "free"
    /\ updates < MaxUpdates
    /\ updates' = updates + 1
    /\ config' = c
    /\ globalUsed' = IF c.global = config.global THEN globalUsed ELSE 0
    /\ workflowUsed' = [w \in WorkflowIds |->
                          IF LimitIn(c, w) = WorkflowLimit(w) THEN workflowUsed[w] ELSE 0]
    /\ drift' = (drift \/ (Holders # {} /\ LimitsDiffer(c)))
    /\ mu' = "dispatching"
    /\ UNCHANGED <<pc, entry, sequence, queue, granted>>

Reconfigure == \E c \in Configs : UpdateConfig(c)

Next ==
    \/ \E r \in Requests : WaitWithOptions(r)
    \/ \E r \in Requests : Wake(r)
    \/ \E r \in Requests : Expire(r)
    \/ \E r \in Requests : Cancel(r)
    \/ \E r \in Requests : Release(r)
    \/ \E r \in Requests : Grant(r)
    \/ DispatchDone
    \/ Reconfigure

\* The lock holder runs on, a woken or cancelled waiter runs on, and every
\* execution ends and gives its permit back.  Nobody has to arrive, to give
\* up or to change the limits.
Fairness ==
    /\ WF_vars(DispatchDone)
    /\ \A r \in Requests :
        /\ WF_vars(Grant(r))
        /\ WF_vars(Wake(r))
        /\ WF_vars(Cancel(r))
        /\ WF_vars(Release(r))

Spec == Init /\ [][Next]_vars

FairSpec == Spec /\ Fairness

-----------------------------------------------------------------------------
TypeOK ==
    /\ config \in Configs
    /\ mu \in {"free", "dispatching"}
    /\ pc \in [Requests -> PcStates]
    /\ entry \in [Requests -> Entries]
    /\ sequence \in Nat
    /\ queue \subseteq Requests
    /\ granted \subseteq Requests
    /\ globalUsed \in Nat
    /\ workflowUsed \in [WorkflowIds -> Nat]
    /\ updates \in 0 .. MaxUpdates
    /\ drift \in BOOLEAN

\* No token without an execution that will return it: a waiter that times out
\* while it is granted a permit must not leave a semaphore short for ever,
\* whatever UpdateConfig did in between.
TokensBacked ==
    /\ globalUsed <= Cardinality(Holders)
    /\ \A w \in WorkflowIds : workflowUsed[w] <= Cardinality(HoldersOf(w))

\* While the limits have not changed under permit holders, and again as soon
\* as the service was once idle after they did, the semaphores count the
\* holders exactly.
TokensExact ==
    ~drift =>
        /\ config.global > 0 => globalUsed = Cardinality(Holders)
        /\ \A w \in WorkflowIds :
              WorkflowLimit(w) > 0 => workflowUsed[w] = Cardinality(HoldersOf(w))

\* The promise of the service: under the same proviso no more executions hold
\* a permit than the global limit and their workflow's limit allow.
LimitsRespected ==
    ~drift =>
        /\ config.global > 0 => Cardinality(Holders) <= config.global
        /\ \A w \in WorkflowIds :
              WorkflowLimit(w) > 0 => Cardinality(HoldersOf(w)) <= WorkflowLimit(w)

\* A queued execution is only ever woken by a release or by UpdateConfig, so
\* whenever somebody queues somebody must be left to release.  It does not say
\* that nobody queues beside free permits, which the code does not keep from
\* happening: whoever arrives behind a queue is queued without a dispatch.
NoStrandedQueue == mu = "free" /\ queue # {} => Holders # {}

\* dispatchLocked passes over a queued execution only when that one's own
\* workflow is at its limit; within a workflow the order is never broken.  Who
\* is admitted at once, which takes an empty queue, is no subject of this.
NoOvertaking ==
    [][\A r \in granted' \ granted : \A q \in queue' :
          Before(q, r) => entry[q].workflow # entry[r].workflow /\ ~WorkflowFree(entry[q].workflow)]_vars

\* Every queued execution is served in the end without relying on its timeout:
\* arrivals being finite here, the queue empties again and again.
QueueDrains == []<>(queue = {})
=============================================================================
