# A TLA+ model of n8n-turbo

n8n-turbo is a server that runs workflows: graphs of nodes whose data is handed
from node to node. A run of a workflow is an *execution*. Everything interesting
about the server that a unit test hardly reaches concerns executions: who may
start one, how many run at once, on which worker, what happens when one is
resumed twice, stopped, deleted, or cut off by a crash. This directory holds
TLA+ modules for those parts, TLC configurations that check them on small
instances, and proofs checked by TLAPS for every instance.

Paths below are relative to the root of the repository; `file.go:12` is a line.

## How to run it

    tlc -workers 2 -config MCConcurrencyControl.cfg MCConcurrencyControl
    tlapm ConcurrencyControlProofs.tla

`PROJECT.json` lists the runs, the definitions with the lines of source each one
models, for every property a mutation of the model that the property detects,
the hazards of the code with the properties aimed at them, and the theorems.
Definitions whose comment starts with "Mutant of" are those mutations; no
specification uses them.

## The system

| Component | State | Operations | Modules |
|---|---|---|---|
| Concurrency control, `internal/engine/concurrency.go` | a global semaphore, one semaphore per workflow, a bounded priority queue, a config | `WaitWithOptions`, the release function, `dispatchLocked`, `UpdateConfig` | `ConcurrencyControl` |
| Active executions, `internal/engine/active_executions.go` | the register of running executions with their cancel and release functions, an atomic counter | `Add`, `Remove`, `Stop`, `StopAll`, `WaitForAll`, `GracefulShutdown` | `ActiveExecutions`, `Admission` |
| Local dispatch, `internal/engine/distribution/{local,pool}.go` and the first half of `internal/api/execution_dispatcher.go` | the job queue, active jobs, waiters, kept results, Done channels, worker goroutines | `RunSync`, `Submit`, `Enqueue`, `Dequeue`, `Acknowledge`, `Nack`, `WaitResult`, `Stop` | `LocalDispatch`, `JobService` |
| Execution lifecycle, the second half of `execution_dispatcher.go`, `wait_resume.go`, `waiting_webhook_handler.go`, `sub_workflow.go`, `error_workflow.go`, `persistence/sqlite/execution_store.go`, `migration/operations.go` | the table `execution_entity`, the runs in progress, the timer's list | create, dispatch, run, suspend, resume, finish, delete, prune, clean up at startup | `ExecutionLifecycle`, `ExecutionRecord` |
| Evaluator, `internal/engine/evaluator.go`, `internal/dataplane/graph.go`, the end of `wait_resume.go` | node queue, accumulated inputs, run data of one execution | `ExecuteWithOptions`, resumption | `Evaluator` |
| Redis dispatch, `internal/engine/distribution/redis.go` | a stream and its consumer group, entries in work on each instance | `Enqueue`, `Dequeue`, `Acknowledge`, `Nack`, keepalive, reaper, `Close` | `RedisDispatch`, `JobService` |
| Leadership, `internal/cron/leader.go` | a key with a lease in Redis, on each instance a loop and a flag | `Start`, `tryAcquire`, `Stop` | `Leadership` |
| Scheduler of workflows, `internal/api/scheduler.go` | jobs of active workflows | sync with the rows, start, stop | `Activation`; its shutdown sequence is in `LocalDispatch` |
| Webhook registry, `internal/api/webhook_registry.go`, `internal/webhook/store.go`, the lookup in `webhook_handler.go` | an index from path to workflow | reconcile, remove, look up | `Activation` |
| Workflow handlers, `internal/api/workflow_handler.go`, `sourcecontrol_handler.go`, `persistence/sqlite/workflow_store.go` | the table `workflow_entity` | save, activate, deactivate, delete, pull | `Activation` |

`PROJECT.json` also lists what is not modelled, with the reason: node
implementations, credentials and secrets, expressions and data formats, source
control, frontend and configuration are input and output without a protocol of
their own; insights, audit and log streaming only observe; the other stores are
single SQL statements.

### How the parts interact

`internal/api/router.go:144-180` wires them. A handler (a manual run, a webhook,
a form, the scheduler, a poll, a retry) *creates* the row of an execution and
*dispatches* it: `RunSync` or `Submit` puts a job on the distributor's queue. A
worker of the pool takes the job and calls `executeWorkflowDirect`, which

1. reads the row and stops if the execution is settled already (the guard),
2. calls `ActiveExecutions.Add`, which waits for a permit of the concurrency
   control and then registers the execution, refusing a second run of it,
3. runs the evaluator, which may launch sub-workflows (rows and runs of their
   own, past the dispatcher and the register),
4. writes `waiting` or the outcome to the row, and after a failure runs the
   error workflow to its end,
5. unregisters the execution and gives its permit back (deferred `Remove`).

The result then travels back over two channels at once: the Done channel that
the caller stored, and the distributor's `Acknowledge` / `WaitResult`. A timer
lists waiting rows that are due and resumes them one after another; webhooks and
forms resume waiting rows too. At startup, rows that still say `running` are
marked as failed. The four modules meet at these points: the permit and the
register appear in `ExecutionLifecycle` as `Register`, `RejectDuplicate` and
`Refuse`, whose order and atomicity `ActiveExecutions` justifies through
`Admission`; a dispatched job appears there as a job in state `queued`, and
`LocalDispatch` justifies that it is run once, later, or lost with the process.

With Redis configured, `RedisDispatch` takes the place of `LocalDispatch`: both
implement `JobService`, the one without and the other with redelivery. Several
instances then share the database, the stream of jobs and the key of the
leader. What runs between registration and outcome is one behaviour of
`Evaluator`; its `waiting` is the lifecycle's `Suspend`, its other endings are
`End`. Executions that nobody asks for come from schedules and webhooks, which
`Activation` keeps in step with the rows of workflows; a schedule runs only on
the instance that `Leadership` elects.

### What is hard about it

* **Locks that are given up in the middle.** `dispatchLocked` wakes waiters that
  do not need the lock; `Wait` is over before `Add` takes the register's lock;
  `Remove` releases the permit after it has dropped that lock; `StopAll` walks
  over a snapshot.
* **Races of `select`.** A grant and an expiry, a result and a cancelled
  context, a job and a shutdown may be ready together, and Go picks any.
* **Maps and channels without a common lock.** `Acknowledge` and `WaitResult`
  look at two `sync.Map`s in opposite order; two waiters may share a channel.
* **State read early and used late.** The guard reads the row before the permit
  is there; the timer works through a list it read earlier; a row says `waiting`
  while it is being resumed.
* **Crashes and partial failure.** A refused permit, a store that stays broken
  for fifteen seconds and a crash leave rows behind.
* **Configuration changes** replace semaphores under those who hold tokens.
* **Several instances.** Entries of the stream and the leader's key belong to
  whoever was last heard of; a slow instance looks like a dead one, and a reply
  that is lost leaves open what was done.
* **Copies of the rows.** Schedules and the index of webhooks are changed by
  handlers and by a loop that works from a list it read before.
* **Batches.** The evaluator runs nodes side by side but records them one after
  the other, and a suspension or an error ends it in the middle.

What each component owes its callers:

| Component | It is correct when |
|---|---|
| Concurrency control | permits are neither lost nor made up, limits hold, a dispatch serves the queue in order, and whoever waits has somebody left to release and dispatch |
| Active executions | one run per execution, within the limits; whoever is registered has a permit; a stop reaches everybody |
| Local dispatch | an accepted job is run once, and lost or copied only by a shutdown; callers get their own result and always return; no send on a closed or full channel; the pool stops |
| Lifecycle | one run of an execution at a time; a row that says running has somebody to settle it; removed rows do not come back; outcomes are final; everything settles |
| Evaluator | joins wait for their inputs; whatever was delivered is run with; suspension loses nothing; it ends |
| Redis dispatch | a job is in the stream until its row says how it ended, unless it was acknowledged unrecorded, and is not run twice by accident; it is settled while an instance is up |
| Leadership | never two leaders, though calls stall, fail, are repeated or executed late, but for a late release; a leader while an instance is up |
| Scheduler, registry | a request finds a workflow that offers its path; schedules and index end up as the rows say |

## The modules

### ConcurrencyControl

A *request* is one call of `WaitWithOptions` with the release function it
returned. What runs under `svc.mu` is one step, except that `dispatchLocked`
gets a step per turn of its loop: `mu = "dispatching"` keeps the lock, while
woken waiters (`Wake`, `Expire`) move on without it.

| Model | Code |
|---|---|
| `config`, `queue`, `sequence` | fields of `ConcurrencyControlService` and `PriorityQueue` |
| `globalUsed`, `workflowUsed` | tokens in the channels of `globalSem` and the workflow semaphores |
| `granted` | requests whose `Ready` channel is closed and that have not looked |
| `entry` | the `QueuedExecution` (workflow, priority, arrival order) |
| `Admit`, `Refuse`, `Enqueue` | the three ways through the locked part of `WaitWithOptions` |
| `Wake`, `Expire`, `Cancel` | its `select`, and the locked part after a context ended |
| `Release`, `Grant`, `DispatchDone` | the release function and `dispatchLocked` |
| `UpdateConfig` | replaces every semaphore whose size changes |
| `drift` | history: limits were changed while permits were out; cleared when the last permit is back |

Properties: `TokensBacked`, `TokensExact`, `LimitsRespected`, `NoStrandedQueue`,
the action property `NoOvertaking`, and `QueueDrains` under fairness. That a
granted request goes on to hold its permits (`GrantKept`) and that the queue
holds those who wait ungranted (`QueueSplit`) is stated and proved in
`ConcurrencyControlProofs`.

Seen while modelling: a request that arrives behind a queue is queued without a
dispatch, though its own limits may have room (the fast path asks for an empty
queue, line 269). `NoStrandedQueue` is therefore about whether anybody is left
to release, not about free permits. `NoOvertaking` is about the grants of a
dispatch; who is admitted at once finds the queue empty. `UpdateConfig` has no caller in the server
at present; it is part of the type's interface and of its tests. After it has
changed a limit under holders the limits may be exceeded until they are gone:
that is what `drift` is for, and `TokensBacked` holds even then.

### Admission and ActiveExecutions

`Admission` is the abstract promise: calls start and end; a call that starts is
the only one running its execution, and starts only within the global limit and
its workflow's. `ActiveExecutions` extends `ConcurrencyControl` with the
register, so every step of the permits interleaves with it. A call of `Add`
waits (`Waiting`), holds a permit, and then either registers (`Register`) or
finds its execution there and gives the permit back (`RejectDuplicate`).
`Remove` deletes the entry; `ReleasePermit`, a step later, returns the permit.
`StopAll` is a snapshot (`toStop`) and one step per identifier.

The refinement maps `job` to what is registered. It does not hold by
construction: a permit is taken long before the entry and returned after it, so
each started job must be covered by a permit in every intermediate state, and
the mutation that swaps `Remove`'s two halves breaks it.

Properties: `CountedAndPermitted`, `StopAllReaches`, `ImplementsAdmission` and,
under fairness, `AddReturns`. The configuration does not change here
(`UpdateConfig` is no action of this module): the promise does not survive a
limit that is lowered under permits, and the server never changes one. `GracefulShutdown` and `WaitForAll` have
no caller in the server, which only calls `StopAll` (through `dispatcher.Stop`);
they are modelled as they are part of the type, and around `StopAll` they give it
something to promise.

### JobService

What the interface `JobDistributor` (`distribution/distributor.go`) and the
workers on top of it promise whoever submits a job, with queues, entries, workers
and instances left out: the `status` of each job and whether anything has been
`disrupted`. Undisturbed, an accepted job is started once and then completed or
suspended. A disruption (a shutdown for the local distributor, any fault for
Redis) may have jobs abandoned that were not started; if the distributor
`Redelivers` it may also put running ones back, or have them abandoned, but
nothing brings a completed or an abandoned job back. Jobs for which the code
breaks these promises are *exempt*; each implementation says by its history
variables which they are. `LocalDispatch` and `RedisDispatch` each define `Status`
from their own variables and `Service` as an instance of this module:

| `status` | `LocalDispatch` | `RedisDispatch` |
|---|---|---|
| accepted | enqueued and not run (`fate` is open) | the row says running, an entry is there, and no worker has passed the guard |
| running | a worker is past `Take` with it | a worker has passed the guard |
| completed | it has an outcome | the row is settled |
| suspended | (part of its outcome) | the row says waiting |
| abandoned | lost to the shutdown | the row says failed by the cleanup at a start, or says running and no entry is left |
| exempt | `copied` by the shutdown | `disturbed`: resumed, added twice, or its owner stalled; `unread`: let pass by the guard after it had ended |
| `disrupted` | the shutdown has begun | there was a fault |

The mapping is not one variable by another: whether a job has been accepted, is
running or is done depends on the place of the entry, the workers and the row
together, and a step that moves an entry without changing what it means must
stutter. The mutants are a `Nack` after which the worker goes on, so that the job
is run and comes back, and a guard that lets everything pass.

### LocalDispatch

One step per operation on a `sync.Map` or a channel. A *call* is a call of
`RunSync` or `Submit`, its job has the call's name, and jobs are keyed by the
execution, which two calls may share (an execution that is started and resumed,
or resumed twice).

| Model | Code |
|---|---|
| `pending`, `done` | `executionDispatcher.pending` and the Done channel of each call |
| `queue`, `active`, `waiters`, `chan`, `completed` | the fields of `LocalDistributor`; `active` has one job for each execution, `chan` is the channel that a waiter stored |
| `retry` | goroutines of `Nack` |
| `Submit`, `Enqueue`, `EnqueueFails`, `Return` | `Submit` and the `select` of `RunSync` |
| `Check`, `RegisterWaiter`, `Recheck`, `Unregister`, `Receive`, `Leave` | `WaitResult`, in a goroutine of its own |
| `Dequeue`, `Nack`, `Take`, `Execute`, `Claim`, `Deliver`, `Keep`, `Quit` | the worker loop, `executeJob` and `Acknowledge` |
| `Requeue`, `GiveUp`, `Shutdown` | the goroutine of `Nack`, `runtimeLoop` at its end |
| `outcome`, `fate` | history: how the runs of a job ended; whether it is open, acknowledged, lost, or copied |

`pendingJobs`, the `results` channel and the counters are left out because
nothing reads them. A context may end at any time but never has to.

Properties: `EachJobOnce`, `SendSafe`, `OwnResult`, `SyncAnswered`,
`ImplementsService`; under fairness `SyncReturns`, `JobsServed`, `PoolStops`.
`SyncAnswered` is the safety in `SyncReturns`: whoever waits has its answer in
Done or somebody on the way to put it there, or else its waiter is registered, so
that a shutdown turns it away. `OwnResult`, `SyncAnswered` and `SyncReturns` are
about calls that are alone with their execution. That restriction is the code's: a second
`Submit` overwrites the first one's Done channel (line 204), a result nobody
waited for stays in `completed` and is handed to the next `RunSync` for the same
execution, and of two readers of a shared channel the second gets a zero
`JobResult`. Also seen: between `Acknowledge` (no waiter yet, then store) and
`WaitResult` (no result yet, then register, then look again) no wakeup is lost
only because `WaitResult` looks twice *and* because the Done channel exists;
with the Done channel dropped, `SyncReturns` and `SyncAnswered` fail. It is not
true that an acknowledged job leaves its result where `WaitResult` will find it:
`Acknowledge` may look for a waiter before there is one and store the result
after `WaitResult` has looked twice. A refused execution has a
`StartErr` and no `RunErr`, so the distributor's result calls it a success;
which of the two results `RunSync` returns is a race.

The comment in `WaitResult`, "!ok means Acknowledge already claimed the channel
and will send; drain it" (`local.go:222`), does not hold for two waiters of one
job: waiters share a channel through `LoadOrStore` (`local.go:210`), and whoever
leaves first deletes the shared entry. The other then blocks on a channel that
nobody has claimed, beyond the end of its context. `RunSync` returns all the same
by its Done channel or its context; what stays is the goroutine it started. The
run has one call that waits (`SyncCalls`), as two make an instance of more than
ten million states; that the worker's sends are safe with any number of waiters is
proved (`SendSafeHolds`).

`activeJobs` is keyed by executions as well (`local.go:112`), and `Nack` takes from
it whatever job has the execution (`HandBack`, `local.go:148-168`). That happens
only when the pool's context has ended. If two jobs of one execution are with
workers then, the second has overwritten the first's entry, and the worker that
hands the first one back puts the second in line again, although another worker
has it and may run it; the first is gone, and so it is if the other worker has
acknowledged before and thereby emptied the entry. `fate` calls the one
*copied* and the other *lost*. `EachJobOnce` says that nothing else copies or loses
a job, and that it takes a shutdown and a second job of the execution.

### ExecutionRecord

What somebody who polls the executions of a workflow may rely on: the `record` of
each execution (its status, or that there is none), whether it is being `run`,
whether anybody `asked` to resume it, and whether the server is `alive`. One run
begins at a time. It begins on a record that says running (or was deleted under
it) unless a resume was asked for, and only the end of that run, a resume with
nothing left to run, a removal or the start of the server after a crash changes
the record; pruning takes outcomes only. What it leaves out is how the code gets
there: jobs, the guard, the register and its permits, the timer's list, error
workflows as part of the run that failed.

`ExecutionLifecycle` maps `record` to the status of the row (`Recorded`) and `run`
to the executions that a registered job runs or that run aside (`Running`), and
the two must agree at every step: a job that is registered is a `Begin`, so
nobody else may be running the execution then and, if no resume was asked for,
its outcome must still be open; `Prune` looks at the column `finished` and
`CleanOrphanedExecutions` at three columns, where the promise speaks of the status
alone. The mutation that leaves `finished` as it was when a run suspends breaks
it: an execution that is resumed twice, finished by the one run and suspended by
the other would be pruned while it waits.

### ExecutionLifecycle

The row of each execution (`status`, `finished`, whether `wait_till` is null,
later or due), its jobs, the register, what runs past the register
(sub-workflows in `subs`, error workflows in `handler`) and the timer's list. A
row's data matters in one respect only: whether anything is left to run after
the node the execution waits at (`last`), because the timer finishes such an
execution itself and the webhook handler refuses it.

| Model | Code |
|---|---|
| `Created`, `Finished`, `MarkedWaiting`, `CleanedOrphans`, `Prune`, `Delete` | the statements of the execution store and of the startup cleanup, each one transaction on the only connection (`sqlite/db.go:15`) |
| `Create`, `DispatchNew` | a handler between the insert and the dispatch |
| `TimerTick`, `TimerResume`, `WebhookResume` | `resumeDueWaitingExecutions`, `handleWaitingResume` |
| `Guard`, `Refuse`, `Register`, `RejectDuplicate`, `Suspend`, `End`, `StoreFails`, `Leave` | `executeWorkflowDirect` |
| `LaunchErrorWorkflow`, `EndErrorWorkflow`, `LaunchSubWorkflow`, `EndSubWorkflow` | runs started by runs |
| `Crash`, `Restart` | the process dies; `main` cleans up and starts again |
| `mishaps` | bound: how often something outside the code fails (a crash, a store, a queue or permit that refuses) |
| `resumed`, `abandoned` | history: executions a resume was asked for; executions this process gave up |

Properties: `OneRunAtATime`, `RunningHasRunner`; `ImplementsRecord`; the action
properties `StaysRemoved`, `OutcomeKept`; under fairness `EveryoneSettles`. That
pruning takes only what is settled (`PrunesSettled`) is stated and proved in
`ExecutionLifecycleProofs`, and so is `TypeOK`, which also says how the columns
hang together: the three queries for due, prunable and orphaned rows rely on it.

Seen while modelling: a dispatched execution that is then refused (queue full,
no permit in time, a store failure) keeps a row that says `running` until the
next restart, which is what `abandoned` records. A deleted execution whose job is
queued still runs, as the guard lets a job pass whose row is gone; its writes
find no row. `MarkWaiting` also turns a finished row back to waiting. Error
workflows run inside the failed execution's permit and without a timeout, and
a suspension there counts as an error. `Stop` only makes a run end, so it is no
step of its own; a graceful shutdown does not wait for the runtime loop
(`main.go:131`) and leaves behind what a crash does.

### Leadership

Time is discrete: `Tick` takes a unit off the lease, the tickers and the
deadlines, and everything else happens between ticks, when it pleases, but not
past the deadline of an attempt or beside a tick that waits to be received. Redis
executes a command between request and reply; either may be lost, the client may
then send the command again, and one whose caller gave up, died or sent it again
may be executed later (`late`), the release of the key included.

| Model | Code |
|---|---|
| `owner`, `lease` | the key and its time to live |
| `pc`, `answer`, `spent` | where `run` and `tryAcquire` are, the reply, the time since the context was made |
| `timer`, `due` | the ticker of `run`, and its channel of capacity one |
| `Attempt`, `Execute`, `Receive`, `Fail`, `Resend` | a tick is received; a command is executed; its reply or its error arrives; the client sends it again |
| `SetNX`, `Renew`, `ReleaseKey` | the command and the two scripts |
| `Stop`, `Cancelled`, `Release`, `Crash` | `Stop`, and the loop that ends |
| `robbed` | history: instances whose key a late release has hit since they last got or renewed it |

Properties: `AtMostOneLeader` and, under fairness, `LeaderElected`.

Seen while modelling: `release` (`leader.go:120,186`) is bounded by the context of
`Stop` only, and its script looks for the identity, which the next life of the
instance has too. If the caller gives up and the command is executed after the
instance has started again and got the key, it deletes the new lease: another
instance takes the key, and both lead until the first one's next attempt. That is
`robbed`, which `AtMostOneLeader` excepts; the property says, and the proof shows,
that late and repeated commands do no harm otherwise. A token for each life in
place of the configured identity would close it.

What makes it safe is an inequality between the time an attempt may take and
the lease. `leader_timing_test.go` asks for `interval + callTimeout < ttl`; that
is not all, since a renewal may be executed at the very beginning of one attempt
and the next attempt may fail only at its deadline: the proof needs
`2 * CallTimeout + Interval <= TTL`. The default interval, a third of the lease,
satisfies it exactly. A small `RenewInterval` does not: `callTimeout` grows to
nearly the whole lease then. No configuration of the server sets one. The model
takes for granted that go-redis ends a call when its context ends, that clocks
run at one speed, and that no process is paused between the check of a reply and
the store to the flag.

### RedisDispatch

The stream is a sequence of entries, *new*, *pending* with an owner, or *gone*.
Commands and transactions are single steps. Of time there is one bit for an entry:
that it has been idle for `ReclaimMinIdle`. An instance that is alive and has the
entry in `active` refreshes it before that (`Refreshed`), unless it is stalled
(`Stall`).

| Model | Code |
|---|---|
| `stream` | the stream, its group's pending list with owners and idle times |
| `active`, `claimed` | the map `active`; what a reaper claimed and has not recovered |
| `wpc`, `wentry` | a worker between `Dequeue` and `Acknowledge` |
| `row`, `up` | the execution's row; an instance is up, closing or down |
| `Submit`, `SubmitFails`, `Resume`, `Dequeue`, `DequeueLost`, `Acknowledge`, `AcknowledgeFails`, `Nack` | the distributor's operations and their failures |
| `AddOnce`, `AddTwice` | an XADD, alone or in the transaction of a recovery, that the client may send again when its reply is lost |
| `Guard`, `GuardUnread`, `Register`, `Refuse`, `Finish`, `Suspend`, `StoreFails` | `executeWorkflowDirect`, its row read or not, its permit given or refused, its outcome stored or not |
| `Keepalive`, `GoIdle`, `Stall`, `AutoClaim`, `Recover`, `RecoverFails` | `keepaliveLoop`, time, `reapLoop` |
| `Close`, `Die`, `Restart` | shutdown, crash, start with its cleanup |
| `disturbed` | history: executions that were resumed, added twice, or not kept alive by a stalled instance |
| `abandoned` | history: executions that were not added, refused a permit, or run without their outcome being stored |
| `unread` | history: executions that the guard let pass after they had ended, as it could not read the row |

Properties: `NoJobLost`, `NotRunTwice`, `ImplementsService`; under fairness
`JobsSettle`, `StreamDrains`.

`NoJobLost` and `NotRunTwice` leave out what is `disturbed`. A stalled instance
has its job run twice, as no reaper can tell. A resumed execution's job has the
name of the one that suspended it, `active` goes by names, and acknowledging the
first may delete the second's entry; so may acknowledging the copy of a job that
was added twice, which loses the job if its owner dies then.

Three failures end in a job that counts as done. A permit that is refused
(`execution_dispatcher.go:293-296`) and an outcome that is not stored (314-320,
347-353) are acknowledged like a success: the entry is deleted, the row says
running, and only the next start of an instance marks it as failed. That is
`abandoned`, the only way to lose a job that was not `disturbed`: `NoJobLost` and
`JobsSettle` except it, `ImplementsService` calls it abandoned from the
acknowledgement on. An instance that is closing fails in the same ways, but its
acknowledgement fails too, and the job is delivered again. A guard that cannot
read the row lets the job pass (281), so one that is delivered again after it
ended is run again: `unread`, which `NotRunTwice` excepts and
`ImplementsService` exempts.

Executions that are suspended and not yet
resumed are included in all this: a crash after `waiting` was stored and before the
acknowledgement delivers the job again, which the guard lets pass, as waiting is
not terminal, and the workflow is run from its start. `Nack` hands a job back in
two transactions, but runs only under a context that is cancelled, when neither
is sent; it just forgets the job, which is then recovered. A reaper works under a
deadline of half of `ReclaimMinIdle`, so no second reaper claims what it has. A
process that closes its client stops refreshing, but ends within thirty seconds,
before its entries are idle.

### Activation

The rows say which workflows are active. Two copies follow them on an instance:
the scheduler's jobs and the index of webhook paths. Handlers change both, the
runtime loop brings both into line every thirty seconds from a list it read
before, and a pull from source control does so too, under the context of its
request.

| Model | Code |
|---|---|
| `row`, `changes` | `workflow_entity`; versions and `updated_at` are numbers |
| `jobs` | `scheduler.jobs`: version and whose context the job has |
| `index` | the table of webhooks, from path to workflow |
| `req` | `setWorkflowActive` and `handleDeleteWorkflow` between their statements |
| `sync` | `syncScheduledWorkflows` and `reconcileWebhookRegistry` of loop and pull, with a history: the active workflows that were not changed since the reading of the rows began (`steady`) |
| `ask` | `findHTTPTriggerWorkflow`, with its history: who offered the path all the time, or at some time |
| `Newest`, `Page` | `List` with its limit and the pages of `ListPage` |

Properties: `RoutedRight`, `ReconcilesRight`; under fairness `SchedulesSettle`,
`IndexSettles`.

Seen while modelling: `List` returns at most 250 rows, so the loop stops the
schedules of active workflows that are not among the 250 changed last
(`SchedulesSettle` says *listed*). Schedules started by a pull have the context
of its request: they die when the response is written and keep their entry among
the jobs, so the loop does not start them again until the workflow is changed,
against the comments "Imported workflows take effect immediately" and "the 30s
reconcile loop will retry" (`sourcecontrol_handler.go:200,203`).
Two workflows that offer one path take it from each other in every round. While
the index is cleared and refilled, the scan answers, with the workflow changed
last. The scan passes over rows that change while it runs, since they move to
pages it has read; `RoutedRight` promises an answer only if somebody offered the
path unchanged all the time. The reconciliation reads the same pages: an active
workflow that is saved while it does may be missed and then loses its entry until
the next round. `ReconcilesRight` promises that this happens to no workflow that
stayed as it was, whatever others do.

### Evaluator

One execution's run. A batch is taken from the queue, executed as a whole and
then recorded node by node, in an order that is left open. Inputs are a set of
pairs of node and index that something was ever delivered to, because the code
adds to inputs and never clears them. What a node does is decided when it is
recorded: the outputs it has items on, an error that stops the workflow, or a
suspension.

| Model | Code |
|---|---|
| `inputs`, `queue`, `done`, `last` | `inputs`, `queue`, the keys of `runData`, `lastNode` |
| `batch` | results that have not been recorded |
| `Starts`, `Allowed`, `CanExecute`, `HasAllInputs` | functions of these names |
| `Take`, `Cancel`, `Succeed`, `Fail`, `Suspend`, `Return` | the loop of `ExecuteWithOptions` |
| `Deliver` | `deliverOutputs`, and the loop over what it returns |
| `Resume` | `resumeWaitingExecutionWithOutput`: a new run from the last node's outputs |
| `fed`, `fresh`, `missed`, `owed` | history: deliveries, those not yet run with, those to a node of the batch, what a suspension dropped |

Properties: `NothingLeftOut`, `JoinsWait`; under fairness `Terminates`.

Seen while modelling: a delivery to a node that waits for its turn in the same
batch is swallowed, because the node still counts as queued although its run has
taken its inputs already (`missed`). A resumed run starts every node that
follows the suspended one, joins with some of their inputs and nodes on outputs
without items included; it forgets the destination of a partial run. A
suspension that comes after a sibling's fatal error hides that error. A node
that retries retries its own suspension too (`retry.go:71-80` regards every error
but a context's as retriable).

## Runs, bounds and what they show

| Run | Instance | Distinct states | Shows |
|---|---|---|---|
| `concurrency_control` | 3 requests, 2 workflows and the empty one, 2 priorities, 3 configurations, 1 change of configuration | 117 thousand | all properties of `ConcurrencyControl` |
| `active_executions` | 3 requests, two of them for one execution, 1 workflow and the empty one, 2 configurations | 48 thousand | the register implements `Admission`; every `Add` returns |
| `local_dispatch` | 2 calls for one execution or two, 2 workers, a queue of one | 311 thousand | all properties of `LocalDispatch`, which implements `JobService` |
| `execution_lifecycle` | an execution with up to two jobs at a time and one that is its sub- or error workflow, 1 mishap | 220 thousand | all properties of `ExecutionLifecycle`, which implements `ExecutionRecord` |
| `rerun` | the same without mishaps | stops at the violation | `NoRerun` fails |
| `leadership` | 2 instances, a lease of 3 units, an interval of 2 that is clamped to 1, 2 faults | 191 thousand | all properties of `Leadership` |
| `default_identity` | the same with one identity | stops at the violation | `AtMostOneLeader` fails |
| `redis_dispatch` | 2 instances with 2 and 1 workers, a job that may suspend, 7 entries, 2 faults | 260 thousand | all properties of `RedisDispatch`, which implements `JobService` |
| `startup_cleanup` | the same | stops at the violation | `InFlightKept` fails |
| `activation` | 2 workflows, 1 path, 2 schedule nodes, lists and pages of one row, 4 scenes of up to 3 changes, 2 handlers, 1 pull, calls | 458 thousand | all properties of `Activation` |
| `evaluator` | 8 graphs of 4 nodes, nodes that are disabled, triggers or waiting, 9 requests | 19 thousand | all properties of `Evaluator` |
| `suspension` | the same | stops at the violation | `SiblingsKept` fails |

`TypeOK` is checked where it says more than types: token counts do not drop below
zero, disabled nodes are not run. For the other modules it is part of the
invariant that is proved, or follows from it, and is not checked again.

Why the bounds are enough to be interesting. Three requests are one that holds,
one that is being granted and one that arrives or is overtaken; the first
configuration lets both limits bind at once, the second has an exempt workflow
and a full queue, the third has no global limit and no queue; one change of
configuration leads from any to any. Priorities 0 and 1 let the order of the
queue differ from the order of arrival. In `active_executions` two calls for one
execution suffice for a duplicate that waits for a permit of its own, and the
third call is the one that this could starve. In `local_dispatch` two calls with
one key share a channel, a Done entry and a kept result; a queue of one is full
with one job queued and one retried; two workers with a job each of one execution
are what a `Nack` at the shutdown mixes up. In `execution_lifecycle` two jobs at a time
are the guard's race, and the second execution is what a run creates on the
side. One mishap is one failure anywhere, followed by everything else going
well, which is when the failure must have been repaired.

In `leadership` two faults are a call that fails beside another one's crash, a
lost renewal and a late command, or a stop whose release comes late to the next
life; three units are the shortest lease with a whole
interval and call timeout of one each. In `redis_dispatch` two workers of one
instance may take two entries of one job, and the third takes over; two faults
are a crash during a recovery, a lost acknowledgement beside a stall, a job that is
added twice beside a crash, or one that is delivered again to a guard that cannot
read; seven entries are never used up by them. In `activation` a list or page of one row is
the limit of 250 with one row too many; a scene restricts what happens together
(schedules with two handlers, or with a pull; calls with the loop; the index with
a pull), since all at once is too much for TLC. The graphs of `evaluator` are the
smallest that part, join on one input or two, feed a node of their own batch,
join unevenly or loop.

Deadlock is not checked: requests, calls and executions are used once, so every
instance comes to rest when they are used up. Stopping early is excluded by the
liveness properties instead.

### Fairness

Fairness is weak and given to what the code's own goroutines do: the holder of a
lock runs on, woken and cancelled waiters run on, workers look for jobs, a
deferred `Remove` is called. A run ends (`Release`, `Remove`, `Direct`) because
jobs have a timeout (`executionJobTimeout`, `execution_dispatcher.go:562`). The
timer ticks every thirty seconds and a process that died is started again; a
shutdown that has begun is finished (`scheduler.go:78-98`). Nothing is assumed
about clients and the outside: nobody has to arrive, resume, delete or change
limits, contexts and waits need not time out, and nothing has to fail. In
particular `QueueDrains`, `AddReturns` and `SyncReturns` hold without anybody's
timeout. Sub-workflows and error workflows are assumed to end although no
timeout covers those that run in a goroutine of their own; that their nodes end
is an assumption on the nodes.

In `Leadership` time passes and a loop goes on by itself; in `RedisDispatch`
workers and reapers go on, entries that nobody refreshes become idle, and a
process that closes ends, but nobody need start one again, and the steps that fail
(`Refuse`, `StoreFails`, `GuardUnread` and the like) have no fairness; in `Activation` the
ticker fires and handlers go on; in `Evaluator` nodes return, as their timeouts
and the execution's make them. Commands need not fail, nothing has to be
resumed, saved or called.

## Findings

* `rerun`: the guard of `executeWorkflowDirect` is there so that an execution
  that reached a terminal state is not run again
  (`execution_dispatcher.go:277-279`). It reads the row before `Add` waits and
  registers. Two resumptions of one waiting execution both pass it; the first
  runs, finishes and leaves the register; the second is registered and runs the
  same nodes again. `OneRunAtATime` still holds, `OutcomeKept` holds for
  executions that were never resumed.
* `default_identity`: the identity of every instance defaults to
  "n8n-turbo-local" (`config.go:171`) and is passed to the leader as it is
  (`router.go:174`). A second instance finds its own name in the key, renews it
  and leads too, against "the dual-leadership window is closed"
  (`leader_timing_test.go:8-10`). With identities of their own nothing but a late
  release (see Leadership) has two instances lead.
* `startup_cleanup`: the reaper is there so that "a crashed instance's in-flight
  work isn't lost" (`redis.go:343-344`). The instance that starts again marks
  what it was running, and what the others are running or have queued, as
  failed (`operations.go:49`). Whoever takes the recovered entry finds a terminal
  row and drops it.
* `suspension`: a batch is not cancelled when one of its nodes fails, as that
  "would abort unrelated sibling branches mid-flight" (`evaluator.go:286-287`).
  When one suspends, the siblings after it have run but are neither recorded nor
  delivered (`evaluator.go:143`), and the resumed run knows nothing of them.

## Proofs

Eight modules (`...Proofs`) prove what the runs show for the small instances: for
any sets of requests (finite, as `Cardinality` is used), workflows and
configurations and any number of changes; for any set of executions, any number
of jobs for each and any number of failures; for any calls and workers; for any
instances, leases and intervals; for any graphs; for any finite set of workflows
and lists and pages of any size. The assumptions are those of
the modules, which TLC evaluates, and two that `LeadershipProofs` states in its
theorems: identities differ, and `2 * CallTimeout + Interval <= TTL`. Of the
modules' assumptions: `ConstantsAssumption` (`Requests` finite, integer limits and
priorities, the empty workflow is not a workflow), that of `ActiveExecutions`
about its own constants, and `LifecycleAssumption` (requested executions are
executions, `NoId` is none, the bounds are natural numbers, an execution may have
at least one job, outcomes are those the code stores). The others say that
constants have the types they are used with; `ActivationAssumption` also that
workflows are finitely many and a page has room for one row.

**Concurrency control.** `TypeCorrect` comes first. The inductive invariant is

    IInv == TypeOK /\ QueueSplit /\ Tokens /\ NoStrandedQueue

with `Tokens` made of `TokensBacked`, `TokensExact` and `TokensWithin` (tokens
never exceed the semaphore's size). The parts need each other: that a grant
adds a holder depends on `QueueSplit` (it was not one before), `TokensExact`
after a release depends on `TokensBacked` (a token is there to be taken off),
and `NoStrandedQueue` when the dispatch loop ends depends on `TokensBacked`: if
nobody in the queue fits, a semaphore is full, so it has tokens, so it has
holders. `LimitsRespected` follows from `TokensExact` and `TokensWithin`, which
is the step TLC cannot tell us: exact counting is what enforces the limits. The
lemmas about `Holders` (`HoldersKept`, `HoldersGain`, `HoldersLoss`) and
semaphores (`TokensGain`, `TokensLoss`, `TokensUpdate`) carry the counting; there
is one lemma per action for `IInv`. `GrantKeptHolds` and `NoOvertakingHolds` are
the action properties, from the same invariant.

**Active executions.** `UsesControl` shows that every step of the register is a
step of the concurrency control or leaves it alone, so that everything above
carries over; `NoDrift` that limits do not change here. `ActiveInductive` is the
invariant of the register: entries belong to requests that hold a permit and are
not leaving, the counter counts them. `Implementation` is the refinement:
`Register` is `Start` because the registered are holders and holders are within
the limits (`LimitsRespectedHolds`), `Remove` is `End`, everything else stutters.

`StopAllReachesHolds` adds `Reaching`: while `StopAll` goes through the list it
took, whoever it has not cancelled is still to come. It also needs that the
register finds a request under its own execution, as the list holds executions
and what must be cancelled are requests.

**Execution lifecycle.** None of the properties is inductive: that a second job
cannot register says nothing as long as the entry may be missing while a job
runs. The invariant is

    IInv == Shape /\ AsideOnce /\ Down /\ \A e \in Ids : Fits(e)

where `Fits` says how the row, the jobs, the register entry, the timer's list
and what runs aside fit together for one execution:

| Part | Says | Needed for |
|---|---|---|
| `WellFormed` | the columns of a row agree | `TypeOK` |
| `EntryFits` | exactly one job holds the entry when there is one; an error workflow runs exactly while that job handles it | `OneRunAtATime`; `RejectDuplicate`, where the entry found must belong to somebody |
| `PastFits` | a job whose run is over has settled the row, or the execution is in `abandoned` | `RunningHasRunner` when the last job leaves |
| `RunnerFits` | what says "running" has somebody to settle it | `RunningHasRunner` |
| `AsideFits`, `UnbornFits`, `AsideOnce` | what runs aside has no job, is on no list and runs there once; an execution not created yet has nothing | `OneRunAtATime` for sub- and error workflows, which bypass the register |
| `OnceFits` | an execution never resumed has one job at most, and is not settled before that has run | `OutcomeKept` |
| `Down` | a process that is down has nothing in memory | `Restart` and its cleanup |

The proof has one lemma per action. `Untouched` says that `Fits` stays true of
an execution that a step leaves alone, `TouchesKeeps` that a step which touches
one execution only need be looked at there; launching and ending what runs aside
touch two (`AsideBegins`, `AsideEnds`). The action properties follow from
`StepRowMoves`, which lists the ways a step can change a row and under which
condition, together with the invariant before the step.

`LifecycleImplementation` is the refinement of `ExecutionRecord`, again with one
lemma per kind of step: `Register` is a `Begin`, because `EntryFits` leaves no
running job without an entry and `OnceFits` no settled row with a job that was
never resumed; the three ways to end a run are an `End` of that execution, or of
the one in `handler` for an error workflow, which `AsideOnce` keeps from being run
elsewhere; `Prune` and `Restart` need `WellFormed`; the guard, the queue, refusals
and `Leave` stutter. `RunMoves` and `RecordMoves` say what moves the mapped
variables, `JobRuns` what a job that changes its state does to them, and
`RecordWritten` that `Finish` and `MarkWaiting` write nothing that is gone.

**Local dispatch.** `IInv == TypeOK /\ Wired /\ Placed /\ Unrun /\ Channels`.
`Placed` is the heart: a job that has been submitted and is open is in exactly
one place (queue, worker, goroutine of `Nack`), and what is active under an
execution is a job of it that waits in none of them, so that taking a job from one
and putting it into another cannot make two of it, and what `Nack` puts in line in
place of its own job is known to be *copied* from then on. `Unrun` says that what
has not run has no outcome, that only a shutdown loses or copies a job, and that
it copies only a job whose execution has another; `Channels` that a waiter's
channel is open and not claimed while it is registered or about to be, and
claimed by one worker at most; `Wired` that a goroutine which looks at a channel
has one.
`SendSafeHolds` and `EachJobOnceHolds` follow. Three more results are layered on
top of it, each with an invariant of its own that uses `IInv` in every step:

* `OwnResultHolds` from `Keyed` and `Answers`. Everything that goes by executions
  (Done channels, kept results, shared channels, what a worker has in its hands)
  is of the execution it is filed under, and every answer on its way to a call is
  the result of a job for its execution that was run, or a reason for having none;
  a call that is alone can then only get its own. It needs that the markers of a
  shared channel are not names of calls (`DispatchAssumption`).
* `SyncAnsweredHolds` from `Served`: a job that is still to be started will find
  the Done channel of its call (`DoneStored`), the worker that has taken it holds
  it (`DoneHeld`), one that has run has used it (`DoneUsed`), and until then nobody
  takes the waiter but the wait itself (`WaiterStands`).
* `LocalImplementation`, the refinement of `JobService`: `Enqueue` accepts,
  `Take` starts, `Execute` completes, `Shutdown` and what follows it disrupt, and
  everything else keeps every status. That starting is once rests on `Placed`:
  what a worker holds is nowhere else, unless it is copied and thereby exempt.

**Leadership.** `IInv == TypeOK /\ TickerRuns /\ LeadersTime /\ GrantedTime`.
`LeadersTime` says of every leader that the key is its own and for how long: the
lease that is left covers the time until the next tick is received and the whole
deadline of the attempt that follows, and during an attempt what is left of that
deadline. `GrantedTime` says the same of an instance that has got the key and not
heard of it: since its attempt began no more than that time is gone from the
lease. Both speak of instances that are not `robbed`, as a late release takes the
key away and leaves the flag; getting or renewing the key ends the exception. A
late `SETNX` or renewal does no harm: the one takes a key that nobody has, the
other prolongs a lease of the same identity. `2 * CallTimeout + Interval <= TTL`
is what re-establishes it when a renewal is executed at the start of an attempt and its
reply arrives at the end. `DefaultFits` shows that the default interval satisfies
it, for a lease of any multiple of three units, whence
`AtMostOneLeaderByDefault`.

**Redis dispatch.** `IInv` is `TypeOK` with `Shape` (entries and workers fit),
`OneEntry` (an undisturbed execution has one entry), `Held` (a worker's entry is
pending with its instance and in `active`), `Reaped` (what a reaper has claimed
is pending with it), `Worked`, `Recorded` and `NoJobLost`. `Recorded` says what
rows and workers have to do with each other: what is about to be acknowledged and
says running is `abandoned`, or its instance is closing and will not acknowledge
it; what passed the guard and is settled is `unread`. `NotRunTwice` is not
inductive: that a second delivery
does not run needs `OneEntry` and `Held`, since only an entry that nobody holds
goes idle.

`RedisImplementation` is the refinement of `JobService`. Before the first fault
the abstract job moves as the local one does, and that needs `Smooth` on top of
`IInv`: while nothing fails, what waits in the stream or is with a worker before
its run is of an execution that runs, so that passing the guard is a `Start` and
not a second one. After a fault any step that sets a job back must be one that
`Setback` allows: recovery and redelivery of what was running, the cleanup's
failed rows, a refused permit or lost outcome (which leaves the job accepted while
its entry is there, and abandoned once that is acknowledged), jobs that become
exempt. `Accounted` is needed beside it: without a failure nothing is abandoned,
and a row that waits has had an entry.

**Evaluator.** `IInv == TypeOK /\ JoinsWait /\ Kept /\ NothingLeftOut`, where
`Kept` says that what has been delivered and makes a node ready is in the queue,
or was missed, or the run is stopping.

**Activation.** `IInv` types every variable, among them what the loop and a pull
hold between their steps, and adds `Asked` about the request for a webhook:
`Known` (a workflow counted as steady offers the path now, and whoever offers it
now is known to have done so), `Ahead` and `RoutedRight`. `Ahead` says that the
scan has not passed a steady workflow: its row was changed before the cursor.
`CursorPasses` is what a step of the scan needs of pages: whatever a page leaves
out was changed before all that is on it, which follows from comparing the
cardinalities of the sets of later rows, of which those of two rows are included
in each other; that a page which is not the last has a row at all needs a
greatest time of change. `WriteKeeps` shows that writing a row, by whomever and
at whatever time, disturbs nothing of `Asked`, since a changed workflow is no
longer steady.

`ReconcilesRightHolds` adds `Gathered` about what the loop and a pull have
collected: a workflow that stayed as it was is among the desired ones, under its
path, as soon as the cursor has passed its row, and is not on the list of those to
be pruned. The step of the scan is `CursorPasses` again; that pruning spares it
needs that it is compared with what was collected and not with the rows, which
others go on to change.

Only model-checked: the liveness properties (`QueueDrains`, `AddReturns`,
`SyncReturns`, `JobsServed`, `PoolStops`, `EveryoneSettles`, `LeaderElected`,
`JobsSettle`, `StreamDrains`, `SchedulesSettle`, `IndexSettles`, `Terminates`),
which need fairness and `ENABLED` and are beyond the prover. `SyncAnswered` is the
part of `SyncReturns` that is proved. Every invariant and action property that a
run checks is also a theorem.

## Not modelled, and why

Most of the source are node implementations, metadata of node types and code
that parses, formats and converts: it calls services and computes values, each
piece by itself, and has no state of the kind a model checker explores. A model
of it would be its transcription. What is modelled is what runs concurrently,
fails halfway or must survive a restart.

* Metrics, logging, read-only views and everything in an HTTP handler that
  changes no state.
* The PostgreSQL store runs the same statements over a pool of connections;
  statement by statement the models' atomicity holds there too, but it has not
  been looked at transaction by transaction.
* When a schedule fires: cron expressions (calendar arithmetic of the library;
  its search by truncating local times is exposed to changes of clocks,
  `parser.go:104`) and the mark of a workflow that is running
  (`scheduler.go:268`), which a schedule that is replaced may give up for
  another.
* The stream of results: `WaitResult` reads it from its beginning
  (`redis.go:262`), so a resumed execution is answered with the result of the run
  that suspended it.
* Items: which of them a node sees, pairing, compaction of run data, retries
  with their waits.
* The version check of `Save`: a request without a version overwrites, and
  restores what it read before, so `Activation` lets a save write anything.
* The push hub: sends do not block and happen under one lock, so that each of
  its operations is a single step.
* Credentials, secrets, authentication, source control but for what a pull does
  to schedules and index, frontend, configuration: input and output.

## Plan

Done: `ConcurrencyControl`, `Admission` and `ActiveExecutions`, `LocalDispatch`,
`ExecutionLifecycle`, `Leadership`, `RedisDispatch`, `Activation` and `Evaluator`
with their runs and proofs.

What could follow: the mark of running workflows and the firing of schedules; the
result stream of the Redis distributor; items in the evaluator, compared with a reference
definition of what a run of an acyclic graph delivers.
