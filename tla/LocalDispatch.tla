---------------------------- MODULE LocalDispatch ----------------------------
(***************************************************************************)
(* One instance of the server dispatching executions to itself: RunSync,   *)
(* Submit and executeJob of internal/api/execution_dispatcher.go on top of *)
(* LocalDistributor (internal/engine/distribution/local.go) and the worker *)
(* pool (pool.go).                                                         *)
(*                                                                         *)
(* A call is one call of RunSync or Submit; the job it enqueues goes by    *)
(* the name of the call.  Jobs are keyed by the execution they run, and an *)
(* execution that is resumed is dispatched again under the same key.  Each *)
(* operation on one of the sync.Maps or channels is a step.  What nobody   *)
(* reads is left out: pendingJobs, the results channel and the counters.   *)
(***************************************************************************)
EXTENDS Naturals, FiniteSets, Sequences

CONSTANTS
    Calls,       \* calls of Submit, alone or inside RunSync
    SyncCalls,   \* those inside RunSync, which wait for their result
    Keys,        \* execution identifiers
    KeyChoices,  \* which execution each call may dispatch
    Workers,     \* goroutines of the pool
    QueueSize,   \* capacity of jobQueue
    Outcomes,    \* how executeWorkflowDirect may end, see Execute
    NoCall       \* no call

ASSUME DispatchAssumption ==
    /\ SyncCalls \subseteq Calls
    /\ KeyChoices \subseteq [Calls -> Keys]
    /\ QueueSize \in Nat \ {0}
    /\ Outcomes \subseteq {"ok", "failed", "refused"}
    /\ NoCall \notin Calls

VARIABLES
    stage,     \* "running", "cancelled": runtimeCtx is, "closed": dispatcher
               \* and distributor are
    key,       \* the execution each call dispatches
    pc,        \* where each call is
    ctxDone,   \* calls whose context was seen to have ended
    ret,       \* what RunSync returned
    wait,      \* where the WaitResult goroutine of each call is
    chanOf,    \* whose channel that goroutine waits on
    res,       \* resultCh of each call
    done,      \* the Done channel of each call, of capacity one
    pending,   \* dispatcher.pending: the Done channel stored for each key
    queue,     \* jobQueue
    active,    \* activeJobs: the job stored for each key
    retry,     \* jobs waiting in a goroutine of Nack
    waiters,   \* waiters: the call whose channel is stored for each key
    chan,      \* those channels: Open, then a job's result, then Closed
    completed, \* completed: the result stored for each key
    wpc,       \* where each worker is
    job,       \* the job each worker has
    target,    \* whose Done channel it found, or whose channel it claimed
    result,    \* what it hands to Acknowledge
    outcome,   \* history: how the run of each job ended, all runs of it
    fate       \* history: "none", "open" once the job was accepted, then
               \* "acked", "lost", or "copied" if it was queued again while
               \* another worker had it

callVars == <<pc, ret, done, pending>>
waitVars == <<wait, chanOf, res, waiters, chan, completed>>
workVars == <<queue, active, retry, wpc, job, target, result, outcome, fate>>
vars == <<stage, ctxDone, key, callVars, waitVars, workVars>>

Nothing == [job |-> NoCall, status |-> "none"]

\* Errors made up on the way, told apart by their texts: the job was not
\* accepted, the wait for it ended early, and the zero JobResult, without a
\* text, which a closed channel yields.
Rejected == [job |-> NoCall, status |-> "rejected"]
Cancelled == [job |-> NoCall, status |-> "cancelled"]
ZeroResult == [job |-> NoCall, status |-> "error"]

\* A channel nobody has sent to, and one whose result was received.
Open == [job |-> NoCall, status |-> "open"]
Closed == [job |-> NoCall, status |-> "closed"]

\* Mutant of JobResult: every result is a success.
JobResultSuccess(j, o) == [job |-> j, status |-> "success"]

\* executeJob turns a RunErr into the text of the JobResult, and processJob
\* calls every result without a text a success.  An execution that was
\* refused a permit has a StartErr and no RunErr.
JobResult(j, o) ==
    [job |-> j, status |-> IF o = "failed" THEN "error" ELSE "success"]

\* What executeWorkflowDirect itself returns.
DirectResult(j, o) ==
    [job |-> j, status |-> IF o = "ok" THEN "success" ELSE "error"]

Init ==
    /\ stage = "running"
    /\ key \in KeyChoices
    /\ pc = [c \in Calls |-> "idle"]
    /\ ctxDone = {}
    /\ ret = [c \in Calls |-> Nothing]
    /\ wait = [c \in Calls |-> "off"]
    /\ chanOf = [c \in Calls |-> NoCall]
    /\ res = [c \in Calls |-> Nothing]
    /\ done = [c \in Calls |-> Nothing]
    /\ pending = [k \in Keys |-> NoCall]
    /\ queue = << >>
    /\ active = [k \in Keys |-> NoCall]
    /\ retry = {}
    /\ waiters = [k \in Keys |-> NoCall]
    /\ chan = [c \in Calls |-> Open]
    /\ completed = [k \in Keys |-> Nothing]
    /\ wpc = [w \in Workers |-> "idle"]
    /\ job = [w \in Workers |-> NoCall]
    /\ target = [w \in Workers |-> NoCall]
    /\ result = [w \in Workers |-> Nothing]
    /\ outcome = [c \in Calls |-> {}]
    /\ fate = [c \in Calls |-> "none"]

-----------------------------------------------------------------------------
\* The caller: RunSync and Submit.

\* The context of a call may end at any time, when the client goes away or the
\* handler that called RunSync is over.  Nothing happens before RunSync or
\* WaitResult look at it, so it ends when the first of them does.
ContextEnds(c) == ctxDone' = ctxDone \cup {c}

\* Submit looks whether the dispatcher is stopped and stores its Done channel.
Submit(c) ==
    /\ pc[c] = "idle"
    /\ IF stage = "closed"
       THEN /\ pc' = [pc EXCEPT ![c] = "returned"]
            /\ ret' = [ret EXCEPT ![c] = Rejected]
            /\ UNCHANGED pending
       ELSE /\ pc' = [pc EXCEPT ![c] = "stored"]
            /\ pending' = [pending EXCEPT ![key[c]] = c]
            /\ UNCHANGED ret
    /\ UNCHANGED <<stage, ctxDone, key, done, waitVars, workVars>>

\* Enqueue sends the job.  RunSync then starts its WaitResult goroutine.
Enqueue(c) ==
    /\ pc[c] = "stored"
    /\ stage # "closed" /\ Len(queue) < QueueSize
    /\ queue' = Append(queue, c)
    /\ fate' = [fate EXCEPT ![c] = "open"]
    /\ pc' = [pc EXCEPT ![c] = IF c \in SyncCalls THEN "waiting" ELSE "returned"]
    /\ wait' = [wait EXCEPT ![c] = IF c \in SyncCalls THEN "check" ELSE "off"]
    /\ UNCHANGED <<stage, ctxDone, key, ret, done, pending, chanOf, res, waiters, chan,
                   completed, active, retry, wpc, job, target, result, outcome>>

\* Enqueue fails: closed, full, or the context has ended.
EnqueueFails(c) ==
    /\ pc[c] = "stored"
    /\ \/ (stage = "closed" \/ Len(queue) >= QueueSize) /\ UNCHANGED ctxDone
       \/ ContextEnds(c)
    /\ pc' = [pc EXCEPT ![c] = "returned"]
    /\ ret' = [ret EXCEPT ![c] = Rejected]
    /\ pending' = [pending EXCEPT ![key[c]] = NoCall]
    /\ UNCHANGED <<stage, key, done, waitVars, workVars>>

\* The select of RunSync: any branch that is ready.
Return(c) ==
    /\ pc[c] = "waiting"
    /\ \/ /\ done[c] # Nothing
          /\ ret' = [ret EXCEPT ![c] = done[c]]
          /\ UNCHANGED ctxDone
       \/ /\ wait[c] = "over"
          /\ ret' = [ret EXCEPT ![c] = res[c]]
          /\ UNCHANGED ctxDone
       \/ /\ ContextEnds(c)
          /\ ret' = [ret EXCEPT ![c] = Cancelled]
    /\ pc' = [pc EXCEPT ![c] = "returned"]
    /\ UNCHANGED <<stage, key, done, pending, waitVars, workVars>>

-----------------------------------------------------------------------------
\* WaitResult, in a goroutine of its own.

WaitOver(c, r) ==
    /\ wait' = [wait EXCEPT ![c] = "over"]
    /\ res' = [res EXCEPT ![c] = r]
    /\ chanOf' = [chanOf EXCEPT ![c] = NoCall]

Check(c) ==
    /\ wait[c] = "check"
    /\ IF completed[key[c]] # Nothing
       THEN /\ WaitOver(c, completed[key[c]])
            /\ completed' = [completed EXCEPT ![key[c]] = Nothing]
       ELSE /\ wait' = [wait EXCEPT ![c] = "register"]
            /\ UNCHANGED <<res, chanOf, completed>>
    /\ UNCHANGED <<stage, ctxDone, key, waiters, chan, callVars, workVars>>

\* LoadOrStore: a second waiter for the same key shares the first one's channel.
RegisterWaiter(c) ==
    LET k == key[c] IN
    /\ wait[c] = "register"
    /\ waiters' = [waiters EXCEPT ![k] = IF @ = NoCall THEN c ELSE @]
    /\ chanOf' = [chanOf EXCEPT ![c] = waiters'[k]]
    /\ wait' = [wait EXCEPT ![c] = "recheck"]
    /\ UNCHANGED <<stage, ctxDone, key, res, chan, completed, callVars, workVars>>

Recheck(c) ==
    /\ wait[c] = "recheck"
    /\ IF completed[key[c]] # Nothing
       THEN /\ res' = [res EXCEPT ![c] = completed[key[c]]]
            /\ completed' = [completed EXCEPT ![key[c]] = Nothing]
            /\ wait' = [wait EXCEPT ![c] = "unregister"]
       ELSE /\ wait' = [wait EXCEPT ![c] = "select"]
            /\ UNCHANGED <<res, completed>>
    /\ UNCHANGED <<stage, ctxDone, key, chanOf, waiters, chan, callVars, workVars>>

Unregister(c) ==
    /\ wait[c] = "unregister"
    /\ WaitOver(c, res[c])
    /\ waiters' = [waiters EXCEPT ![key[c]] = NoCall]
    /\ UNCHANGED <<stage, ctxDone, key, chan, completed, callVars, workVars>>

\* Receive from the channel, in the select or to drain it.  Whoever comes
\* second finds it closed and receives the zero result.
Receive(c) ==
    LET x == chanOf[c] IN
    /\ wait[c] \in {"select", "drain"}
    /\ chan[x] # Open
    /\ WaitOver(c, IF chan[x] = Closed THEN ZeroResult ELSE chan[x])
    /\ chan' = [chan EXCEPT ![x] = Closed]
    /\ UNCHANGED <<stage, ctxDone, key, waiters, completed, callVars, workVars>>

\* The context ends or the distributor closes: leave, or drain the channel
\* if the waiter has been taken out already.
Leave(c) ==
    /\ wait[c] = "select"
    /\ ContextEnds(c) \/ (stage = "closed" /\ UNCHANGED ctxDone)
    /\ IF waiters[key[c]] # NoCall
       THEN /\ WaitOver(c, Cancelled)
            /\ waiters' = [waiters EXCEPT ![key[c]] = NoCall]
       ELSE /\ wait' = [wait EXCEPT ![c] = "drain"]
            /\ UNCHANGED <<res, chanOf, waiters>>
    /\ UNCHANGED <<stage, key, chan, completed, callVars, workVars>>

-----------------------------------------------------------------------------
\* The workers: Dequeue, processJob, executeJob and Acknowledge.

\* The loop of worker looks at its context before it dequeues again.
NextTurn(w) ==
    /\ wpc' = [wpc EXCEPT ![w] = IF stage = "running" THEN "idle" ELSE "stopped"]
    /\ job' = [job EXCEPT ![w] = NoCall]
    /\ target' = [target EXCEPT ![w] = NoCall]
    /\ result' = [result EXCEPT ![w] = Nothing]

\* The select of Dequeue may take a job although the context has ended.  Another
\* job that is active under the same key is overwritten in the map.
Dequeue(w) ==
    /\ wpc[w] = "idle"
    /\ queue # << >>
    /\ job' = [job EXCEPT ![w] = Head(queue)]
    /\ queue' = Tail(queue)
    /\ active' = [active EXCEPT ![key[Head(queue)]] = Head(queue)]
    /\ wpc' = [wpc EXCEPT ![w] = "got"]
    /\ UNCHANGED <<stage, ctxDone, key, callVars, waitVars, retry, target, result, outcome,
                   fate>>

\* Mutant of Quit: a worker with nothing to take does not notice.
QuitWithJobs(w) ==
    /\ wpc[w] = "idle"
    /\ stage # "running" /\ queue # << >>
    /\ wpc' = [wpc EXCEPT ![w] = "stopped"]
    /\ UNCHANGED <<stage, ctxDone, key, callVars, waitVars, queue, active, retry, job,
                   target, result, outcome, fate>>

Quit(w) ==
    /\ wpc[w] = "idle"
    /\ stage # "running"
    /\ wpc' = [wpc EXCEPT ![w] = "stopped"]
    /\ UNCHANGED <<stage, ctxDone, key, callVars, waitVars, queue, active, retry, job,
                   target, result, outcome, fate>>

\* Nack takes whatever job is active under the key, if any, to queue it again.
HandBack(k) ==
    /\ retry' = IF active[k] = NoCall THEN retry ELSE retry \cup {active[k]}
    /\ active' = [active EXCEPT ![k] = NoCall]

\* Mutant of Nack: processJob goes on after it.
NackAndGoOn(w) ==
    /\ wpc[w] = "got"
    /\ stage # "running"
    /\ HandBack(key[job[w]])
    /\ wpc' = [wpc EXCEPT ![w] = "taken"]
    /\ UNCHANGED <<stage, ctxDone, key, callVars, waitVars, queue, job, target, result,
                   outcome, fate>>

\* The limiter has room for every worker, so Acquire fails only when the
\* context has ended.  The job active under the worker's key may be another's:
\* then that one is queued again though a worker has it, and this one is gone,
\* as it is when none is active.  (A job is active once for each time it was
\* queued, so none waits in two of these goroutines.)
Nack(w) ==
    LET j == job[w]  a == active[key[j]] IN
    /\ wpc[w] = "got"
    /\ stage # "running"
    /\ HandBack(key[j])
    /\ fate' = [c \in Calls |->
           IF c = a /\ a # j THEN "copied"
           ELSE IF c = j /\ a # j /\ fate[j] = "open" THEN "lost"
           ELSE fate[c]]
    /\ NextTurn(w)
    /\ UNCHANGED <<stage, ctxDone, key, callVars, waitVars, queue, outcome>>

\* executeJob takes the Done channel stored for the key.
Take(w) ==
    /\ wpc[w] = "got"
    /\ target' = [target EXCEPT ![w] = pending[key[job[w]]]]
    /\ pending' = [pending EXCEPT ![key[job[w]]] = NoCall]
    /\ wpc' = [wpc EXCEPT ![w] = "taken"]
    /\ UNCHANGED <<stage, ctxDone, key, pc, ret, done, waitVars, queue, active, retry, job,
                   result, outcome, fate>>

\* Mutant of Execute: the result is not sent to the Done channel.
ExecuteWithoutDone(w) ==
    LET j == job[w] IN
    /\ wpc[w] = "taken"
    /\ \E o \in Outcomes :
          /\ outcome' = [outcome EXCEPT ![j] = @ \cup {o}]
          /\ result' = [result EXCEPT ![w] = JobResult(j, o)]
    /\ wpc' = [wpc EXCEPT ![w] = "ran"]
    /\ UNCHANGED <<stage, ctxDone, key, callVars, waitVars, queue, active, retry, job,
                   target, fate>>

\* executeWorkflowDirect runs, its result goes to the Done channel unless
\* there is none or it is full.
Execute(w) ==
    LET j == job[w]  t == target[w] IN
    /\ wpc[w] = "taken"
    /\ \E o \in Outcomes :
          /\ outcome' = [outcome EXCEPT ![j] = @ \cup {o}]
          /\ result' = [result EXCEPT ![w] = JobResult(j, o)]
          /\ done' = IF t # NoCall /\ done[t] = Nothing
                     THEN [done EXCEPT ![t] = DirectResult(j, o)]
                     ELSE done
    /\ wpc' = [wpc EXCEPT ![w] = "ran"]
    /\ UNCHANGED <<stage, ctxDone, key, pc, ret, pending, waitVars, queue, active, retry, job,
                   target, fate>>

\* Mutant of Claim: the waiter is loaded and not deleted.
ClaimLoads(w) ==
    LET k == key[job[w]] IN
    /\ wpc[w] = "ran"
    /\ active' = [active EXCEPT ![k] = NoCall]
    /\ target' = [target EXCEPT ![w] = waiters[k]]
    /\ wpc' = [wpc EXCEPT ![w] = IF waiters[k] = NoCall THEN "unclaimed" ELSE "claimed"]
    /\ UNCHANGED <<stage, ctxDone, key, callVars, waitVars, queue, retry, job, result, outcome,
                   fate>>

\* Acknowledge takes the job off the active ones and claims the waiter.
Claim(w) ==
    LET k == key[job[w]] IN
    /\ wpc[w] = "ran"
    /\ active' = [active EXCEPT ![k] = NoCall]
    /\ target' = [target EXCEPT ![w] = waiters[k]]
    /\ waiters' = [waiters EXCEPT ![k] = NoCall]
    /\ wpc' = [wpc EXCEPT ![w] = IF waiters[k] = NoCall THEN "unclaimed" ELSE "claimed"]
    /\ UNCHANGED <<stage, ctxDone, key, callVars, wait, chanOf, res, chan, completed, queue,
                   retry, job, result, outcome, fate>>

Acknowledged(w) ==
    /\ fate' = [fate EXCEPT ![job[w]] = IF @ = "copied" THEN @ ELSE "acked"]
    /\ NextTurn(w)
    /\ UNCHANGED <<stage, ctxDone, key, callVars, wait, chanOf, res, waiters, queue, active,
                   retry, outcome>>

\* Mutant of Deliver: the channel has no buffer, somebody has to receive.
DeliverUnbuffered(w) ==
    /\ wpc[w] = "claimed"
    /\ \E c \in Calls : wait[c] \in {"select", "drain"} /\ chanOf[c] = target[w]
    /\ chan' = [chan EXCEPT ![target[w]] = result[w]]
    /\ UNCHANGED completed
    /\ Acknowledged(w)

\* Acknowledge sends on the channel it claimed and closes it.
Deliver(w) ==
    /\ wpc[w] = "claimed"
    /\ chan' = [chan EXCEPT ![target[w]] = result[w]]
    /\ UNCHANGED completed
    /\ Acknowledged(w)

\* Acknowledge found no waiter and keeps the result for one to come.
Keep(w) ==
    /\ wpc[w] = "unclaimed"
    /\ completed' = [completed EXCEPT ![key[job[w]]] = result[w]]
    /\ UNCHANGED chan
    /\ Acknowledged(w)

-----------------------------------------------------------------------------
\* The goroutine of Nack, when its timer fires before the distributor closes,
\* and when it does not.
Requeue(c) ==
    /\ c \in retry
    /\ stage # "closed" /\ Len(queue) < QueueSize
    /\ queue' = Append(queue, c)
    /\ retry' = retry \ {c}
    /\ UNCHANGED <<stage, ctxDone, key, callVars, waitVars, active, wpc, job, target,
                   result, outcome, fate>>

GiveUp(c) ==
    /\ c \in retry
    /\ stage = "closed"
    /\ retry' = retry \ {c}
    /\ fate' = [fate EXCEPT ![c] = IF @ = "copied" THEN @ ELSE "lost"]
    /\ UNCHANGED <<stage, ctxDone, key, callVars, waitVars, queue, active, wpc, job, target,
                   result, outcome>>

\* Shutdown: runtimeCtx is cancelled, then dispatcher.Stop sets stopped and
\* closes the distributor, which is one step: what comes between the two is
\* a Submit that finds stopped set, and that may as well come after.
CancelRuntime == stage = "running" /\ stage' = "cancelled"
Close == stage = "cancelled" /\ stage' = "closed"

Shutdown ==
    /\ CancelRuntime \/ Close
    /\ UNCHANGED <<ctxDone, key, callVars, waitVars, workVars>>

WaitResult(c) ==
    Check(c) \/ RegisterWaiter(c) \/ Recheck(c) \/ Unregister(c) \/ Receive(c) \/ Leave(c)

Work(w) ==
    Dequeue(w) \/ Nack(w) \/ Take(w) \/ Execute(w) \/ Claim(w) \/ Deliver(w) \/ Keep(w)

Next ==
    \/ \E c \in Calls : Submit(c)
    \/ \E c \in Calls : Enqueue(c)
    \/ \E c \in Calls : EnqueueFails(c)
    \/ \E c \in Calls : Return(c)
    \/ \E c \in Calls : WaitResult(c)
    \/ \E w \in Workers : Work(w)
    \/ \E w \in Workers : Quit(w)
    \/ \E c \in Calls : Requeue(c)
    \/ \E c \in Calls : GiveUp(c)
    \/ Shutdown

\* Goroutines that can run do, and a shutdown that has begun is finished.
\* Contexts need not end, and nobody has to shut the server down.
Fairness ==
    /\ \A c \in SyncCalls : /\ WF_vars(Return(c) /\ UNCHANGED ctxDone)
                            /\ WF_vars(WaitResult(c) /\ UNCHANGED ctxDone)
    /\ \A c \in Calls : WF_vars(Requeue(c) \/ GiveUp(c))
    /\ \A w \in Workers : WF_vars(Work(w) \/ Quit(w))
    /\ WF_vars(Shutdown /\ stage # "running")

Spec == Init /\ [][Next]_vars

FairSpec == Spec /\ Fairness

-----------------------------------------------------------------------------
\* Calls that share their key with no other call.
Alone(c) == \A d \in Calls \ {c} : key[d] # key[c]

Busy(w) == wpc[w] \notin {"idle", "stopped"}

Results == [job : Calls \cup {NoCall},
            status : {"none", "success", "error", "rejected", "cancelled"}]

TypeOK ==
    /\ stage \in {"running", "cancelled", "closed"}
    /\ key \in [Calls -> Keys]
    /\ pc \in [Calls -> {"idle", "stored", "waiting", "returned"}]
    /\ ctxDone \subseteq Calls
    /\ ret \in [Calls -> Results] /\ res \in [Calls -> Results] /\ done \in [Calls -> Results]
    /\ wait \in [Calls -> {"off", "check", "register", "recheck", "unregister",
                           "select", "drain", "over"}]
    /\ chanOf \in [Calls -> Calls \cup {NoCall}]
    /\ pending \in [Keys -> Calls \cup {NoCall}]
    /\ waiters \in [Keys -> Calls \cup {NoCall}]
    /\ completed \in [Keys -> Results]
    /\ queue \in Seq(Calls) /\ Len(queue) <= QueueSize
    /\ active \in [Keys -> Calls \cup {NoCall}]
    /\ retry \subseteq Calls
    /\ chan \in [Calls -> Results \cup {Open, Closed}]
    /\ wpc \in [Workers -> {"idle", "got", "taken", "ran", "claimed", "unclaimed", "stopped"}]
    /\ job \in [Workers -> Calls \cup {NoCall}]
    /\ target \in [Workers -> Calls \cup {NoCall}]
    /\ result \in [Workers -> Results]
    /\ outcome \in [Calls -> SUBSET Outcomes]
    /\ fate \in [Calls -> {"none", "open", "acked", "lost", "copied"}]

\* A job that was accepted is in the queue, with one worker or about to be
\* requeued, and in one of these places only, whatever else runs under its key.
\* It can be lost, unrun, only once the server goes down; and only then, and
\* only if its execution has been dispatched twice, can it be copied, since
\* Nack knows jobs by their execution.
EachJobOnce ==
    \A c \in Calls :
        /\ fate[c] # "copied" =>
              Cardinality({i \in DOMAIN queue : queue[i] = c})
              + Cardinality({w \in Workers : Busy(w) /\ job[w] = c})
              + Cardinality(retry \cap {c}) = IF fate[c] = "open" THEN 1 ELSE 0
        /\ fate[c] = "lost" => stage # "running" /\ outcome[c] = {}
        /\ fate[c] = "copied" => stage # "running" /\ ~Alone(c)

\* Acknowledge never blocks on the channel it sends to and never sends on a
\* closed one, which would take the process down: it has claimed that channel
\* for itself, and nobody sent on it before.
SendSafe ==
    \A w \in Workers : wpc[w] = "claimed" =>
        /\ chan[target[w]] = Open
        /\ \A v \in Workers \ {w} : ~(wpc[v] = "claimed" /\ target[v] = target[w])

\* RunSync returns what became of its own job, over whichever channel, as long
\* as nobody else dispatches the same execution, or the reason why it did not
\* wait for it.  (A refused execution may be returned as a success.)
OwnResult ==
    \A c \in SyncCalls : Alone(c) =>
        /\ ret[c].job = NoCall => ret[c] \in {Nothing, Rejected, Cancelled}
        /\ ret[c] = Cancelled => c \in ctxDone \/ stage = "closed"
        /\ ret[c].job # NoCall =>
              /\ ret[c].job = c
              /\ ret[c].status = "error" => outcome[c] \in {{"failed"}, {"refused"}}
              /\ ret[c].status = "success" => outcome[c] \in {{"ok"}, {"refused"}}

\* What callers are promised of each job, channels and workers left out.
AtWork(c) == \E w \in Workers : wpc[w] = "taken" /\ job[w] = c

Status ==
    [c \in Calls |->
        IF fate[c] = "copied" THEN "exempt"
        ELSE IF AtWork(c) THEN "running"
        ELSE IF outcome[c] # {} THEN "completed"
        ELSE IF fate[c] = "lost" THEN "abandoned"
        ELSE IF fate[c] = "open" THEN "accepted"
        ELSE "none"]

Service == INSTANCE JobService WITH
    Jobs <- Calls,
    Redelivers <- FALSE,
    status <- Status,
    disrupted <- stage # "running"

\* A job that is accepted is run to its end, once, and given up only by a
\* shutdown and only before it was started; unless the shutdown has copied it.
ImplementsService == Service!Spec

\* A RunSync that is alone and waits is never left without somebody who will
\* answer it: a job that was run has left its result in Done; one that was not
\* will find Done, unless a shutdown gave it up; and as long as it was not, its
\* waiter is registered, so that a shutdown can turn the wait away.
SyncAnswered ==
    \A c \in SyncCalls : Alone(c) /\ pc[c] = "waiting" =>
        \/ done[c] # Nothing
        \/ /\ outcome[c] = {}
           /\ \/ Status[c] = "accepted" /\ pending[key[c]] = c
              \/ \E w \in Workers : wpc[w] = "taken" /\ job[w] = c /\ target[w] = c
              \/ fate[c] = "lost" /\ stage # "running"
           /\ wait[c] \notin {"off", "drain"}
           /\ wait[c] \in {"recheck", "select"} => waiters[key[c]] = c

\* A RunSync that is alone with its execution always returns, through the lost
\* wakeup between Acknowledge and WaitResult and through a shutdown at any
\* time, without its client having to go away.
SyncReturns ==
    \A c \in SyncCalls : Alone(c) => (pc[c] = "waiting" ~> pc[c] = "returned")

\* Every accepted job is acknowledged unless the server is shut down, and the
\* workers of a server that is shut down all stop.
JobsServed == \A c \in Calls : fate[c] = "open" ~> fate[c] = "acked" \/ stage # "running"
PoolStops == stage = "closed" ~> \A w \in Workers : wpc[w] = "stopped"
=============================================================================
