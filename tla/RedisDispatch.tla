---------------------------- MODULE RedisDispatch ----------------------------
(***************************************************************************)
(* Executions dispatched over Redis to several instances: the stream of    *)
(* jobs and its consumer group, and on each instance the worker pool, the  *)
(* keepalive of what it runs, the reaper of what others abandoned, and the *)
(* row that tells a repeated job from a new one (distribution/redis.go,    *)
(* pool.go, executeWorkflowDirect, CleanOrphanedExecutions).               *)
(*                                                                         *)
(* Every command and every MULTI/EXEC is one step of Redis, every          *)
(* statement one of the database.  Time is left out but for one bit of an  *)
(* entry: that it has been idle for ReclaimMinIdle.  An instance that      *)
(* refreshes its entries every KeepaliveInterval, a third of that or less, *)
(* does not let that happen, unless it is stalled.                         *)
(*                                                                         *)
(* Left out are the results, which only the callers of RunSync read, and   *)
(* entries that cannot be parsed.  BatchSize is 1, as it is everywhere.    *)
(* A command whose reply is lost is sent again, by default up to three     *)
(* times; it matters where the command adds an entry or delivers one.      *)
(* Handing a job back (Nack) only happens once the pool's context is       *)
(* cancelled, and under a cancelled context nothing is sent to Redis: all  *)
(* it does is forget the job.                                              *)
(***************************************************************************)
EXTENDS Naturals, Sequences, FiniteSets

CONSTANTS
    Instances,
    Workers,
    Home,        \* the instance of each worker
    Jobs,        \* executions, which name their jobs
    Suspending,  \* those whose workflow may suspend them, once
    NoOne,
    MaxEntries,  \* bound: entries ever added to the stream
    MaxFaults    \* bound: failures from outside

ASSUME RedisAssumption ==
    /\ Home \in [Workers -> Instances]
    /\ Suspending \subseteq Jobs
    /\ NoOne \notin Instances
    /\ MaxEntries \in Nat \ {0}
    /\ MaxFaults \in Nat

VARIABLES
    stream,    \* entries in the order they were added; an entry's index is
               \* its identifier, and it keeps its place when it is deleted
    row,       \* status of each execution in the database
    up,        \* "up", "closing" or "down"
    active,    \* of each instance: job -> the entry it last took for it, or 0
    claimed,   \* of each reaper: the entries it has claimed and not recovered
    wpc,       \* of each worker: where it is, and with which entry
    wentry,
    disturbed, \* history: executions whose job was resumed, added twice, or
               \* not kept alive by a stalled instance
    abandoned, \* history: executions whose job was not added, not let run or
               \* not recorded, while their rows say that they run
    unread,    \* history: executions whose row was terminal when the guard
               \* could not read it
    faults

queueVars == <<stream, active, claimed>>
workVars == <<wpc, wentry>>
history == <<disturbed, abandoned, unread, faults>>
vars == <<queueVars, row, up, workVars, history>>

Ids == DOMAIN stream
Terminal == {"settled", "orphaned"}
Places == {"new", "pending", "gone"}

Entry(j) == [job |-> j, place |-> "new", owner |-> NoOne, idle |-> FALSE]
CanAdd == Len(stream) < MaxEntries
Job(e) == stream[e].job
Own(i) == {active[i][j] : j \in Jobs} \ {0}
Present(e) == stream[e].place # "gone"
Working(i) == {w \in Workers : Home[w] = i /\ wpc[w] # "idle"}

Init ==
    /\ stream = <<>>
    /\ row = [j \in Jobs |-> "absent"]
    /\ up = [i \in Instances |-> "up"]
    /\ active = [i \in Instances |-> [j \in Jobs |-> 0]]
    /\ claimed = [i \in Instances |-> {}]
    /\ wpc = [w \in Workers |-> "idle"]
    /\ wentry = [w \in Workers |-> 0]
    /\ disturbed = {}
    /\ abandoned = {}
    /\ unread = {}
    /\ faults = 0

Fault == faults < MaxFaults /\ faults' = faults + 1

\* What fails on an instance that is closing fails because of that.
FaultAt(i) == IF up[i] = "closing" THEN UNCHANGED faults ELSE Fault

-----------------------------------------------------------------------------
\* What the commands do to the stream.

Deliver(s, e, i) == [s EXCEPT ![e] = [@ EXCEPT !.place = "pending", !.owner = i]]

\* XACK and XDEL; of an entry that is gone nothing changes.
Delete(s, e) ==
    [s EXCEPT ![e] = [@ EXCEPT !.place = "gone", !.owner = NoOne, !.idle = FALSE]]

\* XCLAIM and XAUTOCLAIM of pending entries, whose idle time starts again.
Claim(s, es, i) ==
    [e \in DOMAIN s |-> IF e \in es /\ s[e].place = "pending"
                        THEN [s[e] EXCEPT !.owner = i, !.idle = FALSE]
                        ELSE s[e]]

\* XADD of the job to a stream that else would be s.  It is sent again if its
\* reply is lost, alone or with the transaction it belongs to, and adds the
\* job again.
AddOnce(s, j) ==
    /\ stream' = Append(s, Entry(j))
    /\ UNCHANGED faults

AddTwice(s, j) ==
    /\ Len(s) + 1 < MaxEntries
    /\ Fault
    /\ stream' = Append(Append(s, Entry(j)), Entry(j))

Add(s, j) ==
    \/ AddOnce(s, j) /\ UNCHANGED disturbed
    \/ AddTwice(s, j) /\ disturbed' = disturbed \cup {j}

-----------------------------------------------------------------------------
\* Handlers, on any instance.

\* A handler creates the row and enqueues the job.  (What happens between the
\* two is in ExecutionLifecycle.)
Submit(j) ==
    /\ \E i \in Instances : up[i] = "up"
    /\ row[j] = "absent"
    /\ CanAdd
    /\ row' = [row EXCEPT ![j] = "running"]
    /\ Add(stream, j)
    /\ UNCHANGED <<up, active, claimed, workVars, abandoned, unread>>

\* The job is not added, which the handler reports; nobody takes the row back.
SubmitFails(j) ==
    /\ \E i \in Instances : up[i] = "up"
    /\ row[j] = "absent"
    /\ Fault
    /\ row' = [row EXCEPT ![j] = "running"]
    /\ abandoned' = abandoned \cup {j}
    /\ UNCHANGED <<queueVars, up, workVars, disturbed, unread>>

\* The timer or a webhook resumes a waiting execution.  Here this happens once
\* to each; the row goes on saying that it waits.
Resume(j) ==
    /\ \E i \in Instances : up[i] = "up"
    /\ row[j] = "waiting"
    /\ j \notin disturbed
    /\ CanAdd
    /\ disturbed' = disturbed \cup {j}
    /\ AddOnce(stream, j) \/ AddTwice(stream, j)
    /\ UNCHANGED <<row, up, active, claimed, workVars, abandoned, unread>>

-----------------------------------------------------------------------------
\* A worker.  Its instance may be closing, but takes no new job then.

Next1(e) == \A f \in Ids : stream[f].place = "new" => f >= e

\* Dequeue: XREADGROUP delivers the oldest entry, which is kept in active
\* under the name of its job.
Dequeue(w) ==
    \E e \in Ids :
        LET i == Home[w] IN
        /\ wpc[w] = "idle"
        /\ up[i] = "up"
        /\ stream[e].place = "new" /\ Next1(e)
        /\ stream' = Deliver(stream, e, i)
        /\ active' = [active EXCEPT ![i][Job(e)] = e]
        /\ wpc' = [wpc EXCEPT ![w] = "taken"]
        /\ wentry' = [wentry EXCEPT ![w] = e]
        /\ UNCHANGED <<row, up, claimed, history>>

\* The reply of XREADGROUP is lost: the entry is delivered to nobody.
DequeueLost(w) ==
    \E e \in Ids :
        /\ wpc[w] = "idle"
        /\ up[Home[w]] = "up"
        /\ stream[e].place = "new" /\ Next1(e)
        /\ Fault
        /\ stream' = Deliver(stream, e, Home[w])
        /\ UNCHANGED <<row, up, active, claimed, workVars, disturbed, abandoned, unread>>

Goto(w, place) == wpc' = [wpc EXCEPT ![w] = place] /\ UNCHANGED wentry

\* Mutant of Guard: every job that is taken is run.
GuardNothing(w) ==
    /\ wpc[w] = "taken"
    /\ Goto(w, "passed")
    /\ UNCHANGED <<queueVars, row, up, history>>

\* The guard of executeWorkflowDirect drops a job whose row is terminal.
Guard(w) ==
    /\ wpc[w] = "taken"
    /\ Goto(w, IF row[Job(wentry[w])] \in Terminal THEN "ran" ELSE "passed")
    /\ UNCHANGED <<queueVars, row, up, history>>

\* It lets a job pass if the row cannot be read.
GuardUnread(w) ==
    LET j == Job(wentry[w]) IN
    /\ wpc[w] = "taken"
    /\ FaultAt(Home[w])
    /\ Goto(w, "passed")
    /\ unread' = IF row[j] \in Terminal THEN unread \cup {j} ELSE unread
    /\ UNCHANGED <<queueVars, row, up, disturbed, abandoned>>

RunningAt(i, j) ==
    \E w \in Working(i) : wpc[w] = "running" /\ Job(wentry[w]) = j

\* Add, which the register of this instance refuses if it runs the execution
\* already.  A refused job counts as done.
Register(w) ==
    /\ wpc[w] = "passed"
    /\ Goto(w, IF RunningAt(Home[w], Job(wentry[w])) THEN "ran" ELSE "running")
    /\ UNCHANGED <<queueVars, row, up, history>>

\* The job ends and its row stays as it is.  It counts as done all the same,
\* and is acknowledged unless the instance is closing.
EndUnrecorded(w) ==
    /\ FaultAt(Home[w])
    /\ abandoned' = IF up[Home[w]] = "closing" THEN abandoned
                    ELSE abandoned \cup {Job(wentry[w])}
    /\ Goto(w, "ran")
    /\ UNCHANGED <<queueVars, row, up, disturbed, unread>>

\* Add gives up waiting for a permit, or is told that the queue is full.
Refuse(w) == wpc[w] = "passed" /\ EndUnrecorded(w)

\* Neither Finish nor MarkWaiting succeeds within its fifteen seconds.
StoreFails(w) == wpc[w] = "running" /\ EndUnrecorded(w)

\* The run ends and its outcome is stored.
Finish(w) ==
    /\ wpc[w] = "running"
    /\ row' = [row EXCEPT ![Job(wentry[w])] = "settled"]
    /\ Goto(w, "ran")
    /\ UNCHANGED <<queueVars, up, history>>

\* The run suspends the execution; a resumed one is not suspended again here.
Suspend(w) ==
    LET j == Job(wentry[w]) IN
    /\ wpc[w] = "running"
    /\ j \in Suspending \ disturbed
    /\ row' = [row EXCEPT ![j] = "waiting"]
    /\ Goto(w, "ran")
    /\ UNCHANGED <<queueVars, up, history>>

\* What Acknowledge and Nack do first: LoadAndDelete.
Forget(w) == active' = [active EXCEPT ![Home[w]][Job(wentry[w])] = 0]

Idle(w) ==
    /\ wpc' = [wpc EXCEPT ![w] = "idle"]
    /\ wentry' = [wentry EXCEPT ![w] = 0]

\* Mutant of Acknowledge: the job is acknowledged before it is run.
AcknowledgeEarly(w) ==
    LET e == active[Home[w]][Job(wentry[w])] IN
    /\ wpc[w] \in {"ran", "taken"}
    /\ up[Home[w]] = "up"
    /\ Forget(w)
    /\ stream' = IF e = 0 THEN stream ELSE Delete(stream, e)
    /\ IF wpc[w] = "ran" THEN Idle(w) ELSE Goto(w, "passed")
    /\ UNCHANGED <<row, up, claimed, history>>

\* Acknowledge deletes the entry that active has under the job's name.
Acknowledge(w) ==
    LET e == active[Home[w]][Job(wentry[w])] IN
    /\ wpc[w] = "ran"
    /\ up[Home[w]] = "up"
    /\ Forget(w)
    /\ stream' = IF e = 0 THEN stream ELSE Delete(stream, e)
    /\ Idle(w)
    /\ UNCHANGED <<row, up, claimed, history>>

\* Its transaction fails, as it does once the client is closed.
AcknowledgeFails(w) ==
    /\ wpc[w] = "ran"
    /\ FaultAt(Home[w])
    /\ Forget(w)
    /\ Idle(w)
    /\ UNCHANGED <<stream, row, up, claimed, disturbed, abandoned, unread>>

\* The pool is cancelled between Dequeue and the job: Nack, to no effect.
Nack(w) ==
    /\ wpc[w] = "taken"
    /\ up[Home[w]] = "closing"
    /\ Forget(w)
    /\ Idle(w)
    /\ UNCHANGED <<stream, row, up, claimed, history>>

-----------------------------------------------------------------------------
\* Keepalive and reaper.

Refreshed(e) == up[stream[e].owner] # "down" /\ e \in Own(stream[e].owner)

\* A reaper recovers what it claimed, or gives up, within ReclaimInterval, half
\* of ReclaimMinIdle.
BeingRecovered(e) == e \in claimed[stream[e].owner]

\* Nobody has refreshed the entry for ReclaimMinIdle.  (An instance that is
\* closing no longer refreshes any, but is gone before that time is over.)
GoIdle(e) ==
    /\ stream[e].place = "pending"
    /\ ~stream[e].idle
    /\ ~Refreshed(e)
    /\ ~BeingRecovered(e)
    /\ stream' = [stream EXCEPT ![e].idle = TRUE]
    /\ UNCHANGED <<row, up, active, claimed, workVars, history>>

\* The same of one that its instance should have refreshed.
Stall(e) ==
    /\ stream[e].place = "pending"
    /\ ~stream[e].idle
    /\ Refreshed(e)
    /\ up[stream[e].owner] = "up"
    /\ Fault
    /\ stream' = [stream EXCEPT ![e].idle = TRUE]
    /\ disturbed' = disturbed \cup {Job(e)}
    /\ UNCHANGED <<row, up, active, claimed, workVars, abandoned, unread>>

\* refreshActive, where it changes something.
Keepalive(i) ==
    /\ up[i] = "up"
    /\ stream' = Claim(stream, Own(i), i)
    /\ stream' # stream
    /\ UNCHANGED <<row, up, active, claimed, workVars, history>>

\* Mutant of AutoClaim: a reaper only looks after what its own instance left.
AutoClaimOwn(i) ==
    LET idle == {e \in Ids : stream[e].idle /\ stream[e].owner = i} IN
    /\ up[i] = "up"
    /\ claimed[i] = {}
    /\ idle # {}
    /\ stream' = Claim(stream, idle, i)
    /\ claimed' = [claimed EXCEPT ![i] = idle \ Own(i)]
    /\ UNCHANGED <<row, up, active, workVars, history>>

\* reclaimAbandoned claims what is idle, except that it leaves its own alone.
AutoClaim(i) ==
    LET idle == {e \in Ids : stream[e].idle} IN
    /\ up[i] = "up"
    /\ claimed[i] = {}
    /\ idle # {}
    /\ stream' = Claim(stream, idle, i)
    /\ claimed' = [claimed EXCEPT ![i] = idle \ Own(i)]
    /\ UNCHANGED <<row, up, active, workVars, history>>

\* Mutant of Recover: the abandoned entry is deleted and not added again.
RecoverDrops(i) ==
    \E e \in claimed[i] :
        /\ up[i] = "up"
        /\ CanAdd
        /\ stream' = Delete(stream, e)
        /\ claimed' = [claimed EXCEPT ![i] = @ \ {e}]
        /\ UNCHANGED <<row, up, active, workVars, history>>

\* recoverAbandoned: the job is added again and the old entry is deleted, be
\* it still there or not.
Recover(i) ==
    \E e \in claimed[i] :
        /\ up[i] = "up"
        /\ CanAdd
        /\ Add(Delete(stream, e), Job(e))
        /\ claimed' = [claimed EXCEPT ![i] = @ \ {e}]
        /\ UNCHANGED <<row, up, active, workVars, abandoned, unread>>

\* Its transaction fails.
RecoverFails(i) ==
    \E e \in claimed[i] :
        /\ up[i] = "up"
        /\ Fault
        /\ claimed' = [claimed EXCEPT ![i] = @ \ {e}]
        /\ UNCHANGED <<stream, row, up, active, workVars, disturbed, abandoned, unread>>

-----------------------------------------------------------------------------
\* Instances end and start.

\* Stop: the client is closed, keepalive and reaper end, running jobs go on
\* until they notice that they are cancelled.
Close(i) ==
    /\ up[i] = "up"
    /\ Fault
    /\ up' = [up EXCEPT ![i] = "closing"]
    /\ claimed' = [claimed EXCEPT ![i] = {}]
    /\ UNCHANGED <<stream, row, active, workVars, disturbed, abandoned, unread>>

\* The process ends, in a crash or after a shutdown.
Die(i) ==
    /\ \/ up[i] = "up" /\ Fault
       \/ up[i] = "closing" /\ UNCHANGED faults
    /\ up' = [up EXCEPT ![i] = "down"]
    /\ active' = [active EXCEPT ![i] = [j \in Jobs |-> 0]]
    /\ claimed' = [claimed EXCEPT ![i] = {}]
    /\ wpc' = [w \in Workers |-> IF Home[w] = i THEN "idle" ELSE wpc[w]]
    /\ wentry' = [w \in Workers |-> IF Home[w] = i THEN 0 ELSE wentry[w]]
    /\ UNCHANGED <<stream, row, disturbed, abandoned, unread>>

\* An instance starts again.  It takes every execution that is recorded as
\* running for an orphan, those of other instances and of the queue included.
Restart(i) ==
    /\ up[i] = "down"
    /\ up' = [up EXCEPT ![i] = "up"]
    /\ row' = [j \in Jobs |-> IF row[j] = "running" THEN "orphaned" ELSE row[j]]
    /\ UNCHANGED <<queueVars, workVars, history>>

Next ==
    \/ \E j \in Jobs : Submit(j) \/ SubmitFails(j) \/ Resume(j)
    \/ \E w \in Workers :
        \/ Dequeue(w) \/ DequeueLost(w) \/ Guard(w) \/ GuardUnread(w) \/ Register(w)
        \/ Refuse(w) \/ Finish(w) \/ Suspend(w) \/ StoreFails(w) \/ Acknowledge(w)
        \/ AcknowledgeFails(w) \/ Nack(w)
    \/ \E e \in Ids : GoIdle(e) \/ Stall(e)
    \/ \E i \in Instances :
        \/ Keepalive(i) \/ AutoClaim(i) \/ Recover(i) \/ RecoverFails(i)
        \/ Close(i) \/ Die(i) \/ Restart(i)

Spec == Init /\ [][Next]_vars

\* Workers and reapers go on, runs end, time passes, what is closing ends.
\* Nobody need start an instance that is down, or submit or resume anything.
Fairness ==
    /\ \A w \in Workers :
        WF_vars(Dequeue(w) \/ Guard(w) \/ Register(w) \/ Finish(w) \/ Acknowledge(w))
    /\ WF_vars(\E e \in Ids : GoIdle(e))
    /\ \A i \in Instances :
        WF_vars(AutoClaim(i) \/ Recover(i) \/ (up[i] = "closing" /\ Die(i)))

FairSpec == Spec /\ Fairness

-----------------------------------------------------------------------------
TypeOK ==
    /\ stream \in Seq([job : Jobs, place : Places, owner : Instances \cup {NoOne},
                       idle : BOOLEAN])
    /\ Len(stream) <= MaxEntries
    /\ \A e \in Ids : (stream[e].owner # NoOne) <=> (stream[e].place = "pending")
    /\ row \in [Jobs -> {"absent", "running", "waiting"} \cup Terminal]
    /\ up \in [Instances -> {"up", "closing", "down"}]
    /\ active \in [Instances -> [Jobs -> {0} \cup Ids]]
    /\ claimed \in [Instances -> SUBSET Ids]
    /\ wpc \in [Workers -> {"idle", "taken", "passed", "running", "ran"}]
    /\ wentry \in [Workers -> {0} \cup Ids]
    /\ \A w \in Workers : wpc[w] = "idle" <=> wentry[w] = 0
    /\ disturbed \subseteq Jobs /\ abandoned \subseteq Jobs /\ unread \subseteq Jobs
    /\ faults \in 0..MaxFaults

Listed(j) == \E e \in Ids : Job(e) = j
Kept(j) == \E e \in Ids : Present(e) /\ Job(e) = j
RunsOf(j) == {w \in Workers : wpc[w] = "running" /\ Job(wentry[w]) = j}

\* A job stays in the stream until its row says how it ended or that it waits:
\* no crash, shutdown, lost reply or failed transaction loses it, nor does an
\* instance die between two steps of recovering it for another.  What does lose
\* it is a permit that is refused or an outcome that is not stored.
NoJobLost ==
    \A j \in Jobs \ (disturbed \cup abandoned) :
        row[j] = "running" => Kept(j)

\* The workflow is not run by two instances at once, although its job may be
\* delivered any number of times; nor is it run again after it has ended, unless
\* the guard could not read that it had.
NotRunTwice ==
    \A j \in Jobs \ disturbed :
        /\ Cardinality(RunsOf(j)) <= 1
        /\ row[j] = "settled" /\ j \notin unread => RunsOf(j) = {}

\* What submitters are promised of each job, the stream and the instances left
\* out.  A job that neither runs nor has an entry while its row says that it
\* runs is left to the next restart.
AtWork(j) == \E w \in Workers : wpc[w] \in {"passed", "running"} /\ Job(wentry[w]) = j

Status ==
    [j \in Jobs |->
        IF j \in disturbed \cup unread THEN "exempt"
        ELSE IF AtWork(j) THEN "running"
        ELSE IF ~Listed(j) THEN "none"
        ELSE IF row[j] = "running" /\ Kept(j) THEN "accepted"
        ELSE IF row[j] = "waiting" THEN "suspended"
        ELSE IF row[j] = "settled" THEN "completed"
        ELSE "abandoned"]

Service == INSTANCE JobService WITH
    Redelivers <- TRUE,
    status <- Status,
    disrupted <- faults > 0

\* A job that is accepted is run once unless something fails; a failure may have
\* it run again or abandoned, but not once it is settled or abandoned.
ImplementsService == Service!Spec

\* Every accepted job whose end is recorded at all is settled as long as some
\* instance is up, and the stream does not keep what is done.
SomeoneUp == \E i \in Instances : up[i] = "up"
JobsSettle ==
    \A j \in Jobs :
        row[j] = "running" ~> row[j] # "running" \/ j \in disturbed \cup abandoned \/ ~SomeoneUp
StreamDrains == []<>((\A e \in Ids : ~Present(e)) \/ ~SomeoneUp)

\* What the comments of the reaper promise: work that was accepted is done,
\* also if the instance that did it crashes and another one takes over.
InFlightKept ==
    \A j \in Jobs \ abandoned :
        row[j] = "orphaned" => Kept(j) \/ RunsOf(j) # {}
=============================================================================
