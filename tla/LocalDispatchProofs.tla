------------------------ MODULE LocalDispatchProofs ------------------------
(***************************************************************************)
(* Proofs about LocalDispatch for any calls, executions, workers and size  *)
(* of the queue: its type invariant, that each job is in one place and run *)
(* once unless a shutdown copies it, that Acknowledge sends on open        *)
(* channels only, that RunSync returns what became of its own job and is   *)
(* not left without an answer, and that the whole implements JobService.   *)
(***************************************************************************)
EXTENDS LocalDispatch, FiniteSetTheorems, SequenceTheorems, TLAPS

\* The jobs in the queue, and that none is there twice.
QueuedJobs == {queue[i] : i \in DOMAIN queue}
NoRepeat == \A i, k \in DOMAIN queue : queue[i] = queue[k] => i = k

BusyWorkers == {w \in Workers : Busy(w)}

\* A goroutine of WaitResult that looks at a channel has one.
Wired ==
    \A c \in Calls : wait[c] \in {"recheck", "select", "drain"} => chanOf[c] \in Calls

\* An open job is in one of three places, in one copy.  Elsewhere there are only
\* copied jobs, with workers in any number, and never twice where they wait.
\* What is active is a job of its key that does not wait, which is why Nack
\* cannot put it there a second time.
Placed ==
    /\ NoRepeat /\ QueuedJobs \cap retry = {}
    /\ \A c \in QueuedJobs \cup retry : fate[c] \in {"open", "copied"}
    /\ \A w \in BusyWorkers :
          /\ job[w] \in Calls /\ fate[job[w]] \in {"open", "copied"}
          /\ fate[job[w]] = "open" =>
                /\ job[w] \notin QueuedJobs /\ job[w] \notin retry
                /\ \A v \in BusyWorkers : job[v] = job[w] => v = w
    /\ \A c \in Calls : fate[c] = "open" =>
          c \in QueuedJobs \cup retry \cup {job[w] : w \in BusyWorkers}
    /\ \A k \in Keys : active[k] # NoCall =>
          /\ active[k] \notin QueuedJobs /\ active[k] \notin retry
          /\ fate[active[k]] # "none" /\ key[active[k]] = k

\* What was not run has no outcome, what was not accepted is nowhere, and only
\* a shutdown loses anything or copies it, if its execution has another job.
Unrun ==
    /\ \A c \in QueuedJobs \cup retry : fate[c] = "open" => outcome[c] = {}
    /\ \A w \in Workers :
          wpc[w] \in {"got", "taken"} /\ fate[job[w]] = "open" => outcome[job[w]] = {}
    /\ \A c \in Calls : fate[c] \in {"none", "lost"} => outcome[c] = {}
    /\ \A c \in Calls : pc[c] \in {"idle", "stored"} => fate[c] = "none" /\ wait[c] = "off"
    /\ \A c \in Calls : fate[c] \in {"lost", "copied"} => stage # "running"
    /\ \A c \in Calls : fate[c] = "copied" => \E d \in Calls \ {c} : key[d] = key[c]
    /\ \A c \in Calls : fate[c] # "copied" => outcome[c] = {} \/ \E o \in Outcomes : outcome[c] = {o}

\* A channel that waits to be claimed is open and not claimed; one that is
\* claimed is open and claimed once; before it is registered it is neither.
Channels ==
    /\ \A k \in Keys : waiters[k] # NoCall =>
          /\ key[waiters[k]] = k
          /\ chan[waiters[k]] = Open
          /\ wait[waiters[k]] \notin {"off", "check", "register"}
          /\ \A w \in Workers : wpc[w] = "claimed" => target[w] # waiters[k]
    /\ \A c \in Calls : wait[c] \in {"off", "check", "register"} =>
          /\ chan[c] = Open
          /\ \A w \in Workers : wpc[w] = "claimed" => target[w] # c
    /\ \A w \in Workers : wpc[w] = "claimed" => target[w] \in Calls
    /\ SendSafe

IInv == TypeOK /\ Wired /\ Placed /\ Unrun /\ Channels

-----------------------------------------------------------------------------
LEMMA QueueTyped ==
    ASSUME TypeOK
    PROVE  /\ Len(queue) \in Nat /\ DOMAIN queue = 1..Len(queue)
           /\ \A i \in DOMAIN queue : queue[i] \in Calls
           /\ QueuedJobs \subseteq Calls
<1>1. queue \in Seq(Calls)
    BY DEF TypeOK
<1>2. Len(queue) \in Nat /\ DOMAIN queue = 1..Len(queue)
    BY <1>1, LenProperties
<1>3. \A i \in DOMAIN queue : queue[i] \in Calls
    BY <1>1, <1>2, ElementOfSeq
<1> QED BY <1>2, <1>3 DEF QueuedJobs

LEMMA AppendEffect ==
    ASSUME TypeOK, NoRepeat, NEW c \in Calls, c \notin QueuedJobs, Len(queue) < QueueSize,
           queue' = Append(queue, c)
    PROVE  /\ queue' \in Seq(Calls) /\ Len(queue') <= QueueSize
           /\ NoRepeat' /\ QueuedJobs' = QueuedJobs \cup {c}
<1>1. queue \in Seq(Calls) /\ Len(queue) \in Nat /\ DOMAIN queue = 1..Len(queue)
    BY QueueTyped DEF TypeOK
<1>2. /\ queue' \in Seq(Calls) /\ Len(queue') = Len(queue) + 1
      /\ \A i \in 1..Len(queue) : queue'[i] = queue[i]
      /\ queue'[Len(queue) + 1] = c
    BY <1>1, AppendProperties
<1>3. DOMAIN queue' = 1..(Len(queue) + 1)
    BY <1>2, LenProperties
<1>4. Len(queue') <= QueueSize
    BY <1>1, <1>2, DispatchAssumption
<1>5. DOMAIN queue' = DOMAIN queue \cup {Len(queue) + 1}
    BY <1>1, <1>3
<1>6. QueuedJobs' = QueuedJobs \cup {c}
    BY <1>1, <1>2, <1>5 DEF QueuedJobs
<1>7. NoRepeat'
    BY <1>1, <1>2, <1>5 DEF NoRepeat, QueuedJobs
<1> QED BY <1>2, <1>4, <1>6, <1>7

LEMMA TailEffect ==
    ASSUME TypeOK, NoRepeat, queue # << >>, queue' = Tail(queue)
    PROVE  /\ queue' \in Seq(Calls) /\ Len(queue') <= QueueSize
           /\ Head(queue) \in QueuedJobs /\ Head(queue) \in Calls
           /\ NoRepeat' /\ QueuedJobs' = QueuedJobs \ {Head(queue)}
<1>1. queue \in Seq(Calls) /\ Len(queue) \in Nat /\ DOMAIN queue = 1..Len(queue)
    BY QueueTyped DEF TypeOK
<1>2. Len(queue) > 0
    BY <1>1, EmptySeq
<1>3. /\ Head(queue) \in Calls /\ Head(queue) = queue[1]
      /\ queue' \in Seq(Calls) /\ Len(queue') = Len(queue) - 1
      /\ \A i \in 1..(Len(queue) - 1) : queue'[i] = queue[i + 1]
    BY <1>1, <1>2, HeadTailProperties
<1>4. DOMAIN queue' = 1..(Len(queue) - 1)
    BY <1>3, LenProperties
<1>5. Len(queue') <= QueueSize
    BY <1>1, <1>3, DispatchAssumption DEF TypeOK
<1>6. 1 \in DOMAIN queue
    BY <1>1, <1>2
<1>7. Head(queue) \in QueuedJobs
    BY <1>3, <1>6 DEF QueuedJobs
<1>8. \A i \in DOMAIN queue' : i + 1 \in DOMAIN queue /\ i + 1 # 1 /\ queue'[i] = queue[i + 1]
    BY <1>1, <1>3, <1>4
<1>9. NoRepeat'
    BY <1>1, <1>4, <1>8 DEF NoRepeat
<1>10. \A k \in DOMAIN queue : k # 1 => k - 1 \in DOMAIN queue' /\ queue'[k - 1] = queue[k]
    BY <1>1, <1>3, <1>4
<1>11. QueuedJobs' = QueuedJobs \ {Head(queue)}
    <2>1. ASSUME NEW c \in QueuedJobs'
          PROVE  c \in QueuedJobs \ {Head(queue)}
        <3>1. PICK i \in DOMAIN queue' : c = queue'[i]
            BY DEF QueuedJobs
        <3> QED BY <1>3, <1>6, <1>8, <3>1 DEF QueuedJobs, NoRepeat
    <2>2. ASSUME NEW c \in QueuedJobs, c # Head(queue)
          PROVE  c \in QueuedJobs'
        <3>1. PICK k \in DOMAIN queue : c = queue[k]
            BY DEF QueuedJobs
        <3>2. k # 1
            BY <1>3, <2>2, <3>1
        <3> QED BY <1>10, <3>1, <3>2 DEF QueuedJobs
    <2> QED BY <2>1, <2>2
<1> QED BY <1>3, <1>5, <1>7, <1>9, <1>11

LEMMA QueuedIn ==
    ASSUME TypeOK
    PROVE  QueuedJobs \cup retry \subseteq Calls
BY QueueTyped DEF TypeOK

-----------------------------------------------------------------------------
\* What is left of each part of the invariant by a step that does not touch it.

Early(c) == wait[c] \in {"off", "check", "register"}

LEMMA PlacedFrame ==
    ASSUME Placed, UNCHANGED <<queue, retry, fate, key>>, BusyWorkers' = BusyWorkers,
           \A w \in BusyWorkers : job'[w] = job[w],
           \A k \in Keys : active'[k] \in {active[k], NoCall}
    PROVE  Placed'
<1>1. QueuedJobs' = QueuedJobs
    BY DEF QueuedJobs
<1>2. NoRepeat'
    BY DEF NoRepeat, Placed
<1>3. {job[w] : w \in BusyWorkers}' = {job[w] : w \in BusyWorkers}
    OBVIOUS
<1>4. \A k \in Keys : active'[k] # NoCall => active'[k] = active[k] /\ active[k] # NoCall
    OBVIOUS
<1> QED BY <1>1, <1>2, <1>3, <1>4 DEF Placed

LEMMA UnrunFrame ==
    ASSUME Unrun, UNCHANGED <<queue, retry, outcome, fate, wpc, job, key>>,
           stage = "running" \/ stage' # "running",
           \A c \in Calls : pc'[c] \in {"idle", "stored"} =>
               pc[c] \in {"idle", "stored"} /\ (wait[c] = "off" => wait'[c] = "off")
    PROVE  Unrun'
<1>1. QueuedJobs' = QueuedJobs
    BY DEF QueuedJobs
<1>2. \A c \in Calls : fate'[c] \in {"lost", "copied"} => stage' # "running"
    BY DEF Unrun
<1> QED BY <1>1, <1>2 DEF Unrun

LEMMA ChannelsFrame ==
    ASSUME TypeOK, Channels, UNCHANGED <<key, chan>>,
           \A w \in Workers : wpc'[w] = "claimed" => wpc[w] = "claimed" /\ target'[w] = target[w],
           \A c \in Calls : Early(c)' => Early(c),
           \A k \in Keys : waiters'[k] = NoCall \/ waiters'[k] = waiters[k]
    PROVE  Channels'
<1>1. ASSUME NEW k \in Keys, waiters'[k] # NoCall
      PROVE  /\ key'[waiters'[k]] = k
             /\ chan'[waiters'[k]] = Open
             /\ wait'[waiters'[k]] \notin {"off", "check", "register"}
             /\ \A w \in Workers : wpc'[w] = "claimed" => target'[w] # waiters'[k]
    BY <1>1 DEF Channels, TypeOK, Early
<1>2. ASSUME NEW c \in Calls, wait'[c] \in {"off", "check", "register"}
      PROVE  /\ chan'[c] = Open
             /\ \A w \in Workers : wpc'[w] = "claimed" => target'[w] # c
    BY <1>2 DEF Channels, Early
<1>3. \A w \in Workers : wpc'[w] = "claimed" => target'[w] \in Calls
    BY DEF Channels
<1>4. SendSafe'
    BY DEF Channels, SendSafe
<1> QED BY <1>1, <1>2, <1>3, <1>4 DEF Channels

-----------------------------------------------------------------------------
LEMMA InitInductive ==
    Init => IInv
<1> SUFFICES ASSUME Init PROVE IInv
    OBVIOUS
<1>1. queue = << >> /\ QueuedJobs = {} /\ DOMAIN queue = {}
    BY DEF Init, QueuedJobs
<1>2. BusyWorkers = {}
    BY DEF Init, BusyWorkers, Busy
<1>3. TypeOK
    <2>1. queue \in Seq(Calls) /\ Len(queue) <= QueueSize
        BY <1>1, EmptySeq, DispatchAssumption
    <2>2. key \in [Calls -> Keys]
        BY DispatchAssumption DEF Init
    <2>3. Nothing \in Results
        BY DEF Nothing, Results
    <2> QED BY <2>1, <2>2, <2>3 DEF Init, TypeOK
<1>4. Wired
    BY DEF Init, Wired
<1>5. Placed
    BY <1>1, <1>2 DEF Init, Placed, NoRepeat
<1>6. Unrun
    BY <1>1 DEF Init, Unrun
<1>7. Channels
    BY DispatchAssumption DEF Init, Channels, SendSafe
<1> QED BY <1>3, <1>4, <1>5, <1>6, <1>7 DEF IInv

-----------------------------------------------------------------------------
\* The caller.

LEMMA ErrorsTyped ==
    /\ Nothing \in Results /\ Rejected \in Results
    /\ Cancelled \in Results /\ ZeroResult \in Results
BY DEF Nothing, Rejected, Cancelled, ZeroResult, Results

LEMMA JobResultTyped ==
    ASSUME NEW j \in Calls
    PROVE  \A o : JobResult(j, o) \in Results /\ DirectResult(j, o) \in Results
BY DEF JobResult, DirectResult, Results

LEMMA SubmitPreserves ==
    ASSUME IInv, NEW c \in Calls, Submit(c)
    PROVE  IInv'
<1> USE DEF IInv
<1>1. TypeOK'
    <2>1. pc' \in [Calls -> {"idle", "stored", "waiting", "returned"}]
        BY DEF Submit, TypeOK
    <2>2. ret' \in [Calls -> Results]
        BY ErrorsTyped DEF Submit, TypeOK
    <2>3. pending' \in [Keys -> Calls \cup {NoCall}]
        BY DEF Submit, TypeOK
    <2> QED BY <2>1, <2>2, <2>3 DEF Submit, TypeOK, waitVars, workVars
<1>2. Wired'
    BY DEF Submit, Wired, waitVars
<1>3. Placed'
    BY PlacedFrame DEF Submit, BusyWorkers, Busy, workVars
<1>4. Unrun'
    BY UnrunFrame DEF Submit, TypeOK, waitVars, workVars
<1>5. Channels'
    BY ChannelsFrame DEF Submit, Early, waitVars, workVars
<1> QED BY <1>1, <1>2, <1>3, <1>4, <1>5

LEMMA EnqueueFailsPreserves ==
    ASSUME IInv, NEW c \in Calls, EnqueueFails(c)
    PROVE  IInv'
<1> USE DEF IInv
<1>1. TypeOK'
    BY ErrorsTyped DEF EnqueueFails, ContextEnds, TypeOK, callVars, waitVars, workVars
<1>2. Wired'
    BY DEF EnqueueFails, Wired, waitVars
<1>3. Placed'
    BY PlacedFrame DEF EnqueueFails, BusyWorkers, Busy, workVars
<1>4. Unrun'
    BY UnrunFrame DEF EnqueueFails, TypeOK, waitVars, workVars
<1>5. Channels'
    BY ChannelsFrame DEF EnqueueFails, Early, waitVars, workVars
<1> QED BY <1>1, <1>2, <1>3, <1>4, <1>5

LEMMA ReturnPreserves ==
    ASSUME IInv, NEW c \in Calls, Return(c)
    PROVE  IInv'
<1> USE DEF IInv
<1>1. TypeOK'
    BY ErrorsTyped DEF Return, ContextEnds, TypeOK, callVars, waitVars, workVars
<1>2. Wired'
    BY DEF Return, Wired, waitVars
<1>3. Placed'
    BY PlacedFrame DEF Return, BusyWorkers, Busy, workVars
<1>4. Unrun'
    BY UnrunFrame DEF Return, TypeOK, waitVars, workVars
<1>5. Channels'
    BY ChannelsFrame DEF Return, Early, waitVars, workVars
<1> QED BY <1>1, <1>2, <1>3, <1>4, <1>5

LEMMA EnqueuePreserves ==
    ASSUME IInv, NEW c \in Calls, Enqueue(c)
    PROVE  IInv'
<1> USE DEF IInv
<1>1. /\ fate[c] = "none" /\ c \notin QueuedJobs \cup retry \cup {job[w] : w \in BusyWorkers}
      /\ outcome[c] = {} /\ \A k \in Keys : active[k] # NoCall => active[k] # c
    BY DEF Enqueue, Unrun, Placed
<1>2. /\ queue' \in Seq(Calls) /\ Len(queue') <= QueueSize
      /\ NoRepeat' /\ QueuedJobs' = QueuedJobs \cup {c}
    BY <1>1, AppendEffect DEF Enqueue, Placed
<1>3. BusyWorkers' = BusyWorkers /\ job' = job /\ wpc' = wpc
    BY DEF Enqueue, BusyWorkers, Busy
<1>4. fate' = [fate EXCEPT ![c] = "open"] /\ fate \in [Calls -> {"none", "open", "acked", "lost", "copied"}]
    BY DEF Enqueue, TypeOK
<1>5. TypeOK'
    BY <1>2 DEF Enqueue, TypeOK
<1>6. Wired'
    BY DEF Enqueue, Wired, TypeOK
<1>7. Placed'
    <2>1. \A d \in Calls : fate'[d] = "open" <=> fate[d] = "open" \/ d = c
        BY <1>4
    <2>2. {job[w] : w \in BusyWorkers}' = {job[w] : w \in BusyWorkers}
        BY <1>3
    <2>3. retry' = retry /\ active' = active /\ key' = key
        BY DEF Enqueue
    <2>4. \A d \in Calls : d # c => fate'[d] = fate[d]
        BY <1>4
    <2>5. fate'[c] = "open"
        BY <1>4
    <2>6. QueuedJobs \cup retry \subseteq Calls
        BY QueuedIn
    <2>7. \A d \in Calls : fate'[d] \in {"open", "copied"} <=> fate[d] \in {"open", "copied"} \/ d = c
        BY <2>4, <2>5
    <2>8. \A k \in Keys : active'[k] # NoCall =>
              /\ active'[k] \notin QueuedJobs' /\ active'[k] \notin retry'
              /\ fate'[active'[k]] # "none" /\ key'[active'[k]] = k
        BY <1>1, <1>2, <2>3, <2>4 DEF Placed, TypeOK
    <2>9. \A w \in BusyWorkers : job[w] \in Calls /\ job[w] # c /\ fate'[job[w]] = fate[job[w]]
        BY <1>1, <2>4 DEF Placed
    <2> QED BY <1>1, <1>2, <1>3, <2>1, <2>2, <2>3, <2>6, <2>7, <2>8, <2>9 DEF Placed
<1>8. Unrun'
    <2>1. outcome' = outcome /\ stage' = stage /\ retry' = retry /\ key' = key
        BY DEF Enqueue
    <2>2. \A d \in Calls : pc'[d] \in {"idle", "stored"} =>
              d # c /\ pc[d] = pc'[d] /\ wait'[d] = wait[d] /\ fate'[d] = fate[d]
        BY <1>4 DEF Enqueue, TypeOK
    <2>3. \A d \in Calls : d # c => fate'[d] = fate[d]
        BY <1>4
    <2>4. fate'[c] = "open" /\ QueuedJobs \cup retry \subseteq Calls
        BY <1>4, QueuedIn
    <2>5. \A w \in Workers : wpc[w] \in {"got", "taken"} =>
              job[w] \in Calls /\ job[w] # c /\ fate'[job[w]] = fate[job[w]]
        BY <1>1, <2>3 DEF Placed, BusyWorkers, Busy
    <2> QED BY <1>1, <1>2, <1>3, <2>1, <2>2, <2>3, <2>4, <2>5 DEF Unrun
<1>9. Channels'
    <2>1. wait[c] = "off"
        BY DEF Enqueue, Unrun
    <2>2. \A d \in Calls : Early(d)' => Early(d)
        BY <2>1 DEF Early, Enqueue, TypeOK
    <2> QED BY <2>2, ChannelsFrame DEF Enqueue
<1> QED BY <1>5, <1>6, <1>7, <1>8, <1>9

-----------------------------------------------------------------------------
\* WaitResult: none of its steps touches a job.

LEMMA WaitKeepsJobs ==
    ASSUME Placed, Unrun, TypeOK, NEW c \in Calls, wait[c] # "off",
           UNCHANGED <<stage, key, callVars, workVars>>,
           \A d \in Calls \ {c} : wait'[d] = wait[d]
    PROVE  Placed' /\ Unrun'
<1>1. Placed'
    BY PlacedFrame DEF BusyWorkers, Busy, workVars
<1>2. \A d \in Calls : pc'[d] \in {"idle", "stored"} =>
          pc[d] \in {"idle", "stored"} /\ (wait[d] = "off" => wait'[d] = "off")
    BY DEF callVars
<1>3. Unrun'
    BY <1>2, UnrunFrame DEF workVars
<1> QED BY <1>1, <1>3

LEMMA CheckPreserves ==
    ASSUME IInv, NEW c \in Calls, Check(c)
    PROVE  IInv'
<1> USE DEF IInv
<1>1. key[c] \in Keys
    BY DEF TypeOK
<1>2. TypeOK'
    <2>1. wait' \in [Calls -> {"off", "check", "register", "recheck", "unregister",
                              "select", "drain", "over"}]
        <3>1. wait' \in {[wait EXCEPT ![c] = "over"], [wait EXCEPT ![c] = "register"]}
            BY DEF Check, WaitOver
        <3> QED BY <3>1 DEF TypeOK
    <2>2. chanOf' \in [Calls -> Calls \cup {NoCall}]
        BY DEF Check, WaitOver, TypeOK
    <2>3. res' \in [Calls -> Results]
        <3>1. res' \in {res, [res EXCEPT ![c] = completed[key[c]]]}
            BY DEF Check, WaitOver
        <3>2. completed[key[c]] \in Results
            BY <1>1 DEF TypeOK
        <3> QED BY <3>1, <3>2 DEF TypeOK
    <2>4. /\ waiters' \in [Keys -> Calls \cup {NoCall}] /\ completed' \in [Keys -> Results]
          /\ chan' \in [Calls -> Results \cup {Open, Closed}] /\ ctxDone' \subseteq Calls
        BY ErrorsTyped DEF Check, WaitOver, TypeOK
    <2> QED BY <2>1, <2>2, <2>3, <2>4 DEF Check, TypeOK, callVars, workVars
<1>3. Wired'
    BY <1>1 DEF Check, WaitOver, Wired, TypeOK
<1>4. Placed' /\ Unrun'
    BY WaitKeepsJobs DEF Check, WaitOver, TypeOK
<1>5. Channels'
    <2>1. \A d \in Calls : Early(d)' => Early(d)
        BY DEF Check, WaitOver, Early, TypeOK
    <2>2. \A k \in Keys : waiters'[k] = NoCall \/ waiters'[k] = waiters[k]
        BY DEF Check, WaitOver, TypeOK
    <2> QED BY <2>1, <2>2, ChannelsFrame DEF Check, WaitOver, workVars
<1> QED BY <1>2, <1>3, <1>4, <1>5

LEMMA RegisterWaiterPreserves ==
    ASSUME IInv, NEW c \in Calls, RegisterWaiter(c)
    PROVE  IInv'
<1> USE DEF IInv
<1>1. key[c] \in Keys
    BY DEF TypeOK
<1>2. TypeOK'
    BY <1>1, ErrorsTyped, JobResultTyped DEF RegisterWaiter, TypeOK, callVars, workVars
<1>3. Wired'
    BY <1>1 DEF RegisterWaiter, Wired, TypeOK
<1>4. Placed' /\ Unrun'
    BY WaitKeepsJobs DEF RegisterWaiter, TypeOK
<1>5. Channels'
    <2>1. /\ key' = key /\ chan' = chan /\ wpc' = wpc /\ target' = target
          /\ wait[c] = "register" /\ wait' = [wait EXCEPT ![c] = "recheck"]
          /\ wait \in [Calls -> {"off", "check", "register", "recheck", "unregister",
                                 "select", "drain", "over"}]
        BY DEF RegisterWaiter, TypeOK, workVars
    <2>2. \A d \in Calls : Early(d)' => Early(d) /\ d # c
        BY <2>1 DEF Early
    <2>3. \A k \in Keys : waiters'[k] = waiters[k] \/ (waiters'[k] = c /\ k = key[c])
        <3>1. PICK x \in Keys : x = key[c]
            BY <1>1
        <3>2. PICK y \in {c, waiters[x]} : waiters' = [waiters EXCEPT ![x] = y]
            BY <3>1 DEF RegisterWaiter
        <3>3. waiters \in [Keys -> Calls \cup {NoCall}]
            BY DEF TypeOK
        <3>4. \A k \in Keys : waiters'[k] = IF k = x THEN y ELSE waiters[k]
            BY <3>2, <3>3
        <3> QED BY <3>1, <3>2, <3>4
    <2>4. ASSUME NEW k \in Keys, waiters'[k] # NoCall
          PROVE  /\ key'[waiters'[k]] = k
                 /\ chan'[waiters'[k]] = Open
                 /\ wait'[waiters'[k]] \notin {"off", "check", "register"}
                 /\ \A w \in Workers : wpc'[w] = "claimed" => target'[w] # waiters'[k]
        <3>1. CASE waiters'[k] = c /\ k = key[c]
            BY <2>1, <3>1 DEF Channels
        <3>2. CASE waiters'[k] = waiters[k]
            <4>1. waiters[k] \in Calls
                BY <2>4, <3>2 DEF TypeOK
            <4> QED BY <2>1, <2>2, <2>4, <3>2, <4>1 DEF Channels, Early
        <3> QED BY <2>3, <3>1, <3>2
    <2>5. \A d \in Calls : wait'[d] \in {"off", "check", "register"} =>
              /\ chan'[d] = Open
              /\ \A w \in Workers : wpc'[w] = "claimed" => target'[w] # d
        BY <2>1, <2>2 DEF Channels, Early
    <2>6. SendSafe' /\ \A w \in Workers : wpc'[w] = "claimed" => target'[w] \in Calls
        BY <2>1 DEF Channels, SendSafe
    <2> QED BY <2>4, <2>5, <2>6 DEF Channels
<1> QED BY <1>2, <1>3, <1>4, <1>5

LEMMA RecheckPreserves ==
    ASSUME IInv, NEW c \in Calls, Recheck(c)
    PROVE  IInv'
<1> USE DEF IInv
<1>1. key[c] \in Keys
    BY DEF TypeOK
<1>2. TypeOK'
    <2>1. wait' \in [Calls -> {"off", "check", "register", "recheck", "unregister",
                              "select", "drain", "over"}]
        <3>1. wait' \in {[wait EXCEPT ![c] = "unregister"], [wait EXCEPT ![c] = "select"]}
            BY DEF Recheck
        <3> QED BY <3>1 DEF TypeOK
    <2>2. res' \in [Calls -> Results]
        BY <1>1 DEF Recheck, TypeOK
    <2>3. completed' \in [Keys -> Results]
        BY <1>1, ErrorsTyped DEF Recheck, TypeOK
    <2> QED BY <2>1, <2>2, <2>3 DEF Recheck, TypeOK, callVars, workVars
<1>3. Wired'
    BY <1>1 DEF Recheck, Wired, TypeOK
<1>4. Placed' /\ Unrun'
    BY WaitKeepsJobs DEF Recheck, TypeOK
<1>5. Channels'
    <2>1. \A d \in Calls : Early(d)' => Early(d)
        BY DEF Recheck, Early, TypeOK
    <2>2. \A k \in Keys : waiters'[k] = NoCall \/ waiters'[k] = waiters[k]
        BY DEF Recheck, TypeOK
    <2> QED BY <2>1, <2>2, ChannelsFrame DEF Recheck, workVars
<1> QED BY <1>2, <1>3, <1>4, <1>5

LEMMA UnregisterPreserves ==
    ASSUME IInv, NEW c \in Calls, Unregister(c)
    PROVE  IInv'
<1> USE DEF IInv
<1>1. key[c] \in Keys
    BY DEF TypeOK
<1>2. TypeOK'
    <2>1. wait' \in [Calls -> {"off", "check", "register", "recheck", "unregister",
                              "select", "drain", "over"}]
        BY DEF Unregister, WaitOver, TypeOK
    <2>2. chanOf' \in [Calls -> Calls \cup {NoCall}]
        BY DEF Unregister, WaitOver, TypeOK
    <2>3. res' \in [Calls -> Results]
        BY <1>1, ErrorsTyped, JobResultTyped DEF Unregister, WaitOver, TypeOK
    <2>4. /\ waiters' \in [Keys -> Calls \cup {NoCall}] /\ completed' \in [Keys -> Results]
          /\ chan' \in [Calls -> Results \cup {Open, Closed}] /\ ctxDone' \subseteq Calls
        BY DEF Unregister, WaitOver, TypeOK
    <2> QED BY <2>1, <2>2, <2>3, <2>4 DEF Unregister, TypeOK, callVars, workVars
<1>3. Wired'
    BY <1>1 DEF Unregister, WaitOver, Wired, TypeOK
<1>4. Placed' /\ Unrun'
    BY WaitKeepsJobs DEF Unregister, WaitOver, TypeOK
<1>5. Channels'
    <2>1. \A d \in Calls : Early(d)' => Early(d)
        BY DEF Unregister, WaitOver, Early, TypeOK
    <2>2. \A k \in Keys : waiters'[k] = NoCall \/ waiters'[k] = waiters[k]
        BY DEF Unregister, WaitOver, TypeOK
    <2> QED BY <2>1, <2>2, ChannelsFrame DEF Unregister, WaitOver, workVars
<1> QED BY <1>2, <1>3, <1>4, <1>5

LEMMA ReceivePreserves ==
    ASSUME IInv, NEW c \in Calls, Receive(c)
    PROVE  IInv'
<1> USE DEF IInv
<1>1. key[c] \in Keys
    BY DEF TypeOK
<1>2. TypeOK'
    <2>1. wait' \in [Calls -> {"off", "check", "register", "recheck", "unregister",
                              "select", "drain", "over"}]
        BY DEF Receive, WaitOver, TypeOK
    <2>2. chanOf' \in [Calls -> Calls \cup {NoCall}]
        BY DEF Receive, WaitOver, TypeOK
    <2>3. res' \in [Calls -> Results]
        <3>1. PICK x \in Calls : x = chanOf[c] /\ chan[x] # Open
            BY DEF Receive, Wired
        <3>2. chan[x] = Closed \/ chan[x] \in Results
            BY <3>1 DEF TypeOK
        <3>3. PICK r \in Results : res' = [res EXCEPT ![c] = r]
            BY <3>1, <3>2, ErrorsTyped, JobResultTyped DEF Receive, WaitOver
        <3> QED BY <3>3 DEF TypeOK
    <2>4. /\ waiters' \in [Keys -> Calls \cup {NoCall}] /\ completed' \in [Keys -> Results]
          /\ chan' \in [Calls -> Results \cup {Open, Closed}] /\ ctxDone' \subseteq Calls
        BY DEF Receive, WaitOver, TypeOK
    <2> QED BY <2>1, <2>2, <2>3, <2>4 DEF Receive, TypeOK, callVars, workVars
<1>3. Wired'
    BY <1>1 DEF Receive, WaitOver, Wired, TypeOK
<1>4. Placed' /\ Unrun'
    BY WaitKeepsJobs DEF Receive, WaitOver, TypeOK
<1>5. Channels'
    <2>1. PICK x \in Calls : x = chanOf[c] /\ chan[x] # Open
        BY DEF Receive, Wired
    <2>2. /\ key' = key /\ waiters' = waiters /\ wpc' = wpc /\ target' = target
          /\ \A d \in Calls : d # x => chan'[d] = chan[d]
        BY <2>1 DEF Receive, TypeOK, workVars
    <2>3. \A d \in Calls : Early(d)' => Early(d)
        BY DEF Receive, WaitOver, Early, TypeOK
    <2>4. ASSUME NEW k \in Keys, waiters'[k] # NoCall
          PROVE  /\ key'[waiters'[k]] = k
                 /\ chan'[waiters'[k]] = Open
                 /\ wait'[waiters'[k]] \notin {"off", "check", "register"}
                 /\ \A w \in Workers : wpc'[w] = "claimed" => target'[w] # waiters'[k]
        <3>1. waiters[k] \in Calls
            BY <2>2, <2>4 DEF TypeOK
        <3> QED BY <2>1, <2>2, <2>3, <2>4, <3>1 DEF Channels, Early
    <2>5. \A d \in Calls : wait'[d] \in {"off", "check", "register"} =>
              /\ chan'[d] = Open
              /\ \A w \in Workers : wpc'[w] = "claimed" => target'[w] # d
        BY <2>1, <2>2, <2>3 DEF Channels, Early
    <2>6. SendSafe' /\ \A w \in Workers : wpc'[w] = "claimed" => target'[w] \in Calls
        BY <2>1, <2>2 DEF Channels, SendSafe
    <2> QED BY <2>4, <2>5, <2>6 DEF Channels
<1> QED BY <1>2, <1>3, <1>4, <1>5

LEMMA LeavePreserves ==
    ASSUME IInv, NEW c \in Calls, Leave(c)
    PROVE  IInv'
<1> USE DEF IInv
<1>1. key[c] \in Keys
    BY DEF TypeOK
<1>2. TypeOK'
    <2>1. wait' \in [Calls -> {"off", "check", "register", "recheck", "unregister",
                              "select", "drain", "over"}]
        <3>1. wait' \in {[wait EXCEPT ![c] = "over"], [wait EXCEPT ![c] = "drain"]}
            BY DEF Leave, WaitOver
        <3> QED BY <3>1 DEF TypeOK
    <2>2. chanOf' \in [Calls -> Calls \cup {NoCall}]
        BY DEF Leave, WaitOver, ContextEnds, TypeOK
    <2>3. res' \in [Calls -> Results]
        <3>1. res' \in {res, [res EXCEPT ![c] = Cancelled]}
            BY DEF Leave, WaitOver
        <3> QED BY <3>1, ErrorsTyped DEF TypeOK
    <2>4. /\ waiters' \in [Keys -> Calls \cup {NoCall}] /\ completed' \in [Keys -> Results]
          /\ chan' \in [Calls -> Results \cup {Open, Closed}] /\ ctxDone' \subseteq Calls
        BY DEF Leave, WaitOver, ContextEnds, TypeOK
    <2> QED BY <2>1, <2>2, <2>3, <2>4 DEF Leave, TypeOK, callVars, workVars
<1>3. Wired'
    <2>1. /\ \A d \in Calls \ {c} : wait'[d] = wait[d] /\ chanOf'[d] = chanOf[d]
          /\ wait'[c] = "over" \/ (wait'[c] = "drain" /\ chanOf' = chanOf)
        BY DEF Leave, WaitOver, TypeOK
    <2> QED BY <2>1 DEF Leave, Wired
<1>4. Placed' /\ Unrun'
    BY WaitKeepsJobs DEF Leave, WaitOver, ContextEnds, TypeOK
<1>5. Channels'
    <2>1. \A d \in Calls : Early(d)' => Early(d)
        BY DEF Leave, WaitOver, ContextEnds, Early, TypeOK
    <2>2. \A k \in Keys : waiters'[k] = NoCall \/ waiters'[k] = waiters[k]
        BY DEF Leave, WaitOver, ContextEnds, TypeOK
    <2> QED BY <2>1, <2>2, ChannelsFrame DEF Leave, WaitOver, ContextEnds, workVars
<1> QED BY <1>2, <1>3, <1>4, <1>5

-----------------------------------------------------------------------------
\* The workers.

LEMMA WorkerFreed ==
    ASSUME TypeOK, Placed, NEW w \in Workers, Busy(w), NextTurn(w)
    PROVE  /\ job[w] \in Calls /\ fate[job[w]] \in {"open", "copied"}
           /\ fate[job[w]] = "open" =>
                 /\ job[w] \notin QueuedJobs /\ job[w] \notin retry
                 /\ \A v \in BusyWorkers' : job[v] # job[w]
           /\ BusyWorkers' = BusyWorkers \ {w}
           /\ \A v \in BusyWorkers' : v # w /\ v \in BusyWorkers /\ job'[v] = job[v]
           /\ \A v \in BusyWorkers : job[v] # job[w] => v \in BusyWorkers'
           /\ wpc' \in [Workers -> {"idle", "got", "taken", "ran", "claimed", "unclaimed", "stopped"}]
           /\ job' \in [Workers -> Calls \cup {NoCall}]
           /\ target' \in [Workers -> Calls \cup {NoCall}]
           /\ result' \in [Workers -> Results]
           /\ wpc'[w] \in {"idle", "stopped"}
           /\ \A v \in Workers \ {w} : wpc'[v] = wpc[v] /\ job'[v] = job[v] /\ target'[v] = target[v]
<1>1. w \in BusyWorkers
    BY DEF BusyWorkers
<1>2. /\ wpc' \in [Workers -> {"idle", "got", "taken", "ran", "claimed", "unclaimed", "stopped"}]
      /\ job' \in [Workers -> Calls \cup {NoCall}]
      /\ target' \in [Workers -> Calls \cup {NoCall}]
      /\ result' \in [Workers -> Results]
      /\ wpc'[w] \in {"idle", "stopped"}
      /\ \A v \in Workers \ {w} : wpc'[v] = wpc[v] /\ job'[v] = job[v] /\ target'[v] = target[v]
    BY ErrorsTyped DEF NextTurn, TypeOK
<1>3. BusyWorkers' = BusyWorkers \ {w}
    BY <1>2 DEF BusyWorkers, Busy
<1>4. \A v \in BusyWorkers' : v # w /\ v \in BusyWorkers /\ job'[v] = job[v]
    BY <1>2, <1>3 DEF BusyWorkers
<1>5. /\ job[w] \in Calls /\ fate[job[w]] \in {"open", "copied"}
      /\ fate[job[w]] = "open" =>
            /\ job[w] \notin QueuedJobs /\ job[w] \notin retry
            /\ \A v \in BusyWorkers' : job[v] # job[w]
    BY <1>1, <1>4 DEF Placed
<1>6. \A v \in BusyWorkers : job[v] # job[w] => v \in BusyWorkers'
    BY <1>3
<1> QED BY <1>2, <1>3, <1>4, <1>5, <1>6

LEMMA DequeuePreserves ==
    ASSUME IInv, NEW w \in Workers, Dequeue(w)
    PROVE  IInv'
<1> USE DEF IInv
<1>1. PICK j \in Calls : j = Head(queue) /\ j \in QueuedJobs
    BY TailEffect DEF Dequeue, Placed
<1>2. /\ queue' \in Seq(Calls) /\ Len(queue') <= QueueSize
      /\ NoRepeat' /\ QueuedJobs' = QueuedJobs \ {j}
    BY <1>1, TailEffect DEF Dequeue, Placed
<1>3. /\ wpc[w] = "idle" /\ wpc' = [wpc EXCEPT ![w] = "got"] /\ job' = [job EXCEPT ![w] = j]
      /\ active' = [active EXCEPT ![key[j]] = j]
      /\ UNCHANGED <<stage, key, retry, target, result, outcome, fate>>
    BY <1>1 DEF Dequeue
<1>4. /\ wpc \in [Workers -> {"idle", "got", "taken", "ran", "claimed", "unclaimed", "stopped"}]
      /\ job \in [Workers -> Calls \cup {NoCall}]
    BY DEF TypeOK
<1>5. TypeOK'
    <2>1. active' \in [Keys -> Calls \cup {NoCall}]
        BY <1>3 DEF TypeOK
    <2> QED BY <1>2, <1>3, <2>1 DEF Dequeue, TypeOK, callVars, waitVars
<1>6. Wired'
    BY DEF Dequeue, Wired, waitVars
<1>7. w \notin BusyWorkers /\ BusyWorkers' = BusyWorkers \cup {w}
    BY <1>3, <1>4 DEF BusyWorkers, Busy
<1>8. job'[w] = j /\ \A v \in BusyWorkers : job'[v] = job[v]
    BY <1>3, <1>4, <1>7 DEF BusyWorkers
<1>9. Placed'
    <2>1. {job[v] : v \in BusyWorkers}' = {job[v] : v \in BusyWorkers} \cup {j}
        BY <1>7, <1>8
    <2>2. fate[j] \in {"open", "copied"} /\ j \notin retry /\ QueuedJobs \subseteq Calls
        BY <1>1, QueuedIn DEF Placed
    <2>3. \A v \in BusyWorkers : fate[job[v]] = "open" => job[v] # j
        BY <1>1 DEF Placed
    <2>4. \A v \in BusyWorkers' :
             /\ job'[v] \in Calls /\ fate'[job'[v]] \in {"open", "copied"}
             /\ fate'[job'[v]] = "open" =>
                   /\ job'[v] \notin QueuedJobs' /\ job'[v] \notin retry'
                   /\ \A u \in BusyWorkers' : job'[u] = job'[v] => u = v
        BY <1>2, <1>3, <1>7, <1>8, <2>2, <2>3 DEF Placed
    <2>5. \A k \in Keys : active'[k] = active[k] \/ (k = key[j] /\ active'[k] = j)
        BY <1>3 DEF TypeOK
    <2>6. \A k \in Keys : active'[k] # NoCall =>
              /\ active'[k] \notin QueuedJobs' /\ active'[k] \notin retry'
              /\ fate'[active'[k]] # "none" /\ key'[active'[k]] = k
        BY <1>2, <1>3, <2>2, <2>5 DEF Placed
    <2>7. \A c \in Calls : fate'[c] = "open" =>
              c \in QueuedJobs' \cup retry' \cup {job[v] : v \in BusyWorkers}'
        BY <1>2, <1>3, <2>1 DEF Placed
    <2>8. /\ QueuedJobs' \cap retry' = {}
          /\ \A c \in QueuedJobs' \cup retry' : fate'[c] \in {"open", "copied"}
        BY <1>2, <1>3 DEF Placed
    <2> QED BY <1>2, <2>4, <2>6, <2>7, <2>8 DEF Placed
<1>10. Unrun'
    <2>1. \A v \in Workers : wpc'[v] \in {"got", "taken"} =>
              \/ v = w /\ job'[v] = j
              \/ wpc[v] \in {"got", "taken"} /\ job'[v] = job[v]
        BY <1>3, <1>4
    <2>2. pc' = pc /\ wait' = wait
        BY DEF Dequeue, callVars, waitVars
    <2>3. fate[j] = "open" => outcome[j] = {}
        BY <1>1 DEF Unrun
    <2> QED BY <1>1, <1>2, <1>3, <2>1, <2>2, <2>3 DEF Unrun
<1>11. Channels'
    BY <1>3, <1>4, ChannelsFrame DEF Dequeue, Early, waitVars
<1> QED BY <1>5, <1>6, <1>9, <1>10, <1>11

LEMMA QuitPreserves ==
    ASSUME IInv, NEW w \in Workers, Quit(w)
    PROVE  IInv'
<1> USE DEF IInv
<1>1. TypeOK'
    BY DEF Quit, TypeOK, callVars, waitVars
<1>2. Wired'
    BY DEF Quit, Wired, waitVars
<1>3. BusyWorkers' = BusyWorkers
    BY DEF Quit, BusyWorkers, Busy, TypeOK
<1>4. Placed'
    BY <1>3, PlacedFrame DEF Quit
<1>5. Unrun'
    <2>1. \A v \in Workers : wpc'[v] \in {"got", "taken"} => wpc[v] \in {"got", "taken"}
        BY DEF Quit, TypeOK
    <2>2. QueuedJobs' = QueuedJobs /\ pc' = pc /\ wait' = wait
        BY DEF Quit, QueuedJobs, callVars, waitVars
    <2> QED BY <2>1, <2>2 DEF Unrun, Quit
<1>6. Channels'
    BY ChannelsFrame DEF Quit, Early, TypeOK, waitVars
<1> QED BY <1>1, <1>2, <1>4, <1>5, <1>6

\* What Nack does to the worker's job j and to the job a active under its key.
LEMMA NackEffect ==
    ASSUME IInv, NEW w \in Workers, Nack(w)
    PROVE  \E j \in Calls, a \in Calls \cup {NoCall} :
              /\ j = job[w] /\ a = active[key[j]] /\ fate[j] \in {"open", "copied"}
              /\ fate[j] = "open" => outcome[j] = {}
              /\ a # NoCall => key[a] = key[j] /\ fate[a] # "none"
                               /\ a \notin QueuedJobs /\ a \notin retry
              /\ retry' = IF a = NoCall THEN retry ELSE retry \cup {a}
              /\ active' = [active EXCEPT ![key[j]] = NoCall]
              /\ \A c \in Calls : fate'[c] = IF c = a /\ a # j THEN "copied"
                                             ELSE IF c = j /\ a # j /\ fate[j] = "open" THEN "lost"
                                             ELSE fate[c]
<1> USE DEF IInv
<1>1. wpc[w] = "got" /\ Busy(w) /\ NextTurn(w)
    BY DEF Nack, Busy
<1>2. PICK j \in Calls : j = job[w] /\ fate[j] \in {"open", "copied"}
    BY <1>1, WorkerFreed
<1>3. fate[j] = "open" => outcome[j] = {}
    BY <1>1, <1>2 DEF Unrun
<1>4. PICK k \in Keys : k = key[j]
    BY DEF TypeOK
<1>5. PICK a \in Calls \cup {NoCall} : a = active[k]
    BY DEF TypeOK
<1>6. a # NoCall => key[a] = k /\ fate[a] # "none" /\ a \notin QueuedJobs /\ a \notin retry
    BY <1>5 DEF Placed
<1>7. /\ retry' = IF a = NoCall THEN retry ELSE retry \cup {a}
      /\ active' = [active EXCEPT ![k] = NoCall]
      /\ fate' = [c \in Calls |-> IF c = a /\ a # j THEN "copied"
                                  ELSE IF c = j /\ a # j /\ fate[j] = "open" THEN "lost"
                                  ELSE fate[c]]
    BY <1>2, <1>4, <1>5 DEF Nack, HandBack
<1> QED BY <1>2, <1>3, <1>4, <1>5, <1>6, <1>7

LEMMA NackPreserves ==
    ASSUME IInv, NEW w \in Workers, Nack(w)
    PROVE  IInv'
<1> USE DEF IInv
<1>1. Busy(w) /\ wpc[w] = "got" /\ stage # "running" /\ NextTurn(w)
      /\ UNCHANGED <<stage, key, queue, outcome, pc, wait>>
    BY DEF Nack, Busy, callVars, waitVars
<1>2. PICK j \in Calls, a \in Calls \cup {NoCall} :
         /\ j = job[w] /\ a = active[key[j]] /\ fate[j] \in {"open", "copied"}
         /\ fate[j] = "open" => outcome[j] = {}
         /\ a # NoCall => key[a] = key[j] /\ fate[a] # "none"
                          /\ a \notin QueuedJobs /\ a \notin retry
         /\ retry' = IF a = NoCall THEN retry ELSE retry \cup {a}
         /\ active' = [active EXCEPT ![key[j]] = NoCall]
         /\ \A c \in Calls : fate'[c] = IF c = a /\ a # j THEN "copied"
                                        ELSE IF c = j /\ a # j /\ fate[j] = "open" THEN "lost"
                                        ELSE fate[c]
    BY NackEffect
<1>3. /\ fate[j] = "open" =>
            /\ j \notin QueuedJobs /\ j \notin retry
            /\ \A v \in BusyWorkers' : job[v] # j
      /\ BusyWorkers' = BusyWorkers \ {w}
      /\ \A v \in BusyWorkers' : v # w /\ v \in BusyWorkers /\ job'[v] = job[v]
      /\ \A v \in BusyWorkers : job[v] # j => v \in BusyWorkers'
    BY <1>1, <1>2, WorkerFreed
<1>4. fate \in [Calls -> {"none", "open", "acked", "lost", "copied"}] /\ retry \subseteq Calls
      /\ active \in [Keys -> Calls \cup {NoCall}] /\ key \in [Calls -> Keys]
    BY DEF TypeOK
<1>5. NoCall \notin Calls
    BY DispatchAssumption
<1>6. QueuedJobs' = QueuedJobs /\ QueuedJobs \cup retry \subseteq Calls /\ retry' \subseteq Calls
    BY <1>1, <1>2, QueuedIn DEF QueuedJobs
<1>7. TypeOK'
    <2>1. /\ wpc' \in [Workers -> {"idle", "got", "taken", "ran", "claimed", "unclaimed", "stopped"}]
          /\ job' \in [Workers -> Calls \cup {NoCall}]
          /\ target' \in [Workers -> Calls \cup {NoCall}]
          /\ result' \in [Workers -> Results]
        BY <1>1, WorkerFreed
    <2>2. fate' \in [Calls -> {"none", "open", "acked", "lost", "copied"}]
        BY <1>4 DEF Nack
    <2>3. active' \in [Keys -> Calls \cup {NoCall}]
        BY <1>2, <1>4
    <2> QED BY <1>6, <2>1, <2>2, <2>3 DEF Nack, TypeOK, callVars, waitVars
<1>8. Wired'
    BY DEF Nack, Wired, waitVars
<1>9. \A c \in Calls : c # a /\ c # j => fate'[c] = fate[c]
    BY <1>2
<1>10. /\ a # NoCall => fate'[a] = "copied" \/ (a = j /\ fate'[a] = fate[j])
       /\ fate[j] = "copied" => fate'[j] = "copied"
       /\ fate'[j] = "open" => a = j
    BY <1>2, <1>5
<1>11. Placed'
    <2>1. NoRepeat'
        BY <1>1 DEF NoRepeat, Placed
    <2>2. \A c \in QueuedJobs \cup retry : fate'[c] \in {"open", "copied"}
        <3> SUFFICES ASSUME NEW c \in QueuedJobs \cup retry PROVE fate'[c] \in {"open", "copied"}
            OBVIOUS
        <3>1. c \in Calls /\ c # a /\ fate[c] \in {"open", "copied"}
            BY <1>2, <1>5, <1>6 DEF Placed
        <3>2. CASE c = j
            BY <1>3, <1>10, <3>1, <3>2
        <3>3. CASE c # j
            BY <1>9, <3>1, <3>3
        <3> QED BY <3>2, <3>3
    <2>3. a # NoCall => fate'[a] \in {"open", "copied"}
        BY <1>2, <1>10
    <2>4. \A c \in QueuedJobs' \cup retry' : fate'[c] \in {"open", "copied"}
        BY <1>2, <1>6, <2>2, <2>3
    <2>5. QueuedJobs' \cap retry' = {}
        BY <1>2, <1>6 DEF Placed
    <2>6. ASSUME NEW v \in BusyWorkers'
          PROVE  /\ job'[v] \in Calls /\ fate'[job'[v]] \in {"open", "copied"}
                 /\ fate'[job'[v]] = "open" =>
                       /\ job'[v] \notin QueuedJobs' /\ job'[v] \notin retry'
                       /\ \A u \in BusyWorkers' : job'[u] = job'[v] => u = v
        <3>1. v \in BusyWorkers /\ job'[v] = job[v] /\ job[v] \in Calls
              /\ fate[job[v]] \in {"open", "copied"}
            BY <1>3 DEF Placed
        <3>2. CASE job[v] = j
            BY <1>3, <1>10, <3>1, <3>2
        <3>3. CASE job[v] # j /\ job[v] = a
            BY <1>2, <3>1, <3>3
        <3>4. CASE job[v] # j /\ job[v] # a
            <4>1. fate'[job[v]] = fate[job[v]]
                BY <1>9, <3>1, <3>4
            <4>2. retry' \subseteq retry \cup {a}
                BY <1>2
            <4> QED BY <1>3, <1>6, <3>1, <3>4, <4>1, <4>2 DEF Placed
        <3> QED BY <3>2, <3>3, <3>4
    <2>7. ASSUME NEW c \in Calls, fate'[c] = "open"
          PROVE  c \in QueuedJobs' \cup retry' \cup {job[v] : v \in BusyWorkers}'
        <3>1. CASE c = j
            BY <1>2, <1>5, <1>10, <2>7, <3>1
        <3>2. CASE c # j
            <4>1. c # a /\ fate[c] = "open"
                BY <1>2, <2>7, <3>2
            <4>2. CASE c \in QueuedJobs \cup retry
                BY <1>2, <1>6, <4>2
            <4>3. ASSUME NEW v \in BusyWorkers, c = job[v]
                  PROVE  c \in {job[u] : u \in BusyWorkers}'
                BY <1>3, <3>2, <4>3
            <4> QED BY <4>1, <4>2, <4>3 DEF Placed
        <3> QED BY <3>1, <3>2
    <2>8. ASSUME NEW k \in Keys, active'[k] # NoCall
          PROVE  /\ active'[k] \notin QueuedJobs' /\ active'[k] \notin retry'
                 /\ fate'[active'[k]] # "none" /\ key'[active'[k]] = k
        <3>1. k # key[j] /\ active'[k] = active[k]
            BY <1>2, <1>4, <2>8
        <3>2. PICK b \in Calls : b = active[k]
            BY <1>4, <2>8, <3>1
        <3>3. key[b] = k /\ fate[b] # "none" /\ b \notin QueuedJobs /\ b \notin retry
            BY <2>8, <3>1, <3>2 DEF Placed
        <3>4. b # a /\ b # j
            BY <1>2, <1>5, <3>1, <3>3
        <3> QED BY <1>1, <1>2, <1>6, <1>9, <3>1, <3>2, <3>3, <3>4
    <2> QED BY <2>1, <2>4, <2>5, <2>6, <2>7, <2>8 DEF Placed
<1>12. Unrun'
    <2>1. \A v \in Workers : wpc'[v] \in {"got", "taken"} =>
              wpc[v] \in {"got", "taken"} /\ job'[v] = job[v] /\ v \in BusyWorkers'
        BY <1>1, WorkerFreed DEF BusyWorkers, Busy
    <2>2. \A c \in Calls : fate'[c] = "open" => fate[c] = "open"
        BY <1>2
    <2>3. ASSUME NEW c \in QueuedJobs' \cup retry', fate'[c] = "open"
          PROVE  outcome'[c] = {}
        <3>1. c \in Calls /\ fate[c] = "open"
            BY <1>6, <2>2, <2>3
        <3>2. c \in QueuedJobs \cup retry \/ c = a
            BY <1>2, <1>6, <2>3
        <3>3. c = a => c = j
            BY <1>2, <2>3, <3>1
        <3> QED BY <1>1, <1>2, <3>1, <3>2, <3>3 DEF Unrun
    <2>4. ASSUME NEW v \in Workers, wpc'[v] \in {"got", "taken"}, fate'[job'[v]] = "open"
          PROVE  outcome'[job'[v]] = {}
        <3>1. job[v] \in Calls /\ job'[v] = job[v]
            BY <1>3, <2>1, <2>4 DEF Placed
        <3> QED BY <1>1, <2>1, <2>2, <2>4, <3>1 DEF Unrun
    <2>5. ASSUME NEW c \in Calls
          PROVE  /\ fate'[c] \in {"none", "lost"} => outcome'[c] = {}
                 /\ fate'[c] \in {"lost", "copied"} => stage' # "running"
                 /\ pc'[c] \in {"idle", "stored"} => fate'[c] = "none" /\ wait'[c] = "off"
                 /\ fate'[c] = "copied" => \E d \in Calls \ {c} : key'[d] = key'[c]
                 /\ fate'[c] # "copied" => outcome'[c] = {} \/ \E o \in Outcomes : outcome'[c] = {o}
        <3>1. CASE fate'[c] = fate[c]
            BY <1>1, <3>1 DEF Unrun
        <3>2. CASE c = a /\ a # j /\ fate'[c] = "copied"
            <4>1. key[j] = key[c] /\ j # c /\ fate[c] # "none"
                BY <1>2, <1>5, <3>2
            <4> QED BY <1>1, <3>2, <4>1 DEF Unrun
        <3>3. CASE c = j /\ fate[j] = "open" /\ fate'[c] = "lost"
            BY <1>1, <1>2, <3>3 DEF Unrun
        <3> QED BY <1>2, <3>1, <3>2, <3>3
    <2> QED BY <2>3, <2>4, <2>5 DEF Unrun
<1>13. Channels'
    <2>1. \A v \in Workers : wpc'[v] = "claimed" => wpc[v] = "claimed" /\ target'[v] = target[v]
        BY <1>1, WorkerFreed
    <2> QED BY <2>1, ChannelsFrame DEF Nack, Early, waitVars
<1> QED BY <1>7, <1>8, <1>11, <1>12, <1>13

LEMMA TakePreserves ==
    ASSUME IInv, NEW w \in Workers, Take(w)
    PROVE  IInv'
<1> USE DEF IInv
<1>1. PICK j \in Calls : j = job[w]
    BY DEF Take, Placed, BusyWorkers, Busy
<1>2. TypeOK'
    BY <1>1 DEF Take, TypeOK, waitVars
<1>3. Wired'
    BY DEF Take, Wired, waitVars
<1>4. BusyWorkers' = BusyWorkers
    BY DEF Take, BusyWorkers, Busy, TypeOK
<1>5. Placed'
    BY <1>4, PlacedFrame DEF Take
<1>6. Unrun'
    <2>1. \A v \in Workers : wpc'[v] \in {"got", "taken"} => wpc[v] \in {"got", "taken"}
        BY DEF Take, TypeOK
    <2>2. QueuedJobs' = QueuedJobs /\ pc' = pc /\ wait' = wait
        BY DEF Take, QueuedJobs, waitVars
    <2> QED BY <2>1, <2>2 DEF Unrun, Take
<1>7. Channels'
    <2>1. \A v \in Workers : wpc'[v] = "claimed" => wpc[v] = "claimed" /\ target'[v] = target[v]
        BY DEF Take, TypeOK
    <2> QED BY <2>1, ChannelsFrame DEF Take, Early, waitVars
<1> QED BY <1>2, <1>3, <1>5, <1>6, <1>7

LEMMA ExecutePreserves ==
    ASSUME IInv, NEW w \in Workers, Execute(w)
    PROVE  IInv'
<1> USE DEF IInv
<1>1. PICK j \in Calls :
         /\ j = job[w] /\ fate[j] \in {"open", "copied"} /\ w \in BusyWorkers
         /\ fate[j] = "open" =>
               /\ j \notin QueuedJobs /\ j \notin retry /\ outcome[j] = {}
               /\ \A v \in BusyWorkers : job[v] = j => v = w
    <2>1. w \in BusyWorkers /\ wpc[w] = "taken"
        BY DEF Execute, BusyWorkers, Busy
    <2>2. fate[job[w]] = "open" => outcome[job[w]] = {}
        BY <2>1 DEF Unrun
    <2> QED BY <2>1, <2>2 DEF Placed
<1>2. PICK o \in Outcomes :
         /\ outcome' = [outcome EXCEPT ![j] = outcome[j] \cup {o}]
         /\ result' = [result EXCEPT ![w] = JobResult(j, o)]
         /\ done' = IF target[w] # NoCall /\ done[target[w]] = Nothing
                    THEN [done EXCEPT ![target[w]] = DirectResult(j, o)]
                    ELSE done
    BY <1>1 DEF Execute
<1>3. /\ wpc[w] = "taken" /\ wpc' = [wpc EXCEPT ![w] = "ran"]
      /\ UNCHANGED <<stage, key, queue, active, retry, job, fate, pc, wait>>
    BY DEF Execute, waitVars
<1>4. /\ wpc \in [Workers -> {"idle", "got", "taken", "ran", "claimed", "unclaimed", "stopped"}]
      /\ outcome \in [Calls -> SUBSET Outcomes]
    BY DEF TypeOK
<1>5. TypeOK'
    <2>1. done' \in [Calls -> Results]
        <3>1. done \in [Calls -> Results] /\ (target[w] = NoCall \/ target[w] \in Calls)
            BY DEF TypeOK
        <3>2. DirectResult(j, o) \in Results
            BY JobResultTyped
        <3>3. CASE target[w] \in Calls
            BY <1>2, <3>1, <3>2, <3>3
        <3>4. CASE target[w] = NoCall
            BY <1>2, <3>1, <3>4
        <3> QED BY <3>1, <3>3, <3>4
    <2>2. outcome' \in [Calls -> SUBSET Outcomes]
        BY <1>2, <1>4
    <2>3. result' \in [Workers -> Results]
        <3>1. JobResult(j, o) \in Results
            BY JobResultTyped
        <3> QED BY <1>2, <3>1 DEF TypeOK
    <2> QED BY <1>3, <2>1, <2>2, <2>3 DEF Execute, TypeOK, waitVars
<1>6. Wired'
    BY DEF Execute, Wired, waitVars
<1>7. BusyWorkers' = BusyWorkers
    BY <1>3, <1>4 DEF BusyWorkers, Busy
<1>8. Placed'
    BY <1>3, <1>7, PlacedFrame
<1>9. Unrun'
    <2>1. \A c \in Calls : c # j => outcome'[c] = outcome[c]
        BY <1>2, <1>4
    <2>2. \A v \in Workers : wpc'[v] \in {"got", "taken"} =>
              wpc[v] \in {"got", "taken"} /\ v # w /\ v \in BusyWorkers
        BY <1>3, <1>4 DEF BusyWorkers, Busy
    <2>3. \A v \in BusyWorkers : job[v] \in Calls
        BY DEF Placed
    <2>4. QueuedJobs' = QueuedJobs /\ QueuedJobs \cup retry \subseteq Calls
        BY <1>3, QueuedIn DEF QueuedJobs
    <2>5. fate[j] = "open" => outcome'[j] = {o}
        BY <1>1, <1>2, <1>4
    <2>6. ASSUME NEW c \in QueuedJobs' \cup retry', fate'[c] = "open"
          PROVE  outcome'[c] = {}
        BY <1>1, <1>3, <2>1, <2>4, <2>6 DEF Unrun
    <2>7. ASSUME NEW v \in Workers, wpc'[v] \in {"got", "taken"}, fate'[job'[v]] = "open"
          PROVE  outcome'[job'[v]] = {}
        BY <1>1, <1>3, <2>1, <2>2, <2>3, <2>7 DEF Unrun
    <2>8. ASSUME NEW c \in Calls
          PROVE  /\ fate'[c] \in {"none", "lost"} => outcome'[c] = {}
                 /\ fate'[c] # "copied" => outcome'[c] = {} \/ \E x \in Outcomes : outcome'[c] = {x}
        BY <1>1, <1>3, <2>1, <2>5 DEF Unrun
    <2> QED BY <1>3, <2>6, <2>7, <2>8 DEF Unrun
<1>10. Channels'
    <2>1. \A v \in Workers : wpc'[v] = "claimed" => wpc[v] = "claimed" /\ target'[v] = target[v]
        BY <1>3, <1>4 DEF Execute
    <2> QED BY <2>1, ChannelsFrame DEF Execute, Early, waitVars
<1> QED BY <1>5, <1>6, <1>8, <1>9, <1>10

LEMMA ClaimPreserves ==
    ASSUME IInv, NEW w \in Workers, Claim(w)
    PROVE  IInv'
<1> USE DEF IInv
<1>1. PICK j \in Calls : j = job[w] /\ key[j] \in Keys
    BY DEF Claim, Placed, BusyWorkers, Busy, TypeOK
<1>2. PICK k \in Keys : k = key[j]
    BY <1>1
<1>3. /\ wpc[w] = "ran" /\ target' = [target EXCEPT ![w] = waiters[k]]
      /\ waiters' = [waiters EXCEPT ![k] = NoCall]
      /\ wpc' = [wpc EXCEPT ![w] = IF waiters[k] = NoCall THEN "unclaimed" ELSE "claimed"]
      /\ active' = [active EXCEPT ![k] = NoCall]
      /\ UNCHANGED <<stage, key, queue, retry, job, outcome, fate, pc, wait, chan, chanOf>>
    BY <1>1, <1>2 DEF Claim, callVars
<1>4. /\ wpc \in [Workers -> {"idle", "got", "taken", "ran", "claimed", "unclaimed", "stopped"}]
      /\ target \in [Workers -> Calls \cup {NoCall}]
      /\ waiters \in [Keys -> Calls \cup {NoCall}]
    BY DEF TypeOK
<1>5. TypeOK'
    <2>1. active' \in [Keys -> Calls \cup {NoCall}]
        BY <1>3 DEF TypeOK
    <2>2. /\ wpc' \in [Workers -> {"idle", "got", "taken", "ran", "claimed", "unclaimed", "stopped"}]
          /\ target' \in [Workers -> Calls \cup {NoCall}]
          /\ waiters' \in [Keys -> Calls \cup {NoCall}]
        BY <1>3, <1>4
    <2> QED BY <2>1, <2>2 DEF Claim, TypeOK, callVars
<1>6. Wired'
    BY <1>3 DEF Wired
<1>7. BusyWorkers' = BusyWorkers
    BY <1>3, <1>4 DEF BusyWorkers, Busy
<1>8. Placed'
    <2>1. \A q \in Keys : active'[q] \in {active[q], NoCall}
        BY <1>3 DEF TypeOK
    <2> QED BY <1>3, <1>7, <2>1, PlacedFrame
<1>9. Unrun'
    <2>1. \A v \in Workers : wpc'[v] \in {"got", "taken"} => wpc[v] \in {"got", "taken"}
        BY <1>3, <1>4
    <2>2. QueuedJobs' = QueuedJobs
        BY <1>3 DEF QueuedJobs
    <2> QED BY <1>3, <2>1, <2>2 DEF Unrun
<1>10. Channels'
    <2>1. \A v \in Workers : wpc'[v] = "claimed" =>
              \/ v = w /\ waiters[k] # NoCall /\ target'[v] = waiters[k]
              \/ v # w /\ wpc[v] = "claimed" /\ target'[v] = target[v]
        BY <1>3, <1>4
    <2>2. \A q \in Keys : waiters'[q] # NoCall => q # k /\ waiters'[q] = waiters[q]
        BY <1>3, <1>4
    <2>3. ASSUME NEW q \in Keys, waiters'[q] # NoCall
          PROVE  /\ key'[waiters'[q]] = q
                 /\ chan'[waiters'[q]] = Open
                 /\ wait'[waiters'[q]] \notin {"off", "check", "register"}
                 /\ \A v \in Workers : wpc'[v] = "claimed" => target'[v] # waiters'[q]
        BY <1>3, <2>1, <2>2, <2>3 DEF Channels
    <2>4. \A c \in Calls : wait'[c] \in {"off", "check", "register"} =>
              /\ chan'[c] = Open
              /\ \A v \in Workers : wpc'[v] = "claimed" => target'[v] # c
        BY <1>3, <2>1 DEF Channels
    <2>5. \A v \in Workers : wpc'[v] = "claimed" => target'[v] \in Calls
        BY <1>4, <2>1 DEF Channels
    <2>6. SendSafe'
        BY <1>3, <2>1 DEF Channels, SendSafe
    <2> QED BY <2>3, <2>4, <2>5, <2>6 DEF Channels
<1> QED BY <1>5, <1>6, <1>8, <1>9, <1>10

\* Deliver and Keep end alike.
LEMMA AcknowledgedKeepsJobs ==
    ASSUME TypeOK, Placed, Unrun, NEW w \in Workers, Busy(w), wpc[w] \notin {"got", "taken"},
           Acknowledged(w), pc' = pc
    PROVE  Placed' /\ Unrun'
<1>1. NextTurn(w) /\ UNCHANGED <<stage, key, queue, active, retry, outcome, pc, wait>>
    BY DEF Acknowledged, callVars
<1>2. PICK j \in Calls :
         /\ j = job[w] /\ fate[j] \in {"open", "copied"}
         /\ fate[j] = "open" =>
               /\ j \notin QueuedJobs /\ j \notin retry
               /\ \A v \in BusyWorkers' : job[v] # j
    BY <1>1, WorkerFreed
<1>3. /\ BusyWorkers' = BusyWorkers \ {w}
      /\ \A v \in BusyWorkers' : v # w /\ v \in BusyWorkers /\ job'[v] = job[v]
      /\ \A v \in BusyWorkers : job[v] # j => v \in BusyWorkers'
    BY <1>1, <1>2, WorkerFreed
<1>4. QueuedJobs' = QueuedJobs /\ NoRepeat' /\ QueuedJobs \cup retry \subseteq Calls
    BY <1>1, QueuedIn DEF QueuedJobs, NoRepeat, Placed
<1>5. \A c \in Calls : fate'[c] = IF c = j /\ fate[j] = "open" THEN "acked" ELSE fate[c]
    BY <1>2 DEF Acknowledged, TypeOK
<1>6. Placed'
    <2>1. ASSUME NEW c \in Calls, fate'[c] = "open"
          PROVE  c \in QueuedJobs' \cup retry' \cup {job[v] : v \in BusyWorkers}'
        <3>1. c # j /\ fate[c] = "open"
            BY <1>2, <1>5, <2>1
        <3>2. CASE c \in QueuedJobs \cup retry
            BY <1>1, <1>4, <3>2
        <3>3. ASSUME NEW v \in BusyWorkers, c = job[v]
              PROVE  c \in {job[u] : u \in BusyWorkers}'
            BY <1>3, <3>1, <3>3
        <3> QED BY <3>1, <3>2, <3>3 DEF Placed
    <2>2. \A v \in BusyWorkers' :
             /\ job'[v] \in Calls /\ fate'[job'[v]] \in {"open", "copied"}
             /\ fate'[job'[v]] = "open" =>
                   /\ job'[v] \notin QueuedJobs' /\ job'[v] \notin retry'
                   /\ \A u \in BusyWorkers' : job'[u] = job'[v] => u = v
        BY <1>1, <1>2, <1>3, <1>4, <1>5 DEF Placed
    <2>3. \A c \in QueuedJobs' \cup retry' : fate'[c] \in {"open", "copied"}
        BY <1>1, <1>2, <1>4, <1>5 DEF Placed
    <2>4. \A k \in Keys : active'[k] # NoCall =>
              /\ active'[k] \notin QueuedJobs' /\ active'[k] \notin retry'
              /\ fate'[active'[k]] # "none" /\ key'[active'[k]] = k
        BY <1>1, <1>4, <1>5 DEF Placed, TypeOK
    <2> QED BY <1>1, <1>4, <2>1, <2>2, <2>3, <2>4 DEF Placed
<1>7. Unrun'
    <2>1. \A v \in Workers : wpc'[v] \in {"got", "taken"} =>
              wpc[v] \in {"got", "taken"} /\ job'[v] = job[v] /\ job[v] \in Calls
        BY <1>1, WorkerFreed DEF Placed, BusyWorkers, Busy
    <2>2. ASSUME NEW v \in Workers, wpc'[v] \in {"got", "taken"}, fate'[job'[v]] = "open"
          PROVE  outcome'[job'[v]] = {}
        BY <1>1, <1>5, <2>1, <2>2 DEF Unrun
    <2>3. \A c \in QueuedJobs' \cup retry' : fate'[c] = "open" => outcome'[c] = {}
        BY <1>1, <1>4, <1>5 DEF Unrun
    <2>4. ASSUME NEW c \in Calls
          PROVE  /\ fate'[c] \in {"none", "lost"} => outcome'[c] = {}
                 /\ fate'[c] \in {"lost", "copied"} => stage' # "running"
                 /\ pc'[c] \in {"idle", "stored"} => fate'[c] = "none" /\ wait'[c] = "off"
                 /\ fate'[c] = "copied" => \E d \in Calls \ {c} : key'[d] = key'[c]
                 /\ fate'[c] # "copied" => outcome'[c] = {} \/ \E o \in Outcomes : outcome'[c] = {o}
        BY <1>1, <1>2, <1>5 DEF Unrun
    <2> QED BY <2>2, <2>3, <2>4 DEF Unrun
<1> QED BY <1>6, <1>7

LEMMA AcknowledgedTyped ==
    ASSUME TypeOK, Placed, NEW w \in Workers, Busy(w), Acknowledged(w), pc' = pc, ret' = ret,
           done' = done, pending' = pending,
           chan' \in [Calls -> Results \cup {Open, Closed}],
           completed' \in [Keys -> Results]
    PROVE  TypeOK'
<1>1. /\ wpc' \in [Workers -> {"idle", "got", "taken", "ran", "claimed", "unclaimed", "stopped"}]
      /\ job' \in [Workers -> Calls \cup {NoCall}]
      /\ target' \in [Workers -> Calls \cup {NoCall}]
      /\ result' \in [Workers -> Results]
    BY WorkerFreed DEF Acknowledged
<1>2. fate' \in [Calls -> {"none", "open", "acked", "lost", "copied"}]
    BY DEF Acknowledged, TypeOK
<1> QED BY <1>1, <1>2 DEF Acknowledged, TypeOK

LEMMA DeliverPreserves ==
    ASSUME IInv, NEW w \in Workers, Deliver(w)
    PROVE  IInv'
<1> USE DEF IInv
<1>1. /\ wpc[w] = "claimed" /\ Busy(w) /\ Acknowledged(w) /\ NextTurn(w)
      /\ UNCHANGED <<key, waiters, completed, pc, ret, done, pending, wait, chanOf>>
    BY DEF Deliver, Acknowledged, Busy, callVars
<1>2. PICK t \in Calls, r \in Results : t = target[w] /\ chan' = [chan EXCEPT ![t] = r]
    BY <1>1 DEF Deliver, Channels, TypeOK
<1>3. \A c \in Calls : c # t => chan'[c] = chan[c]
    BY <1>2 DEF TypeOK
<1>4. TypeOK'
    <2>1. chan' \in [Calls -> Results \cup {Open, Closed}]
        BY <1>2 DEF TypeOK
    <2>2. completed' \in [Keys -> Results]
        BY <1>1 DEF TypeOK
    <2> QED BY <1>1, <2>1, <2>2, AcknowledgedTyped
<1>5. Wired'
    BY <1>1 DEF Wired
<1>6. Placed' /\ Unrun'
    BY <1>1, AcknowledgedKeepsJobs
<1>7. Channels'
    <2>1. \A v \in Workers : wpc'[v] = "claimed" =>
              v # w /\ wpc[v] = "claimed" /\ target'[v] = target[v] /\ target[v] # t
        BY <1>1, <1>2, WorkerFreed DEF Channels, SendSafe
    <2>2. \A k \in Keys : waiters[k] # NoCall => waiters[k] \in Calls /\ waiters[k] # t
        BY <1>1, <1>2 DEF Channels, TypeOK
    <2>3. \A c \in Calls : wait[c] \in {"off", "check", "register"} => c # t
        BY <1>1, <1>2 DEF Channels
    <2>4. SendSafe' /\ \A v \in Workers : wpc'[v] = "claimed" => target'[v] \in Calls
        BY <1>3, <2>1 DEF Channels, SendSafe
    <2> QED BY <1>1, <1>3, <2>1, <2>2, <2>3, <2>4 DEF Channels
<1> QED BY <1>4, <1>5, <1>6, <1>7

LEMMA KeepPreserves ==
    ASSUME IInv, NEW w \in Workers, Keep(w)
    PROVE  IInv'
<1> USE DEF IInv
<1>1. /\ wpc[w] = "unclaimed" /\ Busy(w) /\ Acknowledged(w) /\ NextTurn(w)
      /\ UNCHANGED <<key, waiters, chan, pc, ret, done, pending, wait, chanOf>>
    BY DEF Keep, Acknowledged, Busy, callVars
<1>2. TypeOK'
    <2>1. PICK j \in Calls : j = job[w] /\ key[j] \in Keys
        BY <1>1, WorkerFreed DEF TypeOK
    <2>2. completed' \in [Keys -> Results]
        BY <2>1 DEF Keep, TypeOK
    <2>3. chan' \in [Calls -> Results \cup {Open, Closed}]
        BY <1>1 DEF TypeOK
    <2> QED BY <1>1, <2>2, <2>3, AcknowledgedTyped
<1>3. Wired'
    BY <1>1 DEF Wired
<1>4. Placed' /\ Unrun'
    BY <1>1, AcknowledgedKeepsJobs
<1>5. Channels'
    <2>1. \A v \in Workers : wpc'[v] = "claimed" => wpc[v] = "claimed" /\ target'[v] = target[v]
        BY <1>1, WorkerFreed
    <2> QED BY <1>1, <2>1, ChannelsFrame DEF Early
<1> QED BY <1>2, <1>3, <1>4, <1>5

-----------------------------------------------------------------------------
\* The goroutine of Nack, and the shutdown.

LEMMA RequeuePreserves ==
    ASSUME IInv, NEW c \in Calls, Requeue(c)
    PROVE  IInv'
<1> USE DEF IInv
<1>1. c \in retry /\ c \notin QueuedJobs /\ retry' = retry \ {c}
      /\ UNCHANGED <<stage, key, active, outcome, fate, pc, wait, wpc, job>>
    BY DEF Requeue, Placed, callVars, waitVars
<1>2. /\ queue' \in Seq(Calls) /\ Len(queue') <= QueueSize
      /\ NoRepeat' /\ QueuedJobs' = QueuedJobs \cup {c}
    BY <1>1, AppendEffect DEF Requeue, Placed
<1>3. TypeOK'
    BY <1>1, <1>2 DEF Requeue, TypeOK, callVars, waitVars
<1>4. Wired'
    BY DEF Requeue, Wired, waitVars
<1>5. BusyWorkers' = BusyWorkers
    BY <1>1 DEF BusyWorkers, Busy
<1>6. QueuedJobs' \cup retry' = QueuedJobs \cup retry
    BY <1>1, <1>2
<1>7. Placed'
    <2>1. {job[w] : w \in BusyWorkers}' = {job[w] : w \in BusyWorkers}
        BY <1>1, <1>5
    <2>2. QueuedJobs' \cap retry' = {}
        BY <1>1, <1>2 DEF Placed
    <2>3. \A d \in Calls : fate'[d] = "open" =>
              d \in QueuedJobs' \cup retry' \cup {job[w] : w \in BusyWorkers}'
        BY <1>1, <1>6, <2>1 DEF Placed
    <2>4. \A d : d \notin QueuedJobs /\ d \notin retry => d \notin QueuedJobs' /\ d \notin retry'
        BY <1>6
    <2>5. \A w \in BusyWorkers' :
             /\ job'[w] \in Calls /\ fate'[job'[w]] \in {"open", "copied"}
             /\ fate'[job'[w]] = "open" =>
                   /\ job'[w] \notin QueuedJobs' /\ job'[w] \notin retry'
                   /\ \A v \in BusyWorkers' : job'[v] = job'[w] => v = w
        BY <1>1, <1>5, <2>4 DEF Placed
    <2>6. \A k \in Keys : active'[k] # NoCall =>
              /\ active'[k] \notin QueuedJobs' /\ active'[k] \notin retry'
              /\ fate'[active'[k]] # "none" /\ key'[active'[k]] = k
        BY <1>1, <2>4 DEF Placed
    <2>7. \A d \in QueuedJobs' \cup retry' : fate'[d] \in {"open", "copied"}
        BY <1>1, <1>6 DEF Placed
    <2> QED BY <1>2, <2>2, <2>3, <2>5, <2>6, <2>7 DEF Placed
<1>8. Unrun'
    BY <1>1, <1>6 DEF Unrun
<1>9. Channels'
    BY ChannelsFrame DEF Requeue, Early, waitVars
<1> QED BY <1>3, <1>4, <1>7, <1>8, <1>9

LEMMA GiveUpPreserves ==
    ASSUME IInv, NEW c \in Calls, GiveUp(c)
    PROVE  IInv'
<1> USE DEF IInv
<1>1. /\ c \in retry /\ c \notin QueuedJobs /\ retry' = retry \ {c}
      /\ fate[c] \in {"open", "copied"} /\ (fate[c] = "open" => outcome[c] = {})
      /\ stage = "closed"
      /\ UNCHANGED <<stage, key, queue, active, outcome, pc, wait, wpc, job>>
    BY DEF GiveUp, Placed, Unrun, callVars, waitVars
<1>2. \A d \in Calls : fate'[d] = IF d = c /\ fate[c] = "open" THEN "lost" ELSE fate[d]
    BY <1>1 DEF GiveUp, TypeOK
<1>3. TypeOK'
    BY DEF GiveUp, TypeOK, callVars, waitVars
<1>4. Wired'
    BY DEF GiveUp, Wired, waitVars
<1>5. BusyWorkers' = BusyWorkers /\ QueuedJobs' = QueuedJobs
      /\ QueuedJobs \cup retry \subseteq Calls
    BY <1>1, QueuedIn DEF BusyWorkers, Busy, QueuedJobs
<1>6. Placed'
    <2>1. {job[w] : w \in BusyWorkers}' = {job[w] : w \in BusyWorkers}
        BY <1>1, <1>5
    <2>2. NoRepeat'
        BY <1>1 DEF NoRepeat, Placed
    <2>3. \A w \in BusyWorkers : fate[job[w]] = "open" => job[w] # c
        BY <1>1 DEF Placed
    <2>4. \A d \in Calls : fate'[d] = "open" =>
              d \in QueuedJobs' \cup retry' \cup {job[w] : w \in BusyWorkers}'
        BY <1>1, <1>2, <1>5, <2>1 DEF Placed
    <2>5. \A w \in BusyWorkers' :
             /\ job'[w] \in Calls /\ fate'[job'[w]] \in {"open", "copied"}
             /\ fate'[job'[w]] = "open" =>
                   /\ job'[w] \notin QueuedJobs' /\ job'[w] \notin retry'
                   /\ \A v \in BusyWorkers' : job'[v] = job'[w] => v = w
        BY <1>1, <1>2, <1>5, <2>3 DEF Placed
    <2>6. \A k \in Keys : active'[k] # NoCall =>
              /\ active'[k] \notin QueuedJobs' /\ active'[k] \notin retry'
              /\ fate'[active'[k]] # "none" /\ key'[active'[k]] = k
        BY <1>1, <1>2, <1>5 DEF Placed, TypeOK
    <2>7. \A d \in QueuedJobs' \cup retry' : fate'[d] \in {"open", "copied"}
        BY <1>1, <1>2, <1>5 DEF Placed
    <2> QED BY <1>1, <1>5, <2>2, <2>4, <2>5, <2>6, <2>7 DEF Placed
<1>7. Unrun'
    <2>1. ASSUME NEW w \in Workers, wpc'[w] \in {"got", "taken"}, fate'[job'[w]] = "open"
          PROVE  outcome'[job'[w]] = {}
        <3>1. job[w] \in Calls
            BY <1>1, <2>1 DEF Placed, BusyWorkers, Busy
        <3> QED BY <1>1, <1>2, <2>1, <3>1 DEF Unrun
    <2>2. \A d \in QueuedJobs' \cup retry' : fate'[d] = "open" => outcome'[d] = {}
        BY <1>1, <1>2, <1>5 DEF Unrun
    <2>3. ASSUME NEW d \in Calls
          PROVE  /\ fate'[d] \in {"none", "lost"} => outcome'[d] = {}
                 /\ fate'[d] \in {"lost", "copied"} => stage' # "running"
                 /\ pc'[d] \in {"idle", "stored"} => fate'[d] = "none" /\ wait'[d] = "off"
                 /\ fate'[d] = "copied" => \E e \in Calls \ {d} : key'[e] = key'[d]
                 /\ fate'[d] # "copied" => outcome'[d] = {} \/ \E o \in Outcomes : outcome'[d] = {o}
        BY <1>1, <1>2 DEF Unrun
    <2> QED BY <2>1, <2>2, <2>3 DEF Unrun
<1>8. Channels'
    BY ChannelsFrame DEF GiveUp, Early, waitVars
<1> QED BY <1>3, <1>4, <1>6, <1>7, <1>8

LEMMA ShutdownPreserves ==
    ASSUME IInv, Shutdown
    PROVE  IInv'
<1> USE DEF IInv
<1>1. stage' \in {"cancelled", "closed"} /\ UNCHANGED <<ctxDone, key, callVars, waitVars, workVars>>
    BY DEF Shutdown, CancelRuntime, Close
<1>2. TypeOK'
    BY <1>1 DEF TypeOK, callVars, waitVars, workVars
<1>3. Wired'
    BY <1>1 DEF Wired, waitVars
<1>4. Placed'
    BY <1>1, PlacedFrame DEF BusyWorkers, Busy, workVars
<1>5. Unrun'
    BY <1>1, UnrunFrame DEF callVars, waitVars, workVars
<1>6. Channels'
    BY <1>1, ChannelsFrame DEF Early, waitVars, workVars
<1> QED BY <1>2, <1>3, <1>4, <1>5, <1>6

LEMMA StutterPreserves ==
    ASSUME IInv, UNCHANGED vars
    PROVE  IInv'
<1> USE DEF IInv
<1>1. UNCHANGED <<stage, ctxDone, key, callVars, waitVars, workVars>>
    BY DEF vars
<1>2. TypeOK'
    BY <1>1 DEF TypeOK, callVars, waitVars, workVars
<1>3. Wired'
    BY <1>1 DEF Wired, waitVars
<1>4. Placed'
    BY <1>1, PlacedFrame DEF BusyWorkers, Busy, workVars
<1>5. Unrun'
    BY <1>1, UnrunFrame DEF callVars, waitVars, workVars
<1>6. Channels'
    BY <1>1, ChannelsFrame DEF Early, waitVars, workVars
<1> QED BY <1>2, <1>3, <1>4, <1>5, <1>6

LEMMA StepInductive ==
    ASSUME IInv, [Next]_vars
    PROVE  IInv'
<1>1. CASE \E c \in Calls : Submit(c)
    BY <1>1, SubmitPreserves
<1>2. CASE \E c \in Calls : Enqueue(c)
    BY <1>2, EnqueuePreserves
<1>3. CASE \E c \in Calls : EnqueueFails(c)
    BY <1>3, EnqueueFailsPreserves
<1>4. CASE \E c \in Calls : Return(c)
    BY <1>4, ReturnPreserves
<1>5. CASE \E c \in Calls : WaitResult(c)
    BY <1>5, CheckPreserves, RegisterWaiterPreserves, RecheckPreserves, UnregisterPreserves,
       ReceivePreserves, LeavePreserves DEF WaitResult
<1>6. CASE \E w \in Workers : Work(w)
    BY <1>6, DequeuePreserves, NackPreserves, TakePreserves, ExecutePreserves, ClaimPreserves,
       DeliverPreserves, KeepPreserves DEF Work
<1>7. CASE \E w \in Workers : Quit(w)
    BY <1>7, QuitPreserves
<1>8. CASE \E c \in Calls : Requeue(c)
    BY <1>8, RequeuePreserves
<1>9. CASE \E c \in Calls : GiveUp(c)
    BY <1>9, GiveUpPreserves
<1>10. CASE Shutdown
    BY <1>10, ShutdownPreserves
<1>11. CASE UNCHANGED vars
    BY <1>11, StutterPreserves
<1> QED BY <1>1, <1>2, <1>3, <1>4, <1>5, <1>6, <1>7, <1>8, <1>9, <1>10, <1>11 DEF Next

-----------------------------------------------------------------------------
\* The invariant the others follow from, for every number of calls,
\* executions, workers and places in the queue.
THEOREM LocalInductive ==
    Spec => []IInv
<1>1. Init => IInv
    BY InitInductive
<1>2. IInv /\ [Next]_vars => IInv'
    BY StepInductive
<1> QED BY <1>1, <1>2, PTL DEF Spec

\* The dispatcher, its queue, its waiters and its workers keep their types;
\* the queue never holds more than its capacity.
THEOREM LocalTypeCorrect ==
    Spec => []TypeOK
<1>1. IInv => TypeOK
    BY DEF IInv
<1> QED BY <1>1, LocalInductive, PTL

\* Acknowledge sends on an open channel nobody else has claimed, so it neither
\* blocks nor panics.
THEOREM SendSafeHolds ==
    Spec => []SendSafe
<1>1. IInv => SendSafe
    BY DEF IInv, Channels
<1> QED BY <1>1, LocalInductive, PTL

\* A set of at most one element has as many as that.
LEMMA OneOrNone ==
    ASSUME NEW S, NEW x, S = {x} \/ S = {}
    PROVE  Cardinality(S) = IF S = {} THEN 0 ELSE 1
<1>1. Cardinality({}) = 0 /\ Cardinality({x}) = 1
    BY FS_EmptySet, FS_Singleton
<1>2. {x} # {}
    OBVIOUS
<1> QED BY <1>1, <1>2

LEMMA PlacedOnce ==
    IInv => EachJobOnce
<1> SUFFICES ASSUME IInv, NEW c \in Calls
             PROVE  /\ fate[c] # "copied" =>
                          Cardinality({i \in DOMAIN queue : queue[i] = c})
                          + Cardinality({w \in Workers : Busy(w) /\ job[w] = c})
                          + Cardinality(retry \cap {c}) = IF fate[c] = "open" THEN 1 ELSE 0
                    /\ fate[c] = "lost" => stage # "running" /\ outcome[c] = {}
                    /\ fate[c] = "copied" => stage # "running" /\ ~Alone(c)
    BY DEF EachJobOnce
<1> USE DEF IInv
<1>1. fate[c] = "lost" => stage # "running" /\ outcome[c] = {}
    BY DEF Unrun
<1>2. fate[c] = "copied" => stage # "running" /\ ~Alone(c)
    BY DEF Unrun, Alone
<1>3. ASSUME fate[c] # "copied"
      PROVE  Cardinality({i \in DOMAIN queue : queue[i] = c})
             + Cardinality({w \in Workers : Busy(w) /\ job[w] = c})
             + Cardinality(retry \cap {c}) = IF fate[c] = "open" THEN 1 ELSE 0
    <2>1. PICK Q : Q = {i \in DOMAIN queue : queue[i] = c}
        OBVIOUS
    <2>2. PICK B : B = {w \in Workers : Busy(w) /\ job[w] = c}
        OBVIOUS
    <2>3. PICK R : R = retry \cap {c}
        OBVIOUS
    <2>4. Cardinality(Q) = (IF Q = {} THEN 0 ELSE 1) /\ (Q # {} <=> c \in QueuedJobs)
        <3>1. \A i, k \in Q : i = k
            BY <2>1 DEF Placed, NoRepeat
        <3>2. Q # {} <=> c \in QueuedJobs
            BY <2>1 DEF QueuedJobs
        <3>3. Q = {} \/ \E i : Q = {i}
            BY <3>1
        <3>4. Cardinality(Q) = IF Q = {} THEN 0 ELSE 1
            BY <3>3, OneOrNone
        <3> QED BY <3>2, <3>4
    <2>5. \A w \in B : w \in BusyWorkers /\ job[w] = c /\ fate[c] = "open"
        BY <1>3, <2>2 DEF Placed, BusyWorkers
    <2>6. Cardinality(B) = (IF B = {} THEN 0 ELSE 1) /\ (B # {} <=> c \in {job[w] : w \in BusyWorkers})
        <3>1. \A v, w \in B : v = w
            BY <2>5 DEF Placed
        <3>2. B # {} <=> c \in {job[w] : w \in BusyWorkers}
            BY <2>2 DEF BusyWorkers
        <3>3. B = {} \/ \E w : B = {w}
            BY <3>1
        <3>4. Cardinality(B) = IF B = {} THEN 0 ELSE 1
            BY <3>3, OneOrNone
        <3> QED BY <3>2, <3>4
    <2>7. Cardinality(R) = (IF R = {} THEN 0 ELSE 1) /\ (R # {} <=> c \in retry)
        <3>1. R = {} \/ R = {c}
            BY <2>3
        <3>2. Cardinality(R) = IF R = {} THEN 0 ELSE 1
            BY <3>1, OneOrNone
        <3> QED BY <2>3, <3>2
    <2>8. ~(Q # {} /\ B # {}) /\ ~(Q # {} /\ R # {}) /\ ~(B # {} /\ R # {})
        BY <2>4, <2>5, <2>6, <2>7 DEF Placed
    <2>9. fate[c] = "open" <=> Q # {} \/ B # {} \/ R # {}
        BY <1>3, <2>4, <2>5, <2>6, <2>7 DEF Placed
    <2>10. Cardinality(Q) + Cardinality(B) + Cardinality(R) = IF fate[c] = "open" THEN 1 ELSE 0
        BY <2>4, <2>6, <2>7, <2>8, <2>9
    <2> QED BY <2>1, <2>2, <2>3, <2>10
<1> QED BY <1>1, <1>2, <1>3

\* A job that was accepted and not acknowledged is in the queue, with one
\* worker or about to be requeued, in one copy; it is lost only by a shutdown
\* and only before it ran; and it is copied only by a shutdown and only if its
\* execution has been dispatched by another call as well.
THEOREM EachJobOnceHolds ==
    Spec => []EachJobOnce
<1>1. IInv => EachJobOnce
    BY PlacedOnce
<1> QED BY <1>1, LocalInductive, PTL

-----------------------------------------------------------------------------
(***************************************************************************)
(* What RunSync returns.  Everything stored under a key, or found there,   *)
(* is of that key; a call that is alone with its key is therefore answered *)
(* with its own job.                                                       *)
(***************************************************************************)

\* The results there are for a key, and what a call may be answered with: one of
\* those, that its wait was given up, for a reason, or the zero result, which
\* comes from a channel somebody else has read.
Settled ==
    [k \in Keys |->
        {r \in Results : \E j \in Calls : \E o \in outcome[j] :
             key[j] = k /\ (r = JobResult(j, o) \/ r = DirectResult(j, o))}]
Answer ==
    [c \in Calls |->
        Settled[key[c]]
        \cup (IF c \in ctxDone \/ stage = "closed" THEN {Cancelled} ELSE {})
        \cup (IF Alone(c) THEN {} ELSE {ZeroResult})]

PendingKeyed == \A k \in Keys : pending[k] # NoCall => key[pending[k]] = k
CompletedKeyed == \A k \in Keys : completed[k] # Nothing => completed[k] \in Settled[k]
TargetsKeyed ==
    \A w \in Workers :
        /\ (wpc[w] = "taken" /\ target[w] # NoCall) \/ wpc[w] = "claimed" =>
               key[target[w]] = key[job[w]]
        /\ wpc[w] \in {"ran", "claimed", "unclaimed"} =>
               result[w] \in Settled[key[job[w]]] /\ outcome[job[w]] # {}
SharedKeyed ==
    \A c \in Calls : wait[c] \in {"recheck", "select", "drain"} => key[chanOf[c]] = key[c]

\* A channel that is closed has been received from.
SentKeyed ==
    \A x \in Calls :
        /\ chan[x] \notin {Open, Closed} => chan[x] \in Settled[key[x]]
        /\ chan[x] = Closed => \E d \in Calls : key[d] = key[x] /\ wait[d] = "over"

Keyed == PendingKeyed /\ CompletedKeyed /\ TargetsKeyed /\ SharedKeyed /\ SentKeyed

DoneAnswers == \A c \in Calls : done[c] # Nothing => done[c] \in Settled[key[c]]
ResAnswers == \A c \in Calls : wait[c] \in {"unregister", "over"} => res[c] \in Answer[c]
RetAnswers == \A c \in Calls : ret[c] \in {Nothing, Rejected} \/ ret[c] \in Answer[c]

Answers == DoneAnswers /\ ResAnswers /\ RetAnswers

\* Which steps change what.
LEMMA WhoChanges ==
    ASSUME [Next]_vars
    PROVE  /\ UNCHANGED key
           /\ UNCHANGED <<outcome, done>> \/ \E w \in Workers : Execute(w)
           /\ UNCHANGED pending \/ (\E c \in Calls : Submit(c) \/ EnqueueFails(c))
                                \/ \E w \in Workers : Take(w)
           /\ UNCHANGED completed \/ (\E c \in Calls : Check(c) \/ Recheck(c))
                                  \/ \E w \in Workers : Keep(w)
           /\ UNCHANGED <<wpc, target, job, result>> \/ \E w \in Workers : Work(w) \/ Quit(w)
           /\ UNCHANGED <<wait, chanOf, res>> \/ \E c \in Calls : Enqueue(c) \/ WaitResult(c)
           /\ UNCHANGED chan \/ (\E c \in Calls : Receive(c)) \/ \E w \in Workers : Deliver(w)
           /\ UNCHANGED ret \/ \E c \in Calls : Submit(c) \/ EnqueueFails(c) \/ Return(c)
           /\ UNCHANGED stage \/ Shutdown
           /\ UNCHANGED ctxDone \/ \E c \in Calls : EnqueueFails(c) \/ Return(c) \/ Leave(c)
<1>1. CASE \E c \in Calls : Submit(c)
    BY <1>1 DEF Submit, callVars, waitVars, workVars
<1>2. CASE \E c \in Calls : Enqueue(c)
    BY <1>2 DEF Enqueue, callVars, waitVars, workVars
<1>3. CASE \E c \in Calls : EnqueueFails(c)
    BY <1>3 DEF EnqueueFails, callVars, waitVars, workVars
<1>4. CASE \E c \in Calls : Return(c)
    BY <1>4 DEF Return, callVars, waitVars, workVars
<1>5. CASE \E c \in Calls : WaitResult(c)
    <2>1. PICK c \in Calls : WaitResult(c)
        BY <1>5
    <2>2. CASE Check(c)
        BY <2>1, <2>2 DEF Check, callVars, waitVars, workVars
    <2>3. CASE RegisterWaiter(c)
        BY <2>1, <2>3 DEF RegisterWaiter, callVars, waitVars, workVars
    <2>4. CASE Recheck(c)
        BY <2>1, <2>4 DEF Recheck, callVars, waitVars, workVars
    <2>5. CASE Unregister(c)
        BY <2>1, <2>5 DEF Unregister, callVars, waitVars, workVars
    <2>6. CASE Receive(c)
        BY <2>1, <2>6 DEF Receive, callVars, waitVars, workVars
    <2>7. CASE Leave(c)
        BY <2>1, <2>7 DEF Leave, callVars, waitVars, workVars
    <2> QED BY <2>1, <2>2, <2>3, <2>4, <2>5, <2>6, <2>7 DEF WaitResult
<1>6. CASE \E w \in Workers : Work(w)
    <2>1. PICK w \in Workers : Work(w)
        BY <1>6
    <2>2. CASE Dequeue(w)
        BY <2>1, <2>2 DEF Dequeue, callVars, waitVars, workVars
    <2>3. CASE Nack(w)
        BY <2>1, <2>3 DEF Nack, callVars, waitVars, workVars
    <2>4. CASE Take(w)
        BY <2>1, <2>4 DEF Take, callVars, waitVars, workVars
    <2>5. CASE Execute(w)
        <3>1. UNCHANGED <<key, pending, completed, wait, chanOf, res, chan, ret, stage, ctxDone>>
            BY <2>5 DEF Execute, callVars, waitVars, workVars
        <3> QED BY <2>1, <2>5, <3>1
    <2>6. CASE Claim(w)
        BY <2>1, <2>6 DEF Claim, callVars, waitVars, workVars
    <2>7. CASE Deliver(w)
        <3>1. UNCHANGED <<key, outcome, done, pending, completed, wait, chanOf, res, ret, stage, ctxDone>>
            BY <2>7 DEF Deliver, Acknowledged, callVars, waitVars, workVars
        <3> QED BY <2>1, <2>7, <3>1
    <2>8. CASE Keep(w)
        <3>1. UNCHANGED <<key, outcome, done, pending, wait, chanOf, res, chan, ret, stage, ctxDone>>
            BY <2>8 DEF Keep, Acknowledged, callVars, waitVars, workVars
        <3> QED BY <2>1, <2>8, <3>1
    <2> QED BY <2>1, <2>2, <2>3, <2>4, <2>5, <2>6, <2>7, <2>8 DEF Work
<1>7. CASE \E w \in Workers : Quit(w)
    BY <1>7 DEF Quit, callVars, waitVars, workVars
<1>8. CASE \E c \in Calls : Requeue(c)
    BY <1>8 DEF Requeue, callVars, waitVars, workVars
<1>9. CASE \E c \in Calls : GiveUp(c)
    BY <1>9 DEF GiveUp, callVars, waitVars, workVars
<1>10. CASE Shutdown
    BY <1>10 DEF Shutdown, callVars, waitVars, workVars
<1>11. CASE UNCHANGED vars
    BY <1>11 DEF vars, callVars, waitVars, workVars
<1> QED BY <1>1, <1>2, <1>3, <1>4, <1>5, <1>6, <1>7, <1>8, <1>9, <1>10, <1>11 DEF Next

\* What has been run stays run, and the reasons for giving up stay.
LEMMA AnswersStay ==
    ASSUME IInv, [Next]_vars
    PROVE  /\ \A j \in Calls : outcome[j] \subseteq outcome'[j]
           /\ \A k \in Keys : Settled[k] \subseteq Settled'[k]
           /\ \A c \in Calls : Answer[c] \subseteq Answer'[c]
<1>1. key' = key /\ key \in [Calls -> Keys]
    BY WhoChanges DEF IInv, TypeOK
<1>2. \A j \in Calls : outcome[j] \subseteq outcome'[j]
    <2>1. CASE UNCHANGED outcome
        BY <2>1
    <2>2. ASSUME NEW w \in Workers, Execute(w)
          PROVE  \A j \in Calls : outcome[j] \subseteq outcome'[j]
        <3>1. PICK o \in Outcomes : outcome' = [outcome EXCEPT ![job[w]] = outcome[job[w]] \cup {o}]
            BY <2>2 DEF Execute
        <3> QED BY <3>1 DEF IInv, TypeOK
    <2> QED BY <2>1, <2>2, WhoChanges
<1>3. ASSUME NEW k \in Keys
      PROVE  Settled[k] \subseteq Settled'[k]
    <2>1. ASSUME NEW r \in Settled[k]
          PROVE  r \in Settled'[k]
        <3>1. PICK j \in Calls : \E o \in outcome[j] :
                  r \in Results /\ key[j] = k /\ (r = JobResult(j, o) \/ r = DirectResult(j, o))
            BY DEF Settled
        <3>2. PICK o \in outcome[j] :
                  r \in Results /\ key[j] = k /\ (r = JobResult(j, o) \/ r = DirectResult(j, o))
            BY <3>1
        <3>3. o \in outcome'[j] /\ key'[j] = k
            BY <1>1, <1>2, <3>2
        <3> QED BY <3>2, <3>3 DEF Settled
    <2> QED BY <2>1
<1>4. ctxDone \subseteq ctxDone'
    BY WhoChanges DEF EnqueueFails, Return, Leave, ContextEnds
<1>5. stage = "closed" => stage' = "closed"
    BY WhoChanges DEF Shutdown, CancelRuntime, Close
<1>6. \A c \in Calls : Answer[c] \subseteq Answer'[c]
    BY <1>1, <1>3, <1>4, <1>5 DEF Answer, Alone
<1> QED BY <1>2, <1>3, <1>6

\* What Execute makes of an outcome is a result for the job's key.
LEMMA RunSettles ==
    ASSUME IInv, [Next]_vars, NEW w \in Workers, Execute(w)
    PROVE  \E j \in Calls, o \in Outcomes :
              /\ j = job[w] /\ outcome'[j] # {}
              /\ JobResult(j, o) \in Settled'[key[j]] /\ DirectResult(j, o) \in Settled'[key[j]]
              /\ result' = [result EXCEPT ![w] = JobResult(j, o)]
              /\ done' = IF target[w] # NoCall /\ done[target[w]] = Nothing
                         THEN [done EXCEPT ![target[w]] = DirectResult(j, o)]
                         ELSE done
<1>1. PICK j \in Calls : j = job[w]
    BY DEF Execute, IInv, Placed, BusyWorkers, Busy
<1>2. PICK o \in Outcomes :
         /\ outcome' = [outcome EXCEPT ![j] = outcome[j] \cup {o}]
         /\ result' = [result EXCEPT ![w] = JobResult(j, o)]
         /\ done' = IF target[w] # NoCall /\ done[target[w]] = Nothing
                    THEN [done EXCEPT ![target[w]] = DirectResult(j, o)]
                    ELSE done
    BY <1>1 DEF Execute
<1>3. o \in outcome'[j]
    BY <1>2 DEF IInv, TypeOK
<1>4. key' = key /\ key[j] \in Keys
    BY WhoChanges DEF IInv, TypeOK
<1>5. JobResult(j, o) \in Results /\ DirectResult(j, o) \in Results
    BY JobResultTyped
<1>6. JobResult(j, o) \in Settled'[key[j]] /\ DirectResult(j, o) \in Settled'[key[j]]
    BY <1>3, <1>4, <1>5 DEF Settled
<1> QED BY <1>1, <1>2, <1>3, <1>6

-----------------------------------------------------------------------------
LEMMA PendingKept ==
    ASSUME IInv, PendingKeyed, [Next]_vars
    PROVE  PendingKeyed'
<1>1. key' = key /\ key \in [Calls -> Keys] /\ pending \in [Keys -> Calls \cup {NoCall}]
    BY WhoChanges DEF IInv, TypeOK
<1>2. CASE UNCHANGED pending
    BY <1>1, <1>2 DEF PendingKeyed
<1>3. ASSUME NEW c \in Calls, Submit(c) \/ EnqueueFails(c)
      PROVE  PendingKeyed'
    <2>1. pending' \in {pending, [pending EXCEPT ![key[c]] = c], [pending EXCEPT ![key[c]] = NoCall]}
        BY <1>3 DEF Submit, EnqueueFails
    <2> QED BY <1>1, <2>1 DEF PendingKeyed
<1>4. ASSUME NEW w \in Workers, Take(w)
      PROVE  PendingKeyed'
    <2>1. pending' = [pending EXCEPT ![key[job[w]]] = NoCall]
        BY <1>4 DEF Take
    <2> QED BY <1>1, <2>1 DEF PendingKeyed
<1> QED BY <1>2, <1>3, <1>4, WhoChanges

LEMMA CompletedKept ==
    ASSUME IInv, TargetsKeyed, CompletedKeyed, [Next]_vars
    PROVE  CompletedKeyed'
<1>1. key' = key /\ key \in [Calls -> Keys] /\ completed \in [Keys -> Results]
    BY WhoChanges DEF IInv, TypeOK
<1>2. \A k \in Keys : Settled[k] \subseteq Settled'[k]
    BY AnswersStay
<1>3. CASE UNCHANGED completed
    BY <1>1, <1>2, <1>3 DEF CompletedKeyed
<1>4. ASSUME NEW c \in Calls, Check(c) \/ Recheck(c)
      PROVE  CompletedKeyed'
    <2>1. completed' \in {completed, [completed EXCEPT ![key[c]] = Nothing]}
        BY <1>4 DEF Check, Recheck
    <2> QED BY <1>1, <1>2, <2>1 DEF CompletedKeyed
<1>5. ASSUME NEW w \in Workers, Keep(w)
      PROVE  CompletedKeyed'
    <2>1. PICK j \in Calls : j = job[w] /\ result[w] \in Settled[key[j]]
        BY <1>5 DEF Keep, IInv, Placed, BusyWorkers, Busy, TargetsKeyed
    <2>2. completed' = [completed EXCEPT ![key[j]] = result[w]]
        BY <1>5, <2>1 DEF Keep
    <2> QED BY <1>1, <1>2, <2>1, <2>2 DEF CompletedKeyed
<1> QED BY <1>3, <1>4, <1>5, WhoChanges

LEMMA TargetsKept ==
    ASSUME IInv, PendingKeyed, TargetsKeyed, [Next]_vars
    PROVE  TargetsKeyed'
<1>1. /\ key' = key /\ key \in [Calls -> Keys] /\ pending \in [Keys -> Calls \cup {NoCall}]
      /\ wpc \in [Workers -> {"idle", "got", "taken", "ran", "claimed", "unclaimed", "stopped"}]
      /\ target \in [Workers -> Calls \cup {NoCall}] /\ job \in [Workers -> Calls \cup {NoCall}]
      /\ result \in [Workers -> Results] /\ waiters \in [Keys -> Calls \cup {NoCall}]
    BY WhoChanges DEF IInv, TypeOK
<1>2. /\ \A j \in Calls : outcome[j] # {} => outcome'[j] # {}
      /\ \A k \in Keys : Settled[k] \subseteq Settled'[k]
      /\ \A w \in Workers : Busy(w) => job[w] \in Calls
    BY AnswersStay DEF IInv, Placed, BusyWorkers
<1> DEFINE Good(w) ==
              /\ (wpc[w] = "taken" /\ target[w] # NoCall) \/ wpc[w] = "claimed" =>
                     key[target[w]] = key[job[w]]
              /\ wpc[w] \in {"ran", "claimed", "unclaimed"} =>
                     result[w] \in Settled[key[job[w]]] /\ outcome[job[w]] # {}
<1>3. ASSUME NEW v \in Workers, wpc'[v] = wpc[v], target'[v] = target[v], job'[v] = job[v],
             result'[v] = result[v]
      PROVE  Good(v)'
    BY <1>1, <1>2, <1>3 DEF TargetsKeyed, Busy
<1>4. CASE UNCHANGED <<wpc, target, job, result>>
    BY <1>3, <1>4 DEF TargetsKeyed
<1>5. ASSUME NEW w \in Workers, Work(w) \/ Quit(w)
      PROVE  TargetsKeyed'
    <2>1. \A v \in Workers \ {w} : /\ wpc'[v] = wpc[v] /\ target'[v] = target[v]
                                  /\ job'[v] = job[v] /\ result'[v] = result[v]
        <3>1. CASE Dequeue(w) \/ Quit(w) \/ Take(w)
            BY <1>1, <3>1 DEF Dequeue, Quit, Take
        <3>2. CASE Execute(w) \/ Claim(w)
            BY <1>1, <3>2 DEF Execute, Claim
        <3>3. CASE Nack(w) \/ Deliver(w) \/ Keep(w)
            BY <1>1, <3>3 DEF Nack, Deliver, Keep, Acknowledged, NextTurn
        <3> QED BY <1>5, <3>1, <3>2, <3>3 DEF Work
    <2>2. Good(w)'
        <3>1. CASE Dequeue(w) \/ Quit(w)
            BY <1>1, <3>1 DEF Dequeue, Quit
        <3>2. CASE Nack(w) \/ Deliver(w) \/ Keep(w)
            BY <1>1, <3>2 DEF Nack, Deliver, Keep, Acknowledged, NextTurn
        <3>3. CASE Take(w)
            BY <1>1, <1>2, <3>3 DEF Take, Busy, PendingKeyed
        <3>4. CASE Execute(w)
            <4>1. PICK j \in Calls, o \in Outcomes :
                     /\ j = job[w] /\ outcome'[j] # {} /\ JobResult(j, o) \in Settled'[key[j]]
                     /\ result' = [result EXCEPT ![w] = JobResult(j, o)]
                BY <3>4, RunSettles
            <4>2. job' = job /\ wpc'[w] = "ran" /\ result'[w] = JobResult(j, o)
                BY <1>1, <3>4, <4>1 DEF Execute
            <4> QED BY <1>1, <4>1, <4>2
        <3>5. CASE Claim(w)
            <4>1. PICK j \in Calls :
                     j = job[w] /\ outcome[j] # {} /\ result[w] \in Settled[key[j]]
                BY <1>2, <3>5 DEF Claim, Busy, TargetsKeyed
            <4>2. /\ job' = job /\ outcome' = outcome /\ result' = result
                  /\ target'[w] = waiters[key[j]]
                  /\ wpc'[w] = "claimed" => waiters[key[j]] # NoCall
                  /\ wpc'[w] \in {"claimed", "unclaimed"}
                BY <1>1, <3>5, <4>1 DEF Claim
            <4>3. waiters[key[j]] # NoCall => key[waiters[key[j]]] = key[j]
                BY <1>1 DEF IInv, Channels
            <4>4. result'[w] \in Settled'[key'[job'[w]]]
                BY <1>1, <1>2, <4>1, <4>2
            <4> QED BY <1>1, <4>1, <4>2, <4>3, <4>4
        <3> QED BY <1>5, <3>1, <3>2, <3>3, <3>4, <3>5 DEF Work
    <2>3. \A v \in Workers : Good(v)'
        BY <1>3, <2>1, <2>2
    <2> QED BY <2>3 DEF TargetsKeyed
<1> QED BY <1>4, <1>5, WhoChanges

LEMMA SharedKept ==
    ASSUME IInv, SharedKeyed, [Next]_vars
    PROVE  SharedKeyed'
<1>1. key' = key /\ key \in [Calls -> Keys] /\ chanOf \in [Calls -> Calls \cup {NoCall}]
      /\ waiters \in [Keys -> Calls \cup {NoCall}]
      /\ wait \in [Calls -> {"off", "check", "register", "recheck", "unregister",
                             "select", "drain", "over"}]
    BY WhoChanges DEF IInv, TypeOK
<1>2. CASE UNCHANGED <<wait, chanOf, res>>
    BY <1>1, <1>2 DEF SharedKeyed
<1>3. ASSUME NEW c \in Calls, Enqueue(c)
      PROVE  SharedKeyed'
    BY <1>1, <1>3 DEF Enqueue, SharedKeyed
<1>4. ASSUME NEW c \in Calls, Check(c) \/ Unregister(c) \/ Receive(c)
      PROVE  SharedKeyed'
    BY <1>1, <1>4 DEF Check, Unregister, Receive, WaitOver, SharedKeyed
<1>5. ASSUME NEW c \in Calls, RegisterWaiter(c)
      PROVE  SharedKeyed'
    <2>1. PICK k \in Keys : k = key[c]
        BY <1>1
    <2>2. waiters'[k] \in {c, waiters[k]} /\ (waiters[k] = NoCall => waiters'[k] = c)
        BY <1>1, <1>5, <2>1 DEF RegisterWaiter
    <2>3. key[waiters'[k]] = k
        BY <2>1, <2>2 DEF IInv, Channels
    <2>4. chanOf' = [chanOf EXCEPT ![c] = waiters'[k]] /\ wait' = [wait EXCEPT ![c] = "recheck"]
        BY <1>5, <2>1 DEF RegisterWaiter
    <2> QED BY <1>1, <2>1, <2>3, <2>4 DEF SharedKeyed
<1>6. ASSUME NEW c \in Calls, Recheck(c)
      PROVE  SharedKeyed'
    BY <1>1, <1>6 DEF Recheck, SharedKeyed
<1>7. ASSUME NEW c \in Calls, Leave(c)
      PROVE  SharedKeyed'
    BY <1>1, <1>7 DEF Leave, WaitOver, SharedKeyed
<1> QED BY <1>2, <1>3, <1>4, <1>5, <1>6, <1>7, WhoChanges DEF WaitResult

\* Nobody goes back once his wait is over.
LEMMA OverStays ==
    ASSUME IInv, [Next]_vars, NEW d \in Calls, wait[d] = "over"
    PROVE  wait'[d] = "over"
<1>1. pc[d] # "stored"
    BY DEF IInv, Unrun
<1>2. wait \in [Calls -> {"off", "check", "register", "recheck", "unregister",
                          "select", "drain", "over"}]
    BY DEF IInv, TypeOK
<1>3. ASSUME NEW c \in Calls, Enqueue(c)
      PROVE  wait'[d] = "over"
    BY <1>1, <1>2, <1>3 DEF Enqueue
<1>4. ASSUME NEW c \in Calls, Check(c) \/ Unregister(c) \/ Receive(c) \/ Leave(c)
      PROVE  wait'[d] = "over"
    BY <1>2, <1>4 DEF Check, Unregister, Receive, Leave, WaitOver
<1>5. ASSUME NEW c \in Calls, RegisterWaiter(c) \/ Recheck(c)
      PROVE  wait'[d] = "over"
    BY <1>2, <1>5 DEF RegisterWaiter, Recheck
<1> QED BY <1>3, <1>4, <1>5, WhoChanges DEF WaitResult

LEMMA SentKept ==
    ASSUME IInv, TargetsKeyed, SharedKeyed, SentKeyed, [Next]_vars
    PROVE  SentKeyed'
<1>1. /\ key' = key /\ key \in [Calls -> Keys] /\ \A k \in Keys : Settled[k] \subseteq Settled'[k]
      /\ \A d \in Calls : wait[d] = "over" => wait'[d] = "over"
    BY WhoChanges, AnswersStay, OverStays DEF IInv, TypeOK
<1> DEFINE Good(x) ==
              /\ chan[x] \notin {Open, Closed} => chan[x] \in Settled[key[x]]
              /\ chan[x] = Closed => \E d \in Calls : key[d] = key[x] /\ wait[d] = "over"
<1>2. ASSUME NEW x \in Calls, chan'[x] = chan[x]
      PROVE  Good(x)'
    BY <1>1, <1>2 DEF SentKeyed
<1>3. CASE UNCHANGED chan
    BY <1>2, <1>3 DEF SentKeyed
<1>4. ASSUME NEW c \in Calls, Receive(c)
      PROVE  SentKeyed'
    <2>1. PICK x \in Calls : x = chanOf[c] /\ key[x] = key[c]
        BY <1>4 DEF Receive, IInv, Wired, SharedKeyed
    <2>2. chan' = [chan EXCEPT ![x] = Closed] /\ wait'[c] = "over"
        BY <1>4, <2>1 DEF Receive, WaitOver, IInv, TypeOK
    <2>3. chan'[x] = Closed /\ \A y \in Calls \ {x} : chan'[y] = chan[y]
        BY <2>2 DEF IInv, TypeOK
    <2>4. Good(x)'
        BY <1>1, <2>1, <2>2, <2>3
    <2>5. \A y \in Calls : Good(y)'
        BY <1>2, <2>3, <2>4
    <2> QED BY <2>5 DEF SentKeyed
<1>5. ASSUME NEW w \in Workers, Deliver(w)
      PROVE  SentKeyed'
    <2>1. PICK x \in Calls :
              x = target[w] /\ key[x] = key[job[w]] /\ result[w] \in Settled[key[job[w]]]
        BY <1>5 DEF Deliver, IInv, Channels, TargetsKeyed
    <2>2. chan' = [chan EXCEPT ![x] = result[w]]
        BY <1>5, <2>1 DEF Deliver
    <2>3. chan'[x] = result[w] /\ \A y \in Calls \ {x} : chan'[y] = chan[y]
        BY <2>2 DEF IInv, TypeOK
    <2>4. result[w] \in Settled'[key'[x]] /\ result[w] # Closed
        <3>1. result[w] \in Settled'[key'[x]]
            BY <1>1, <2>1
        <3>2. result[w] \in Results
            BY DEF IInv, TypeOK
        <3> QED BY <3>1, <3>2 DEF Closed, Results
    <2>5. Good(x)'
        BY <2>3, <2>4
    <2>6. \A y \in Calls : Good(y)'
        BY <1>2, <2>3, <2>5
    <2> QED BY <2>6 DEF SentKeyed
<1> QED BY <1>3, <1>4, <1>5, WhoChanges

LEMMA DoneKept ==
    ASSUME IInv, TargetsKeyed, DoneAnswers, [Next]_vars
    PROVE  DoneAnswers'
<1>1. /\ key' = key /\ key \in [Calls -> Keys] /\ done \in [Calls -> Results]
      /\ \A k \in Keys : Settled[k] \subseteq Settled'[k]
    BY WhoChanges, AnswersStay DEF IInv, TypeOK
<1>2. CASE UNCHANGED <<outcome, done>>
    BY <1>1, <1>2 DEF DoneAnswers
<1>3. ASSUME NEW w \in Workers, Execute(w)
      PROVE  DoneAnswers'
    <2>1. PICK j \in Calls, o \in Outcomes :
              /\ j = job[w] /\ DirectResult(j, o) \in Settled'[key[j]]
              /\ done' = IF target[w] # NoCall /\ done[target[w]] = Nothing
                         THEN [done EXCEPT ![target[w]] = DirectResult(j, o)]
                         ELSE done
        BY <1>3, RunSettles
    <2>2. target[w] # NoCall => target[w] \in Calls /\ key[target[w]] = key[j]
        BY <1>3, <2>1 DEF Execute, TargetsKeyed, IInv, TypeOK
    <2>3. ASSUME NEW c \in Calls, done'[c] # Nothing
          PROVE  done'[c] \in Settled'[key[c]]
        <3>1. CASE done'[c] = done[c]
            BY <1>1, <2>3, <3>1 DEF DoneAnswers
        <3>2. CASE c = target[w] /\ done'[c] = DirectResult(j, o)
            BY <1>1, <2>1, <2>2, <3>2, DispatchAssumption
        <3> QED BY <1>1, <2>1, <2>2, <3>1, <3>2
    <2> QED BY <1>1, <2>3 DEF DoneAnswers
<1> QED BY <1>2, <1>3, WhoChanges

LEMMA ResKept ==
    ASSUME IInv, Keyed, ResAnswers, [Next]_vars
    PROVE  ResAnswers'
<1>1. /\ key' = key /\ key \in [Calls -> Keys] /\ res \in [Calls -> Results]
      /\ wait \in [Calls -> {"off", "check", "register", "recheck", "unregister",
                             "select", "drain", "over"}]
    BY WhoChanges DEF IInv, TypeOK
<1>2. \A c \in Calls : Answer[c] \subseteq Answer'[c]
    BY AnswersStay
<1>3. ASSUME NEW d \in Calls, wait'[d] = wait[d], res'[d] = res[d], wait'[d] \in {"unregister", "over"}
      PROVE  res'[d] \in Answer'[d]
    BY <1>2, <1>3 DEF ResAnswers
<1>4. CASE UNCHANGED <<wait, chanOf, res>>
    BY <1>3, <1>4 DEF ResAnswers
<1>5. ASSUME NEW c \in Calls, Enqueue(c)
      PROVE  ResAnswers'
    <2>1. /\ res' = res /\ wait'[c] \in {"check", "off"}
          /\ \A d \in Calls \ {c} : wait'[d] = wait[d]
        BY <1>1, <1>5 DEF Enqueue
    <2> QED BY <1>3, <2>1 DEF ResAnswers
<1>6. ASSUME NEW c \in Calls, WaitResult(c)
      PROVE  ResAnswers'
    <2>1. \A d \in Calls \ {c} : wait'[d] = wait[d] /\ res'[d] = res[d]
        <3>1. CASE Check(c) \/ Unregister(c) \/ Receive(c) \/ Leave(c)
            BY <1>1, <3>1 DEF Check, Unregister, Receive, Leave, WaitOver
        <3>2. CASE RegisterWaiter(c) \/ Recheck(c)
            BY <1>1, <3>2 DEF RegisterWaiter, Recheck
        <3> QED BY <1>6, <3>1, <3>2 DEF WaitResult
    <2>2. ASSUME wait'[c] \in {"unregister", "over"}
          PROVE  res'[c] \in Answer[c] \cup Answer'[c]
        <3>1. CASE Check(c) \/ Recheck(c)
            <4>1. /\ completed[key[c]] # Nothing /\ res'[c] = completed[key[c]]
                BY <1>1, <2>2, <3>1 DEF Check, Recheck, WaitOver
            <4>2. completed[key[c]] \in Settled[key[c]]
                BY <1>1, <4>1 DEF Keyed, CompletedKeyed
            <4> QED BY <4>1, <4>2 DEF Answer
        <3>2. CASE RegisterWaiter(c)
            BY <1>1, <2>2, <3>2 DEF RegisterWaiter
        <3>3. CASE Unregister(c)
            BY <1>1, <3>3 DEF Unregister, WaitOver, ResAnswers
        <3>4. CASE Receive(c)
            <4>1. PICK x \in Calls : x = chanOf[c] /\ key[x] = key[c] /\ chan[x] # Open
                BY <3>4 DEF Receive, IInv, Wired, Keyed, SharedKeyed
            <4>2. res'[c] = IF chan[x] = Closed THEN ZeroResult ELSE chan[x]
                BY <1>1, <3>4, <4>1 DEF Receive, WaitOver
            <4>3. CASE chan[x] = Closed
                <5>1. PICK d \in Calls : key[d] = key[x] /\ wait[d] = "over"
                    BY <4>3 DEF Keyed, SentKeyed
                <5>2. d # c
                    BY <3>4, <5>1 DEF Receive
                <5>3. ~Alone(c)
                    BY <4>1, <5>1, <5>2 DEF Alone
                <5> QED BY <4>2, <4>3, <5>3 DEF Answer
            <4>4. CASE chan[x] # Closed
                <5>1. chan[x] \in Settled[key[c]]
                    BY <4>1, <4>4 DEF Keyed, SentKeyed
                <5> QED BY <4>2, <4>4, <5>1 DEF Answer
            <4> QED BY <4>3, <4>4
        <3>5. CASE Leave(c)
            <4>1. res'[c] = Cancelled
                BY <1>1, <2>2, <3>5 DEF Leave, WaitOver
            <4>2. c \in ctxDone' \/ stage' = "closed"
                BY <3>5 DEF Leave, ContextEnds
            <4> QED BY <4>1, <4>2 DEF Answer
        <3> QED BY <1>6, <3>1, <3>2, <3>3, <3>4, <3>5 DEF WaitResult
    <2>3. wait'[c] \in {"unregister", "over"} => res'[c] \in Answer'[c]
        BY <1>2, <2>2
    <2> QED BY <1>3, <2>1, <2>3 DEF ResAnswers
<1> QED BY <1>4, <1>5, <1>6, WhoChanges

LEMMA RetKept ==
    ASSUME IInv, Answers, [Next]_vars
    PROVE  RetAnswers'
<1>1. ret \in [Calls -> Results] /\ \A c \in Calls : Answer[c] \subseteq Answer'[c]
    BY AnswersStay DEF IInv, TypeOK
<1>2. ASSUME NEW d \in Calls, ret'[d] = ret[d]
      PROVE  ret'[d] \in {Nothing, Rejected} \/ ret'[d] \in Answer'[d]
    BY <1>1, <1>2 DEF Answers, RetAnswers
<1>3. CASE UNCHANGED ret
    BY <1>2, <1>3 DEF RetAnswers
<1>4. ASSUME NEW c \in Calls, Submit(c) \/ EnqueueFails(c)
      PROVE  RetAnswers'
    <2>1. /\ \A d \in Calls \ {c} : ret'[d] = ret[d]
          /\ ret'[c] \in {ret[c], Rejected}
        BY <1>1, <1>4 DEF Submit, EnqueueFails
    <2> QED BY <1>2, <2>1 DEF RetAnswers
<1>5. ASSUME NEW c \in Calls, Return(c)
      PROVE  RetAnswers'
    <2>1. \A d \in Calls \ {c} : ret'[d] = ret[d]
        BY <1>1, <1>5 DEF Return
    <2>2. ret'[c] \in Answer[c] \cup Answer'[c]
        <3>1. CASE done[c] # Nothing /\ ret' = [ret EXCEPT ![c] = done[c]]
            BY <1>1, <3>1 DEF Answers, DoneAnswers, Answer
        <3>2. CASE wait[c] = "over" /\ ret' = [ret EXCEPT ![c] = res[c]]
            BY <1>1, <3>2 DEF Answers, ResAnswers
        <3>3. CASE ContextEnds(c) /\ ret' = [ret EXCEPT ![c] = Cancelled]
            BY <1>1, <3>3 DEF ContextEnds, Answer
        <3> QED BY <1>5, <3>1, <3>2, <3>3 DEF Return
    <2> QED BY <1>1, <1>2, <2>1, <2>2 DEF RetAnswers
<1> QED BY <1>3, <1>4, <1>5, WhoChanges

\* Everything under a key is of that key, and every answer on its way to a call
\* is the result of a job for the call's key that has been run, or says why
\* there is none.
THEOREM AnswersInductive ==
    Spec => [](Keyed /\ Answers)
<1>1. Init => Keyed /\ Answers
    <2> SUFFICES ASSUME Init PROVE Keyed /\ Answers
        OBVIOUS
    <2>1. \A c \in Calls : chan[c] = Open /\ chan[c] # Closed
        BY DEF Init, Open, Closed
    <2>2. Keyed
        BY <2>1 DEF Init, Keyed, PendingKeyed, CompletedKeyed, TargetsKeyed, SharedKeyed, SentKeyed
    <2>3. Answers
        BY DEF Init, Answers, DoneAnswers, ResAnswers, RetAnswers
    <2> QED BY <2>2, <2>3
<1>2. IInv /\ Keyed /\ Answers /\ [Next]_vars => (Keyed /\ Answers)'
    <2> SUFFICES ASSUME IInv, Keyed, Answers, [Next]_vars
                 PROVE  (Keyed /\ Answers)'
        OBVIOUS
    <2>1. Keyed'
        BY PendingKept, CompletedKept, TargetsKept, SharedKept, SentKept DEF Keyed
    <2>2. Answers'
        BY DoneKept, ResKept, RetKept DEF Keyed, Answers
    <2> QED BY <2>1, <2>2
<1> QED BY <1>1, <1>2, LocalInductive, PTL DEF Spec

\* RunSync returns what became of its own job, over whichever of the two
\* channels, as long as nobody else dispatches the same execution, or the
\* reason why it did not wait.
THEOREM OwnResultHolds ==
    Spec => []OwnResult
<1>1. IInv /\ Keyed /\ Answers => OwnResult
    <2> SUFFICES ASSUME IInv, Answers, NEW c \in SyncCalls, Alone(c)
                 PROVE  /\ ret[c].job = NoCall => ret[c] \in {Nothing, Rejected, Cancelled}
                        /\ ret[c] = Cancelled => c \in ctxDone \/ stage = "closed"
                        /\ ret[c].job # NoCall =>
                              /\ ret[c].job = c
                              /\ ret[c].status = "error" => outcome[c] \in {{"failed"}, {"refused"}}
                              /\ ret[c].status = "success" => outcome[c] \in {{"ok"}, {"refused"}}
        BY DEF OwnResult
    <2>1. c \in Calls
        BY DispatchAssumption
    <2>2. CASE ret[c] \in {Nothing, Rejected}
        BY <2>2 DEF Nothing, Rejected, Cancelled
    <2>3. CASE ret[c] = Cancelled /\ (c \in ctxDone \/ stage = "closed")
        BY <2>3 DEF Cancelled
    <2>4. CASE ret[c] \in Settled[key[c]]
        <3>1. PICK j \in Calls : \E o \in outcome[j] :
                  key[j] = key[c] /\ (ret[c] = JobResult(j, o) \/ ret[c] = DirectResult(j, o))
            BY <2>1, <2>4 DEF Settled, IInv, TypeOK
        <3>2. PICK o \in outcome[j] :
                  key[j] = key[c] /\ (ret[c] = JobResult(j, o) \/ ret[c] = DirectResult(j, o))
            BY <3>1
        <3>3. j = c
            BY <2>1, <3>2 DEF Alone
        <3>4. fate[c] # "copied"
            BY <2>1 DEF IInv, Unrun, Alone
        <3>5. outcome[c] = {o}
            BY <2>1, <3>2, <3>3, <3>4 DEF IInv, Unrun
        <3>6. o \in {"ok", "failed", "refused"} /\ c # NoCall
            BY <2>1, <3>2, <3>3, DispatchAssumption DEF IInv, TypeOK
        <3> QED BY <3>2, <3>3, <3>5, <3>6 DEF JobResult, DirectResult, Cancelled
    <2> QED BY <2>1, <2>2, <2>3, <2>4 DEF Answers, RetAnswers, Answer
<1> QED BY <1>1, LocalInductive, AnswersInductive, PTL
-----------------------------------------------------------------------------
(***************************************************************************)
(* LocalDispatch implements JobService: every step moves one job on, or    *)
(* disrupts the service, or changes nothing it speaks of.                  *)
(***************************************************************************)

\* While a worker has a job it is open, and then nobody else has it, or copied.
LEMMA OneHolder ==
    ASSUME IInv, NEW w \in Workers, Busy(w)
    PROVE  /\ job[w] \in Calls /\ fate[job[w]] \in {"open", "copied"}
           /\ fate[job[w]] = "open" =>
                 /\ \A v \in Workers : Busy(v) /\ job[v] = job[w] => v = w
                 /\ AtWork(job[w]) <=> wpc[w] = "taken"
<1>1. w \in BusyWorkers /\ job[w] \in Calls /\ fate[job[w]] \in {"open", "copied"}
    BY DEF IInv, Placed, BusyWorkers
<1>2. fate[job[w]] = "open" => \A v \in Workers : Busy(v) /\ job[v] = job[w] => v = w
    BY <1>1 DEF IInv, Placed, BusyWorkers
<1>3. fate[job[w]] = "open" => (AtWork(job[w]) <=> wpc[w] = "taken")
    BY <1>2 DEF AtWork, Busy
<1> QED BY <1>1, <1>2, <1>3

\* Who is at work changes only with the worker that moves.
LEMMA AtWorkKept ==
    ASSUME IInv, NEW w \in Workers, \A v \in Workers \ {w} : wpc'[v] = wpc[v] /\ job'[v] = job[v],
           NEW c \in Calls,
           wpc[w] = "taken" => job[w] # c, wpc'[w] = "taken" => job'[w] # c
    PROVE  AtWork(c)' <=> AtWork(c)
BY DEF AtWork

\* Of copied jobs nothing is promised.
LEMMA StatusKept ==
    ASSUME UNCHANGED fate,
           \A c \in Calls : fate[c] # "copied" => (AtWork(c)' <=> AtWork(c)) /\ outcome'[c] = outcome[c]
    PROVE  Status' = Status
BY DEF Status

LEMMA CopiedQuiet ==
    ASSUME IInv, NEW w \in Workers, fate[job[w]] = "copied",
           Take(w) \/ Execute(w) \/ Deliver(w) \/ Keep(w)
    PROVE  UNCHANGED <<Status, stage>>
<1>1. job[w] \in Calls /\ fate' = fate /\ stage' = stage
    <2>1. job[w] \in Calls
        BY OneHolder DEF Take, Execute, Deliver, Keep, Busy
    <2>2. CASE Take(w) \/ Execute(w)
        BY <2>1, <2>2 DEF Take, Execute
    <2>3. CASE Deliver(w) \/ Keep(w)
        <3>1. fate' = [fate EXCEPT ![job[w]] = fate[job[w]]] /\ stage' = stage
            BY <2>3 DEF Deliver, Keep, Acknowledged
        <3> QED BY <2>1, <3>1 DEF IInv, TypeOK
    <2> QED BY <2>1, <2>2, <2>3
<1>2. \A v \in Workers \ {w} : wpc'[v] = wpc[v] /\ job'[v] = job[v]
    <2>1. CASE Take(w) \/ Execute(w)
        BY <2>1 DEF Take, Execute, IInv, TypeOK
    <2>2. CASE Deliver(w) \/ Keep(w)
        BY <2>2 DEF Deliver, Keep, Acknowledged, NextTurn, IInv, TypeOK
    <2> QED BY <2>1, <2>2
<1>3. wpc'[w] = "taken" => job'[w] = job[w]
    BY DEF Take, Execute, Deliver, Keep, Acknowledged, NextTurn, IInv, TypeOK
<1>4. \A c \in Calls : c # job[w] => outcome'[c] = outcome[c]
    BY DEF Take, Execute, Deliver, Keep, Acknowledged, IInv, TypeOK
<1>5. \A c \in Calls : c # job[w] => (AtWork(c)' <=> AtWork(c))
    BY <1>2, <1>3, AtWorkKept
<1> QED BY <1>1, <1>4, <1>5, StatusKept

\* The calls, the goroutines of WaitResult and the workers outside their jobs.
LEMMA QuietSteps ==
    ASSUME IInv,
           \/ \E c \in Calls :
                 Submit(c) \/ EnqueueFails(c) \/ Return(c) \/ WaitResult(c) \/ Requeue(c)
           \/ \E w \in Workers : Dequeue(w) \/ Claim(w) \/ Quit(w)
           \/ UNCHANGED vars
    PROVE  UNCHANGED <<Status, stage>>
<1>1. ASSUME UNCHANGED <<stage, wpc, job, outcome, fate>>
      PROVE  UNCHANGED <<Status, stage>>
    BY <1>1, StatusKept DEF AtWork
<1>2. ASSUME NEW c \in Calls, Submit(c) \/ EnqueueFails(c) \/ Return(c) \/ Requeue(c)
      PROVE  UNCHANGED <<Status, stage>>
    <2>1. UNCHANGED <<stage, wpc, job, outcome, fate>>
        BY <1>2 DEF Submit, EnqueueFails, Return, Requeue, workVars
    <2> QED BY <1>1, <2>1
<1>3. ASSUME NEW c \in Calls, WaitResult(c)
      PROVE  UNCHANGED <<Status, stage>>
    <2>1. UNCHANGED <<stage, workVars>>
        BY <1>3 DEF WaitResult, Check, RegisterWaiter, Recheck, Unregister, Receive, Leave
    <2> QED BY <1>1, <2>1 DEF workVars
<1>4. ASSUME NEW w \in Workers, Dequeue(w) \/ Claim(w) \/ Quit(w)
      PROVE  UNCHANGED <<Status, stage>>
    <2>1. /\ wpc[w] # "taken" /\ wpc'[w] # "taken"
          /\ \A v \in Workers \ {w} : wpc'[v] = wpc[v] /\ job'[v] = job[v]
          /\ UNCHANGED <<stage, outcome, fate>>
        BY <1>4 DEF Dequeue, Claim, Quit, IInv, TypeOK
    <2> QED BY <2>1, AtWorkKept, StatusKept
<1>5. CASE UNCHANGED vars
    BY <1>1, <1>5 DEF vars, workVars
<1> QED BY <1>2, <1>3, <1>4, <1>5

\* Enqueue accepts the job.
LEMMA EnqueueAccepts ==
    ASSUME IInv, NEW c \in Calls, Enqueue(c)
    PROVE  Service!Accept(c)
<1>1. /\ fate' = [fate EXCEPT ![c] = "open"] /\ fate[c] = "none" /\ outcome[c] = {}
      /\ UNCHANGED <<stage, wpc, job, outcome>>
    BY DEF Enqueue, IInv, Unrun
<1>2. ~AtWork(c)
    BY <1>1, OneHolder DEF AtWork, Busy
<1>3. \A d \in Calls : AtWork(d)' <=> AtWork(d)
    BY <1>1 DEF AtWork
<1>4. Status[c] = "none" /\ Status' = [Status EXCEPT ![c] = "accepted"]
    BY <1>1, <1>2, <1>3 DEF Status, IInv, TypeOK
<1> QED BY <1>1, <1>4 DEF Service!Accept, Service!Move

\* executeJob starts the job, and executeWorkflowDirect completes it.
LEMMA TakeStarts ==
    ASSUME IInv, NEW w \in Workers, Take(w), fate[job[w]] = "open"
    PROVE  Service!Start(job[w])
<1> DEFINE j == job[w]
<1>1. /\ wpc[w] = "got" /\ wpc' = [wpc EXCEPT ![w] = "taken"]
      /\ UNCHANGED <<stage, job, outcome, fate>>
    BY DEF Take
<1>2. j \in Calls /\ fate[j] = "open" /\ ~AtWork(j) /\ outcome[j] = {}
    BY <1>1, OneHolder DEF Busy, IInv, Unrun
<1>3. wpc'[w] = "taken" /\ \A v \in Workers \ {w} : wpc'[v] = wpc[v]
    BY <1>1 DEF IInv, TypeOK
<1>4. \A c \in Calls : AtWork(c)' <=> AtWork(c) \/ c = j
    BY <1>1, <1>3 DEF AtWork
<1> HIDE DEF j
<1>5. Status[j] = "accepted" /\ Status' = [Status EXCEPT ![j] = "running"]
    BY <1>1, <1>2, <1>4 DEF Status
<1> QED BY <1>1, <1>5 DEF j, Service!Start, Service!Move

LEMMA ExecuteCompletes ==
    ASSUME IInv, NEW w \in Workers, Execute(w), fate[job[w]] = "open"
    PROVE  Service!Complete(job[w])
<1> DEFINE j == job[w]
<1>1. /\ wpc[w] = "taken" /\ wpc' = [wpc EXCEPT ![w] = "ran"]
      /\ UNCHANGED <<stage, job, fate>>
    BY DEF Execute
<1>2. /\ j \in Calls /\ AtWork(j) /\ fate[j] = "open"
      /\ \A v \in Workers : wpc[v] = "taken" /\ job[v] = j => v = w
    BY <1>1, OneHolder DEF Busy
<1>3. PICK o \in Outcomes : outcome' = [outcome EXCEPT ![j] = outcome[j] \cup {o}]
    BY DEF Execute
<1>4. wpc'[w] = "ran" /\ \A v \in Workers \ {w} : wpc'[v] = wpc[v]
    BY <1>1 DEF IInv, TypeOK
<1>5. \A c \in Calls : AtWork(c)' <=> AtWork(c) /\ c # j
    BY <1>1, <1>2, <1>4 DEF AtWork
<1> HIDE DEF j
<1>6. outcome'[j] # {} /\ \A c \in Calls \ {j} : outcome'[c] = outcome[c]
    BY <1>2, <1>3 DEF IInv, TypeOK
<1>7. Status[j] = "running" /\ Status' = [Status EXCEPT ![j] = "completed"]
    BY <1>1, <1>2, <1>5, <1>6 DEF Status
<1> QED BY <1>1, <1>7 DEF j, Service!Complete, Service!Move

\* Acknowledge changes nothing about a job that has been run.
LEMMA AcknowledgeKeepsStatus ==
    ASSUME IInv, Keyed, NEW w \in Workers, Deliver(w) \/ Keep(w)
    PROVE  UNCHANGED <<Status, stage>>
<1>1. CASE fate[job[w]] = "copied"
    BY <1>1, CopiedQuiet
<1>2. CASE fate[job[w]] # "copied"
    <2>1. /\ wpc[w] \in {"claimed", "unclaimed"} /\ fate' = [fate EXCEPT ![job[w]] = "acked"]
          /\ UNCHANGED <<stage, outcome>>
        BY <1>2 DEF Deliver, Keep, Acknowledged
    <2>2. outcome[job[w]] # {} /\ job[w] \in Calls
        BY <2>1, OneHolder DEF Busy, Keyed, TargetsKeyed
    <2>3. /\ wpc'[w] # "taken"
          /\ \A v \in Workers \ {w} : wpc'[v] = wpc[v] /\ job'[v] = job[v]
        BY DEF Deliver, Keep, Acknowledged, NextTurn, IInv, TypeOK
    <2>4. \A c \in Calls : AtWork(c)' <=> AtWork(c)
        BY <2>1, <2>3, AtWorkKept
    <2>5. Status' = Status
        BY <1>2, <2>1, <2>2, <2>4 DEF Status, IInv, TypeOK
    <2> QED BY <2>1, <2>5
<1> QED BY <1>1, <1>2

\* A disruption gives up jobs that were not run, or copies jobs.
LEMMA LosingDisrupts ==
    ASSUME stage # "running", UNCHANGED <<stage, outcome>>,
           \A c \in Calls : AtWork(c)' <=> AtWork(c),
           \A c \in Calls :
               \/ fate'[c] = fate[c]
               \/ fate'[c] = "copied"
               \/ fate[c] = "open" /\ fate'[c] = "lost" /\ outcome[c] = {} /\ ~AtWork(c)
    PROVE  Service!Disrupt
<1>1. Status' \in [Calls -> Service!Statuses]
    BY DEF Status, Service!Statuses
<1>2. ASSUME NEW c \in Calls
      PROVE  Status'[c] = Status[c] \/ Service!Setback(Status[c], Status'[c])
    <2>1. CASE fate'[c] = fate[c]
        BY <2>1 DEF Status
    <2>2. CASE fate'[c] = "copied"
        BY <2>2 DEF Status, Service!Setback
    <2>3. CASE fate[c] = "open" /\ fate'[c] = "lost" /\ outcome[c] = {} /\ ~AtWork(c)
        BY <2>3 DEF Status, Service!Setback
    <2> QED BY <2>1, <2>2, <2>3
<1> QED BY <1>1, <1>2 DEF Service!Disrupt

LEMMA NackDisrupts ==
    ASSUME IInv, NEW w \in Workers, Nack(w)
    PROVE  Service!Disrupt
<1>1. wpc[w] = "got" /\ stage # "running" /\ UNCHANGED <<stage, outcome>>
    BY DEF Nack
<1>2. PICK j \in Calls, a \in Calls \cup {NoCall} :
         /\ j = job[w] /\ (fate[j] = "open" => outcome[j] = {})
         /\ \A c \in Calls : fate'[c] = IF c = a /\ a # j THEN "copied"
                                        ELSE IF c = j /\ a # j /\ fate[j] = "open" THEN "lost"
                                        ELSE fate[c]
    BY NackEffect
<1>3. fate[j] = "open" => ~AtWork(j)
    BY <1>1, <1>2, OneHolder DEF Busy
<1>4. /\ wpc'[w] # "taken"
      /\ \A v \in Workers \ {w} : wpc'[v] = wpc[v] /\ job'[v] = job[v]
    BY DEF Nack, NextTurn, IInv, TypeOK
<1>5. \A c \in Calls : AtWork(c)' <=> AtWork(c)
    BY <1>1, <1>4, AtWorkKept
<1>6. \A c \in Calls :
          \/ fate'[c] = fate[c]
          \/ fate'[c] = "copied"
          \/ fate[c] = "open" /\ fate'[c] = "lost" /\ outcome[c] = {} /\ ~AtWork(c)
    BY <1>2, <1>3
<1> QED BY <1>1, <1>5, <1>6, LosingDisrupts

LEMMA GiveUpDisrupts ==
    ASSUME IInv, NEW c \in Calls, GiveUp(c)
    PROVE  Service!Disrupt
<1>1. /\ c \in retry /\ stage = "closed" /\ UNCHANGED <<stage, outcome, wpc, job>>
      /\ fate' = [fate EXCEPT ![c] = IF fate[c] = "copied" THEN fate[c] ELSE "lost"]
    BY DEF GiveUp
<1>2. fate[c] # "copied" => fate[c] = "open" /\ outcome[c] = {} /\ ~AtWork(c)
    BY <1>1 DEF IInv, Placed, Unrun, AtWork, BusyWorkers, Busy
<1>3. \A d \in Calls : AtWork(d)' <=> AtWork(d)
    BY <1>1 DEF AtWork
<1>4. \A d \in Calls :
          \/ fate'[d] = fate[d]
          \/ fate[d] = "open" /\ fate'[d] = "lost" /\ outcome[d] = {} /\ ~AtWork(d)
    BY <1>1, <1>2 DEF IInv, TypeOK
<1> QED BY <1>1, <1>3, <1>4, LosingDisrupts

LEMMA ShutdownDisrupts ==
    ASSUME Shutdown
    PROVE  Service!Disrupt
<1>1. stage' # "running" /\ UNCHANGED <<wpc, job, outcome, fate>>
    BY DEF Shutdown, CancelRuntime, Close, workVars
<1>2. Status' = Status
    BY <1>1, StatusKept DEF AtWork
<1>3. Status' \in [Calls -> Service!Statuses]
    BY DEF Status, Service!Statuses
<1> QED BY <1>1, <1>2, <1>3 DEF Service!Disrupt

\* The local distributor and its pool implement JobService without redelivery:
\* a job that is accepted is run to its end, once, and given up only by a
\* shutdown and only before it was started.  Jobs that a shutdown has copied,
\* which share their execution with another job, are exempt from then on.
THEOREM LocalImplementation ==
    Spec => ImplementsService
<1> DEFINE disrupted == stage # "running"
<1>1. Init => Service!Init
    <2> SUFFICES ASSUME Init PROVE Service!Init
        OBVIOUS
    <2>1. \A c \in Calls : ~AtWork(c)
        BY DEF Init, AtWork
    <2>2. Status = [c \in Calls |-> "none"]
        BY <2>1 DEF Init, Status
    <2> QED BY <2>2 DEF Init, Service!Init
<1>2. IInv /\ Keyed /\ [Next]_vars => [Service!Next]_<<Status, disrupted>>
    <2> SUFFICES ASSUME IInv, Keyed, [Next]_vars
                 PROVE  Service!Next \/ UNCHANGED <<Status, stage>>
        OBVIOUS
    <2>1. CASE \/ \E c \in Calls :
                     Submit(c) \/ EnqueueFails(c) \/ Return(c) \/ WaitResult(c) \/ Requeue(c)
               \/ \E w \in Workers : Dequeue(w) \/ Claim(w) \/ Quit(w)
               \/ UNCHANGED vars
        BY <2>1, QuietSteps
    <2>2. ASSUME NEW c \in Calls, Enqueue(c)
          PROVE  Service!Next
        BY <2>2, EnqueueAccepts DEF Service!Next
    <2>3. ASSUME NEW w \in Workers, Take(w)
          PROVE  Service!Next \/ UNCHANGED <<Status, stage>>
        BY <2>3, TakeStarts, CopiedQuiet, OneHolder DEF Service!Next, Take, Busy
    <2>4. ASSUME NEW w \in Workers, Execute(w)
          PROVE  Service!Next \/ UNCHANGED <<Status, stage>>
        BY <2>4, ExecuteCompletes, CopiedQuiet, OneHolder DEF Service!Next, Execute, Busy
    <2>5. ASSUME NEW w \in Workers, Deliver(w) \/ Keep(w)
          PROVE  UNCHANGED <<Status, stage>>
        BY <2>5, AcknowledgeKeepsStatus
    <2>6. ASSUME NEW w \in Workers, Nack(w)
          PROVE  Service!Next
        BY <2>6, NackDisrupts DEF Service!Next
    <2>7. ASSUME NEW c \in Calls, GiveUp(c)
          PROVE  Service!Next
        BY <2>7, GiveUpDisrupts DEF Service!Next
    <2>8. CASE Shutdown
        BY <2>8, ShutdownDisrupts DEF Service!Next
    <2> QED BY <2>1, <2>2, <2>3, <2>4, <2>5, <2>6, <2>7, <2>8 DEF Next, Work
<1> HIDE DEF disrupted
<1>3. [][Service!Next]_<<Status, disrupted>> /\ Service!Init => ImplementsService
    BY DEF ImplementsService, Service!Spec, disrupted
<1> QED BY <1>1, <1>2, <1>3, LocalInductive, AnswersInductive, PTL DEF Spec
-----------------------------------------------------------------------------
(***************************************************************************)
(* A RunSync that is alone with its execution is not left without anybody  *)
(* who will answer it.                                                     *)
(***************************************************************************)

\* A job that is still to be started will find the Done channel of its call,
\* one that runs has it, and one that has run has used it.
DoneStored ==
    \A c \in Calls : Alone(c) /\ (pc[c] = "stored" \/ Status[c] = "accepted") =>
        pending[key[c]] = c
DoneHeld ==
    \A w \in Workers : wpc[w] = "taken" /\ Alone(job[w]) => target[w] = job[w]
DoneUsed ==
    \A c \in Calls : Alone(c) /\ Status[c] = "completed" => done[c] # Nothing

\* Until then nobody takes the waiter but the wait itself.
WaiterStands ==
    \A c \in Calls : Alone(c) /\ outcome[c] = {} =>
        /\ wait[c] # "drain"
        /\ wait[c] \in {"recheck", "select"} => waiters[key[c]] = c

\* What was acknowledged has been run, and what was enqueued has a fate and a
\* WaitResult.
AckedRun == \A c \in Calls : fate[c] = "acked" => outcome[c] # {}
Launched ==
    \A c \in SyncCalls : pc[c] = "waiting" => fate[c] # "none" /\ wait[c] # "off"

Served == DoneStored /\ DoneHeld /\ DoneUsed /\ WaiterStands /\ AckedRun /\ Launched

\* What is alone with its execution is never copied.
LEMMA AloneUncopied ==
    ASSUME IInv, NEW c \in Calls, Alone(c)
    PROVE  fate[c] # "copied"
BY DEF IInv, Unrun, Alone

\* How the status of a job and the place of its call change.
LEMMA StatusMoves ==
    ASSUME IInv, Keyed, [Next]_vars
    PROVE  /\ \A c \in Calls : Status'[c] = "accepted" =>
                 Status[c] = "accepted" \/ (pc[c] = "stored" /\ Enqueue(c))
           /\ \A c \in Calls : Status'[c] = "completed" =>
                 Status[c] = "completed" \/ \E w \in Workers : Execute(w) /\ job[w] = c
<1> DEFINE Good == /\ \A c \in Calls : Status'[c] = "accepted" =>
                         Status[c] = "accepted" \/ (pc[c] = "stored" /\ Enqueue(c))
                   /\ \A c \in Calls : Status'[c] = "completed" =>
                         Status[c] = "completed" \/ \E w \in Workers : Execute(w) /\ job[w] = c
<1>0. DOMAIN Status = Calls /\ DOMAIN Status' = Calls
    BY DEF Status
<1>1. CASE Status' = Status
    BY <1>1
<1>2. ASSUME NEW c \in Calls, Enqueue(c)
      PROVE  Good
    <2>1. Status' = [Status EXCEPT ![c] = "accepted"] /\ pc[c] = "stored"
        BY <1>2, EnqueueAccepts DEF Service!Accept, Service!Move, Enqueue
    <2> QED BY <1>0, <1>2, <2>1
<1>3. ASSUME NEW w \in Workers, Take(w)
      PROVE  Good
    <2>1. Status' \in {Status, [Status EXCEPT ![job[w]] = "running"]}
        BY <1>3, TakeStarts, CopiedQuiet, OneHolder DEF Service!Start, Service!Move, Take, Busy
    <2> QED BY <1>0, <2>1
<1>4. ASSUME NEW w \in Workers, Execute(w)
      PROVE  Good
    <2>1. Status' \in {Status, [Status EXCEPT ![job[w]] = "completed"]}
        BY <1>4, ExecuteCompletes, CopiedQuiet, OneHolder
           DEF Service!Complete, Service!Move, Execute, Busy
    <2> QED BY <1>0, <1>4, <2>1
<1>5. CASE Service!Disrupt
    BY <1>5 DEF Service!Disrupt, Service!Setback
<1>6. CASE \/ \E c \in Calls :
                 Submit(c) \/ EnqueueFails(c) \/ Return(c) \/ WaitResult(c) \/ Requeue(c)
           \/ \E w \in Workers : Dequeue(w) \/ Claim(w) \/ Quit(w)
           \/ UNCHANGED vars
    BY <1>1, <1>6, QuietSteps
<1>7. ASSUME NEW w \in Workers, Deliver(w) \/ Keep(w) \/ Nack(w)
      PROVE  Good
    BY <1>1, <1>5, <1>7, AcknowledgeKeepsStatus, NackDisrupts
<1>8. CASE (\E c \in Calls : GiveUp(c)) \/ Shutdown
    BY <1>5, <1>8, GiveUpDisrupts, ShutdownDisrupts
<1> QED BY <1>2, <1>3, <1>4, <1>6, <1>7, <1>8 DEF Next, Work

LEMMA CallMoves ==
    ASSUME IInv, [Next]_vars, NEW c \in Calls
    PROVE  /\ pc'[c] = "stored" => pc[c] = "stored" \/ (Submit(c) /\ pending'[key[c]] = c)
           /\ pc'[c] = "waiting" => pc[c] = "waiting" \/ Enqueue(c)
<1>1. pc \in [Calls -> {"idle", "stored", "waiting", "returned"}] /\ key \in [Calls -> Keys]
      /\ pending \in [Keys -> Calls \cup {NoCall}]
    BY DEF IInv, TypeOK
<1>2. ASSUME NEW d \in Calls, Submit(d) \/ Enqueue(d) \/ EnqueueFails(d) \/ Return(d)
      PROVE  /\ pc'[c] = "stored" => pc[c] = "stored" \/ (Submit(c) /\ pending'[key[c]] = c)
             /\ pc'[c] = "waiting" => pc[c] = "waiting" \/ Enqueue(c)
    <2>1. CASE Submit(d)
        BY <1>1, <2>1 DEF Submit
    <2>2. CASE Enqueue(d)
        BY <1>1, <2>2 DEF Enqueue
    <2>3. CASE EnqueueFails(d)
        BY <1>1, <2>3 DEF EnqueueFails
    <2>4. CASE Return(d)
        BY <1>1, <2>4 DEF Return
    <2> QED BY <1>2, <2>1, <2>2, <2>3, <2>4
<1>3. CASE UNCHANGED pc
    BY <1>3
<1>4. CASE \E d \in Calls : WaitResult(d)
    BY <1>3, <1>4 DEF WaitResult, Check, RegisterWaiter, Recheck, Unregister, Receive, Leave, callVars
<1>5. CASE \E w \in Workers : Work(w) \/ Quit(w)
    <2>1. PICK w \in Workers : Work(w) \/ Quit(w)
        BY <1>5
    <2>2. UNCHANGED pc
        BY <2>1 DEF Work, Quit, Dequeue, Nack, Take, Execute, Claim, Deliver, Keep, Acknowledged, callVars
    <2> QED BY <1>3, <2>2
<1>6. CASE (\E d \in Calls : Requeue(d) \/ GiveUp(d)) \/ Shutdown \/ UNCHANGED vars
    BY <1>3, <1>6 DEF Requeue, GiveUp, Shutdown, vars, callVars
<1> QED BY <1>2, <1>4, <1>5, <1>6 DEF Next

LEMMA DoneStoredKept ==
    ASSUME IInv, Keyed, DoneStored, [Next]_vars
    PROVE  DoneStored'
<1>1. /\ key' = key /\ key \in [Calls -> Keys] /\ pending \in [Keys -> Calls \cup {NoCall}]
      /\ pc \in [Calls -> {"idle", "stored", "waiting", "returned"}]
    BY WhoChanges DEF IInv, TypeOK
<1> SUFFICES ASSUME NEW c \in Calls, Alone(c), pc'[c] = "stored" \/ Status'[c] = "accepted"
             PROVE  pending'[key[c]] = c
    BY <1>1 DEF DoneStored, Alone
<1>2. CASE Submit(c) /\ pending'[key[c]] = c
    BY <1>2
<1>3. CASE pc[c] = "stored" \/ Status[c] = "accepted"
    <2>1. pending[key[c]] = c
        BY <1>3 DEF DoneStored
    <2>2. CASE UNCHANGED pending
        BY <2>1, <2>2
    <2>3. ASSUME NEW d \in Calls, d # c, Submit(d) \/ EnqueueFails(d)
          PROVE  pending'[key[c]] = c
        <3>1. key[d] # key[c]
            BY <2>3 DEF Alone
        <3> QED BY <1>1, <2>1, <2>3, <3>1 DEF Submit, EnqueueFails
    <2>4. CASE Submit(c) \/ EnqueueFails(c)
        <3>1. Status[c] = "none" /\ Status' = Status
            <4>1. fate[c] = "none" /\ outcome[c] = {}
                BY <2>4 DEF Submit, EnqueueFails, IInv, Unrun
            <4>2. ~AtWork(c)
                BY <4>1, OneHolder DEF AtWork, Busy
            <4> QED BY <2>4, <4>1, <4>2, QuietSteps DEF Status
        <3>2. pc[c] = "stored" /\ EnqueueFails(c)
            BY <1>3, <2>4, <3>1 DEF Submit
        <3> QED BY <1>1, <3>1, <3>2 DEF EnqueueFails
    <2>5. ASSUME NEW w \in Workers, Take(w)
          PROVE  pending'[key[c]] = c
        <3>1. job[w] \in Calls /\ pending' = [pending EXCEPT ![key[job[w]]] = NoCall] /\ pc' = pc
            BY <2>5, OneHolder DEF Take, Busy
        <3>2. CASE job[w] # c
            BY <1>1, <2>1, <3>1, <3>2 DEF Alone
        <3>3. CASE job[w] = c
            <4>1. fate[c] = "open" /\ pc'[c] # "stored"
                BY <2>5, <3>1, <3>3, OneHolder, AloneUncopied DEF Take, Busy, IInv, Unrun
            <4>2. Status' = [Status EXCEPT ![c] = "running"] /\ DOMAIN Status = Calls
                BY <2>5, <3>3, <4>1, TakeStarts DEF Service!Start, Service!Move, Status
            <4> QED BY <4>1, <4>2
        <3> QED BY <3>2, <3>3
    <2> QED BY <2>2, <2>3, <2>4, <2>5, WhoChanges
<1> QED BY <1>2, <1>3, StatusMoves, CallMoves

LEMMA DoneHeldKept ==
    ASSUME IInv, Keyed, DoneStored, DoneHeld, [Next]_vars
    PROVE  DoneHeld'
<1>1. /\ key' = key /\ key \in [Calls -> Keys]
      /\ wpc \in [Workers -> {"idle", "got", "taken", "ran", "claimed", "unclaimed", "stopped"}]
      /\ target \in [Workers -> Calls \cup {NoCall}] /\ job \in [Workers -> Calls \cup {NoCall}]
    BY WhoChanges DEF IInv, TypeOK
<1> SUFFICES ASSUME NEW v \in Workers, wpc'[v] = "taken", Alone(job'[v])
             PROVE  target'[v] = job'[v]
    BY <1>1 DEF DoneHeld, Alone
<1>2. CASE wpc'[v] = wpc[v] /\ target'[v] = target[v] /\ job'[v] = job[v]
    BY <1>2 DEF DoneHeld
<1>3. ASSUME NEW w \in Workers, Work(w) \/ Quit(w)
      PROVE  target'[v] = job'[v]
    <2>1. CASE Dequeue(w) \/ Quit(w)
        BY <1>1, <1>2, <2>1 DEF Dequeue, Quit
    <2>2. CASE Take(w)
        <3>1. CASE v # w
            BY <1>1, <1>2, <2>2, <3>1 DEF Take
        <3>2. CASE v = w
            <4>1. /\ job'[w] = job[w] /\ target'[w] = pending[key[job[w]]]
                  /\ job[w] \in Calls /\ fate[job[w]] \in {"open", "copied"}
                BY <1>1, <2>2, OneHolder DEF Take, Busy
            <4>2. Alone(job[w])
                BY <1>1, <3>2, <4>1 DEF Alone
            <4>3. Status[job[w]] = "accepted"
                BY <2>2, <4>1, <4>2, AloneUncopied, TakeStarts DEF Service!Start, Service!Move
            <4> QED BY <3>2, <4>1, <4>2, <4>3 DEF DoneStored
        <3> QED BY <3>1, <3>2
    <2>3. CASE Execute(w) \/ Claim(w)
        BY <1>1, <1>2, <2>3 DEF Execute, Claim
    <2>4. CASE Nack(w) \/ Deliver(w) \/ Keep(w)
        BY <1>1, <1>2, <2>4 DEF Nack, Deliver, Keep, Acknowledged, NextTurn
    <2> QED BY <1>3, <2>1, <2>2, <2>3, <2>4 DEF Work
<1> QED BY <1>2, <1>3, WhoChanges

LEMMA DoneUsedKept ==
    ASSUME IInv, Keyed, DoneHeld, DoneUsed, [Next]_vars
    PROVE  DoneUsed'
<1>1. key' = key /\ done \in [Calls -> Results]
    BY WhoChanges DEF IInv, TypeOK
<1> SUFFICES ASSUME NEW c \in Calls, Alone(c), Status'[c] = "completed"
             PROVE  done'[c] # Nothing
    BY <1>1 DEF DoneUsed, Alone
<1>2. ASSUME NEW w \in Workers, Execute(w)
      PROVE  /\ done[c] # Nothing => done'[c] # Nothing
             /\ job[w] = c => done'[c] # Nothing
    <2>1. wpc[w] = "taken" /\ job[w] \in Calls
        BY <1>2, OneHolder DEF Execute, Busy
    <2>2. PICK o \in Outcomes :
              done' = IF target[w] # NoCall /\ done[target[w]] = Nothing
                      THEN [done EXCEPT ![target[w]] = DirectResult(job[w], o)]
                      ELSE done
        BY <1>2 DEF Execute
    <2>3. DirectResult(job[w], o) # Nothing
        BY DEF DirectResult, Nothing
    <2>4. job[w] = c => target[w] = c
        BY <2>1 DEF DoneHeld
    <2> QED BY <1>1, <2>2, <2>3, <2>4, DispatchAssumption
<1>3. done[c] # Nothing => done'[c] # Nothing
    BY <1>2, WhoChanges
<1> QED BY <1>2, <1>3, StatusMoves DEF DoneUsed

LEMMA WaitersMove ==
    ASSUME IInv, [Next]_vars
    PROVE  /\ UNCHANGED waiters \/ (\E c \in Calls : WaitResult(c)) \/ \E w \in Workers : Claim(w)
           /\ \A c \in Calls :
                 \/ fate'[c] = fate[c]
                 \/ fate'[c] \in {"open", "lost", "copied"}
                 \/ /\ fate'[c] = "acked"
                    /\ \E w \in Workers : (Deliver(w) \/ Keep(w)) /\ job[w] = c
<1>1. CASE \E c \in Calls : Submit(c) \/ Enqueue(c) \/ EnqueueFails(c) \/ Return(c)
    BY <1>1 DEF Submit, Enqueue, EnqueueFails, Return, waitVars, workVars, IInv, TypeOK
<1>2. CASE \E c \in Calls : WaitResult(c)
    BY <1>2 DEF WaitResult, Check, RegisterWaiter, Recheck, Unregister, Receive, Leave, workVars
<1>3. ASSUME NEW w \in Workers, Work(w) \/ Quit(w)
      PROVE  /\ UNCHANGED waiters \/ Claim(w)
             /\ \A c \in Calls :
                   \/ fate'[c] = fate[c]
                   \/ fate'[c] \in {"open", "lost", "copied"}
                   \/ fate'[c] = "acked" /\ (Deliver(w) \/ Keep(w)) /\ job[w] = c
    <2>1. CASE Dequeue(w) \/ Quit(w) \/ Take(w) \/ Execute(w) \/ Claim(w)
        BY <2>1 DEF Dequeue, Quit, Take, Execute, Claim, waitVars, workVars
    <2>2. CASE Nack(w)
        BY <2>2 DEF Nack, waitVars
    <2>3. CASE Deliver(w) \/ Keep(w)
        <3>1. waiters' = waiters
            BY <2>3 DEF Deliver, Keep, Acknowledged
        <3>2. PICK f \in {"copied", "acked"} : fate' = [fate EXCEPT ![job[w]] = f]
            BY <2>3 DEF Deliver, Keep, Acknowledged
        <3>3. \A c \in Calls : fate'[c] = fate[c] \/ (c = job[w] /\ fate'[c] = f)
            BY <3>2 DEF IInv, TypeOK
        <3> QED BY <2>3, <3>1, <3>3
    <2> QED BY <1>3, <2>1, <2>2, <2>3 DEF Work
<1>4. CASE \E c \in Calls : Requeue(c) \/ GiveUp(c)
    BY <1>4 DEF Requeue, GiveUp, waitVars, IInv, TypeOK
<1>5. CASE Shutdown \/ UNCHANGED vars
    BY <1>5 DEF Shutdown, vars, waitVars, workVars
<1> QED BY <1>1, <1>2, <1>3, <1>4, <1>5 DEF Next

LEMMA WaiterStandsKept ==
    ASSUME IInv, Keyed, WaiterStands, [Next]_vars
    PROVE  WaiterStands'
<1>1. /\ key' = key /\ key \in [Calls -> Keys] /\ waiters \in [Keys -> Calls \cup {NoCall}]
      /\ completed \in [Keys -> Results]
      /\ wait \in [Calls -> {"off", "check", "register", "recheck", "unregister",
                             "select", "drain", "over"}]
    BY WhoChanges DEF IInv, TypeOK
<1> SUFFICES ASSUME NEW c \in Calls, Alone(c), outcome'[c] = {}
             PROVE  /\ wait'[c] # "drain"
                    /\ wait'[c] \in {"recheck", "select"} => waiters'[key[c]] = c
    BY <1>1 DEF WaiterStands, Alone
<1>2. /\ outcome[c] = {} /\ wait[c] # "drain"
      /\ wait[c] \in {"recheck", "select"} => waiters[key[c]] = c
    BY AnswersStay DEF WaiterStands
<1>3. CASE wait'[c] = wait[c] /\ waiters'[key[c]] = waiters[key[c]]
    BY <1>2, <1>3
<1>4. ASSUME NEW d \in Calls, d # c, WaitResult(d)
      PROVE  wait'[c] = wait[c] /\ waiters'[key[c]] = waiters[key[c]]
    <2>1. key[d] # key[c] /\ key[d] \in Keys
        BY <1>1, <1>4 DEF Alone
    <2>2. CASE Check(d) \/ Unregister(d) \/ Receive(d) \/ Leave(d)
        BY <1>1, <1>4, <2>1, <2>2 DEF Check, Unregister, Receive, Leave, WaitOver
    <2>3. CASE RegisterWaiter(d) \/ Recheck(d)
        BY <1>1, <1>4, <2>1, <2>3 DEF RegisterWaiter, Recheck
    <2> QED BY <1>4, <2>2, <2>3 DEF WaitResult
<1>5. CASE WaitResult(c)
    <2>1. CASE Check(c) \/ Unregister(c) \/ Receive(c)
        BY <1>1, <2>1 DEF Check, Unregister, Receive, WaitOver
    <2>2. CASE RegisterWaiter(c)
        <3>1. waiters[key[c]] # NoCall => waiters[key[c]] = c
            BY <1>1 DEF IInv, Channels, Alone
        <3> QED BY <1>1, <2>2, <3>1 DEF RegisterWaiter
    <2>3. CASE Recheck(c)
        <3>1. completed[key[c]] = Nothing
            <4> SUFFICES ASSUME completed[key[c]] # Nothing PROVE FALSE
                OBVIOUS
            <4>1. PICK d \in Calls : key[d] = key[c] /\ outcome[d] # {}
                BY <1>1 DEF Keyed, CompletedKeyed, Settled
            <4> QED BY <1>2, <4>1 DEF Alone
        <3>2. waiters' = waiters /\ wait[c] = "recheck" /\ wait' = [wait EXCEPT ![c] = "select"]
            BY <2>3, <3>1 DEF Recheck
        <3> QED BY <1>1, <1>2, <3>2
    <2>4. CASE Leave(c)
        <3>1. waiters[key[c]] # NoCall
            BY <1>2, <2>4, DispatchAssumption DEF Leave
        <3> QED BY <1>1, <2>4, <3>1 DEF Leave, WaitOver
    <2> QED BY <1>5, <2>1, <2>2, <2>3, <2>4 DEF WaitResult
<1>6. ASSUME NEW w \in Workers, Claim(w)
      PROVE  waiters'[key[c]] = waiters[key[c]]
    <2>1. job[w] \in Calls /\ outcome[job[w]] # {}
        BY <1>6, OneHolder DEF Claim, Busy, Keyed, TargetsKeyed
    <2>2. key[job[w]] # key[c]
        BY <1>2, <2>1 DEF Alone
    <2> QED BY <1>1, <1>6, <2>2 DEF Claim
<1>7. ASSUME NEW d \in Calls, Enqueue(d)
      PROVE  /\ wait'[c] # "drain"
             /\ wait'[c] \in {"recheck", "select"} => waiters'[key[c]] = c
    BY <1>1, <1>2, <1>7 DEF Enqueue
<1>8. CASE \E d \in Calls : WaitResult(d)
    BY <1>3, <1>4, <1>5, <1>8
<1>9. CASE \E d \in Calls : Enqueue(d)
    BY <1>7, <1>9
<1>10. CASE wait' = wait
    BY <1>3, <1>6, <1>8, <1>10, WaitersMove
<1> QED BY <1>8, <1>9, <1>10, WhoChanges

LEMMA AckedRunKept ==
    ASSUME IInv, Keyed, AckedRun, [Next]_vars
    PROVE  AckedRun'
<1>1. fate \in [Calls -> {"none", "open", "acked", "lost", "copied"}]
    BY DEF IInv, TypeOK
<1> SUFFICES ASSUME NEW c \in Calls, fate'[c] = "acked"
             PROVE  outcome[c] # {}
    BY AnswersStay DEF AckedRun
<1>2. CASE fate[c] = "acked"
    BY <1>2 DEF AckedRun
<1>3. ASSUME NEW w \in Workers, Deliver(w) \/ Keep(w)
      PROVE  outcome[job[w]] # {} /\ job[w] \in Calls
    BY <1>3, OneHolder DEF Deliver, Keep, Busy, Keyed, TargetsKeyed
<1> QED BY <1>1, <1>2, <1>3, WaitersMove

LEMMA LaunchedKept ==
    ASSUME IInv, Launched, [Next]_vars
    PROVE  Launched'
<1>1. /\ fate \in [Calls -> {"none", "open", "acked", "lost", "copied"}]
      /\ wait \in [Calls -> {"off", "check", "register", "recheck", "unregister",
                             "select", "drain", "over"}]
    BY DEF IInv, TypeOK
<1> SUFFICES ASSUME NEW c \in SyncCalls, pc'[c] = "waiting"
             PROVE  fate'[c] # "none" /\ wait'[c] # "off"
    BY DEF Launched
<1>2. c \in Calls
    BY DispatchAssumption
<1>3. CASE Enqueue(c)
    BY <1>1, <1>2, <1>3 DEF Enqueue
<1>4. CASE pc[c] = "waiting"
    <2>1. fate[c] # "none" /\ wait[c] # "off"
        BY <1>4 DEF Launched
    <2>2. fate'[c] # "none"
        BY <1>1, <1>2, <2>1, WaitersMove
    <2>3. ASSUME NEW d \in Calls, Enqueue(d)
          PROVE  wait'[c] # "off"
        BY <1>1, <1>2, <1>4, <2>1, <2>3 DEF Enqueue
    <2>4. ASSUME NEW d \in Calls, WaitResult(d)
          PROVE  wait'[c] # "off"
        <3>1. CASE Check(d) \/ Unregister(d) \/ Receive(d) \/ Leave(d)
            BY <1>1, <1>2, <2>1, <3>1 DEF Check, Unregister, Receive, Leave, WaitOver
        <3>2. CASE RegisterWaiter(d) \/ Recheck(d)
            BY <1>1, <1>2, <2>1, <3>2 DEF RegisterWaiter, Recheck
        <3> QED BY <2>4, <3>1, <3>2 DEF WaitResult
    <2>5. wait'[c] # "off"
        BY <2>1, <2>3, <2>4, WhoChanges
    <2> QED BY <2>2, <2>5
<1> QED BY <1>2, <1>3, <1>4, CallMoves

\* A RunSync that is alone and waits has its answer in Done, or its job is
\* still to put it there, or a shutdown gave the job up; and until the job has
\* run its waiter is registered, so that a shutdown can turn the wait away.
THEOREM SyncAnsweredHolds ==
    Spec => []SyncAnswered
<1>1. Init => Served
    <2> SUFFICES ASSUME Init PROVE Served
        OBVIOUS
    <2>1. \A c \in Calls : Status[c] = "none"
        BY DEF Init, Status, AtWork
    <2> QED BY <2>1, DispatchAssumption
            DEF Init, Served, DoneStored, DoneHeld, DoneUsed, WaiterStands, AckedRun, Launched
<1>2. IInv /\ Keyed /\ Served /\ [Next]_vars => Served'
    BY DoneStoredKept, DoneHeldKept, DoneUsedKept, WaiterStandsKept, AckedRunKept, LaunchedKept DEF Served
<1>3. IInv /\ Keyed /\ Served => SyncAnswered
    <2> SUFFICES ASSUME IInv, Keyed, Served, NEW c \in SyncCalls, Alone(c), pc[c] = "waiting",
                        done[c] = Nothing
                 PROVE  /\ outcome[c] = {}
                        /\ \/ Status[c] = "accepted" /\ pending[key[c]] = c
                           \/ \E w \in Workers : wpc[w] = "taken" /\ job[w] = c /\ target[w] = c
                           \/ fate[c] = "lost" /\ stage # "running"
                        /\ wait[c] \notin {"off", "drain"}
                        /\ wait[c] \in {"recheck", "select"} => waiters[key[c]] = c
        BY DEF SyncAnswered
    <2>1. c \in Calls
        BY DispatchAssumption
    <2>2. Status[c] # "completed"
        BY <2>1 DEF Served, DoneUsed
    <2>3. fate[c] # "copied"
        BY <2>1, AloneUncopied
    <2>4. AtWork(c) => outcome[c] = {}
        BY <2>3, OneHolder DEF AtWork, Busy, IInv, Unrun
    <2>5. outcome[c] = {}
        BY <2>1, <2>2, <2>3, <2>4 DEF Status
    <2>6. fate[c] # "none" /\ wait[c] # "off"
        BY DEF Served, Launched
    <2>7. CASE AtWork(c)
        <3>1. PICK w \in Workers : wpc[w] = "taken" /\ job[w] = c
            BY <2>7 DEF AtWork
        <3>2. target[w] = c
            BY <3>1 DEF Served, DoneHeld
        <3> QED BY <2>1, <2>5, <2>6, <3>1, <3>2 DEF Served, WaiterStands
    <2>8. CASE fate[c] = "lost"
        BY <2>1, <2>5, <2>6, <2>8 DEF Served, WaiterStands, IInv, Unrun
    <2>9. CASE ~AtWork(c) /\ fate[c] = "open"
        <3>1. Status[c] = "accepted"
            BY <2>1, <2>5, <2>9 DEF Status
        <3> QED BY <2>1, <2>5, <2>6, <3>1 DEF Served, WaiterStands, DoneStored
    <2>10. fate[c] # "acked"
        BY <2>1, <2>5 DEF Served, AckedRun
    <2> QED BY <2>1, <2>3, <2>6, <2>7, <2>8, <2>9, <2>10 DEF IInv, TypeOK
<1> QED BY <1>1, <1>2, <1>3, LocalInductive, AnswersInductive, PTL DEF Spec
=============================================================================
