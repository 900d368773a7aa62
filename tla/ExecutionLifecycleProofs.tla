----------------------- MODULE ExecutionLifecycleProofs -----------------------
(***************************************************************************)
(* Proofs about ExecutionLifecycle, for every set of executions, any       *)
(* number of jobs for each and any number of failures.  The invariant      *)
(* says of each execution how its row, its jobs, the register, the         *)
(* timer's list and what runs aside fit together; a step touches one       *)
(* execution or two, and leaves what is said of the others alone.          *)
(***************************************************************************)
EXTENDS ExecutionLifecycle, TLAPS

Statuses == Absent \cup Terminal \cup {"running", "waiting"}

\* Jobs that are on their way to a run or in it, and jobs that hold the entry
\* in the register.
Coming == {"queued", "passed", "running"}
Past == {"failed", "handling", "leaving"}
Entered == {"running"} \cup Past

JobFree(e) == \A s \in Slots(e) : job[e][s] = "free"

Listed(e) == \E last \in BOOLEAN : <<e, last>> \in listed

\* The row and the jobs of an execution are well formed.
WellFormed(e) ==
    /\ row[e] \in [status : Statuses, finished : BOOLEAN,
                   till : {"null", "later", "due"}, last : BOOLEAN]
    /\ row[e].finished <=> row[e].status \in Terminal
    /\ row[e].till # "null" <=> row[e].status = "waiting"
    /\ job[e] \in [Slots(e) -> JobStates]

\* One job has the entry in the register, if there is one, and an error
\* workflow is running exactly while that job handles it.
EntryFits(e) ==
    /\ \A s, t \in Slots(e) : job[e][s] \in Entered /\ job[e][t] \in Entered => s = t
    /\ e \in active <=> \E s \in Slots(e) : job[e][s] \in Entered
    /\ handler[e] # NoId <=> \E s \in Slots(e) : job[e][s] = "handling"

\* What runs aside has no jobs and has not been read by the timer; it says
\* "running" until it ends, unless it is deleted.
AsideFits(e) ==
    Aside(e) => /\ row[e].status \in {"running", "deleted"}
                /\ JobFree(e) /\ e \notin fresh /\ ~Listed(e)

UnbornFits(e) ==
    row[e].status = "unborn" => JobFree(e) /\ e \notin fresh /\ ~Listed(e) /\ ~Aside(e)

\* A run that is over has left its mark on the row.
PastFits(e) ==
    \A s \in Slots(e) :
        job[e][s] \in Past => row[e].status # "running" \/ e \in abandoned

\* What says "running" has somebody to settle it.
RunnerFits(e) ==
    up /\ row[e].status = "running" =>
        \/ e \in fresh \cup abandoned
        \/ \E s \in Slots(e) : job[e][s] \in Coming
        \/ Aside(e)

\* An execution that was never resumed has one job at most, the one it was
\* created for, and is neither settled nor waiting before that has run.
OnceFits(e) ==
    e \notin resumed =>
        /\ \A s, t \in Slots(e) : job[e][s] # "free" /\ job[e][t] # "free" => s = t
        /\ e \in fresh => JobFree(e)
        /\ e \in fresh \/ (\E s \in Slots(e) : job[e][s] \in Coming)
              => row[e].status \in {"running", "deleted"}
        /\ Listed(e) => row[e].status \in {"waiting", "deleted"}

Fits(e) ==
    /\ WellFormed(e)
    /\ EntryFits(e)
    /\ AsideFits(e)
    /\ UnbornFits(e)
    /\ PastFits(e)
    /\ RunnerFits(e)
    /\ OnceFits(e)

Shape ==
    /\ up \in BOOLEAN
    /\ DOMAIN row = Ids /\ DOMAIN job = Ids
    /\ handler \in [Ids -> Ids \cup {NoId}]
    /\ fresh \subseteq Ids /\ active \subseteq Ids /\ subs \subseteq Ids
    /\ listed \subseteq Ids \X BOOLEAN
    /\ resumed \subseteq Ids /\ abandoned \subseteq Ids
    /\ mishaps \in 0..MaxMishaps

\* No execution runs aside twice.
AsideOnce ==
    \A e \in Ids : handler[e] # NoId =>
        /\ handler[e] \notin subs
        /\ \A f \in Ids : handler[f] = handler[e] => f = e

\* A process that is down has nothing in memory.
Down ==
    ~up => /\ fresh = {} /\ active = {} /\ subs = {} /\ listed = {}
           /\ \A e \in Ids : JobFree(e) /\ handler[e] = NoId

IInv == Shape /\ AsideOnce /\ Down /\ \A e \in Ids : Fits(e)

-----------------------------------------------------------------------------
\* What is said of an execution stays true when a step leaves it alone.
LEMMA Untouched ==
    ASSUME NEW e \in Ids, Fits(e),
           row'[e] = row[e], job'[e] = job[e], handler'[e] = handler[e],
           up' = up,
           e \in fresh' <=> e \in fresh,
           e \in active' <=> e \in active,
           Aside(e)' <=> Aside(e),
           Listed(e)' <=> Listed(e),
           resumed \subseteq resumed', abandoned \subseteq abandoned'
    PROVE  Fits(e)'
<1>1. WellFormed(e)' /\ EntryFits(e)'
  BY DEF Fits, WellFormed, EntryFits, Slots
<1>2. AsideFits(e)' /\ UnbornFits(e)'
  BY DEF Fits, AsideFits, UnbornFits, JobFree, Slots
<1>3. PastFits(e)' /\ RunnerFits(e)'
  BY DEF Fits, PastFits, RunnerFits, Slots
<1>4. OnceFits(e)'
  BY DEF Fits, OnceFits, JobFree, Slots
<1>5. QED
  BY <1>1, <1>2, <1>3, <1>4 DEF Fits

\* A job moves and the others stay.
LEMMA SetJobEffect ==
    ASSUME NEW e \in Ids, NEW s \in Slots(e), NEW state \in JobStates,
           DOMAIN job = Ids, job[e] \in [Slots(e) -> JobStates],
           SetJob(e, s, state)
    PROVE  /\ DOMAIN job' = Ids
           /\ job'[e] \in [Slots(e) -> JobStates]
           /\ job'[e][s] = state
           /\ \A t \in Slots(e) \ {s} : job'[e][t] = job[e][t]
           /\ \A f \in Ids \ {e} : job'[f] = job[f]
  BY DEF SetJob

\* A job is dispatched to a slot that was free.
LEMMA DispatchEffect ==
    ASSUME NEW e \in Ids, Dispatch(e)
    PROVE  \E s \in Slots(e) : job[e][s] = "free" /\ SetJob(e, s, "queued")
  BY DEF Dispatch, HasFree, FirstFree

\* What Finish does to the rows.
LEMMA FinishedEffect ==
    ASSUME NEW e \in Ids, NEW status, DOMAIN row = Ids, row' = Finished(e, status)
    PROVE  /\ DOMAIN row' = Ids
           /\ \A f \in Ids \ {e} : row'[f] = row[f]
           /\ Exists(e) => row'[e] = Row(status, TRUE, "null", FALSE)
           /\ ~Exists(e) => row'[e] = row[e]
  BY DEF Finished

\* What MarkWaiting does to the rows.
LEMMA MarkedWaitingEffect ==
    ASSUME NEW e \in Ids, NEW last, DOMAIN row = Ids, row' = MarkedWaiting(e, last)
    PROVE  /\ DOMAIN row' = Ids
           /\ \A f \in Ids \ {e} : row'[f] = row[f]
           /\ Exists(e) => row'[e] = Row("waiting", FALSE, "later", last)
           /\ ~Exists(e) => row'[e] = row[e]
  BY DEF MarkedWaiting

\* A step of a running process that touches one execution, and nothing that
\* runs aside.
Touches(e) ==
    /\ up /\ up' = up
    /\ DOMAIN row' = Ids /\ DOMAIN job' = Ids
    /\ \A x \in Ids \ {e} :
          /\ row'[x] = row[x]
          /\ job'[x] = job[x]
          /\ x \in fresh' <=> x \in fresh
          /\ x \in active' <=> x \in active
          /\ Listed(x)' <=> Listed(x)
    /\ UNCHANGED <<handler, subs>>
    /\ fresh' \subseteq Ids /\ active' \subseteq Ids
    /\ listed' \subseteq Ids \X BOOLEAN
    /\ resumed \subseteq resumed' /\ resumed' \subseteq Ids
    /\ abandoned \subseteq abandoned' /\ abandoned' \subseteq Ids
    /\ mishaps' \in 0..MaxMishaps

\* A step that touches one execution keeps the invariant if that execution
\* still fits afterwards.
LEMMA TouchesKeeps ==
    ASSUME IInv, NEW e \in Ids, Touches(e), Fits(e)'
    PROVE  IInv'
<1>1. Shape' /\ AsideOnce' /\ Down'
  BY DEF IInv, Shape, AsideOnce, Down, Touches
<1>2. ASSUME NEW x \in Ids, x # e PROVE Fits(x)'
  <2>1. Fits(x) /\ x \in Ids \ {e}
    BY <1>2 DEF IInv
  <2>2. (Aside(x)' <=> Aside(x)) /\ handler'[x] = handler[x]
    BY DEF Aside, Touches
  <2>3. QED
    BY <2>1, <2>2, Untouched DEF Touches
<1>3. QED
  BY <1>1, <1>2 DEF IInv

\* Moving a job is such a step.
LEMMA JobMoves ==
    ASSUME IInv, up, NEW e \in Ids, NEW s \in Slots(e), NEW state \in JobStates,
           SetJob(e, s, state), UNCHANGED <<up, handler, subs, listed>>,
           DOMAIN row' = Ids, \A x \in Ids \ {e} : row'[x] = row[x],
           fresh' \in {fresh, fresh \ {e}},
           active' \in {active, active \ {e}, active \cup {e}},
           resumed' \in {resumed, resumed \cup {e}},
           abandoned' \in {abandoned, abandoned \cup {e}},
           Mishap \/ NoMishap
    PROVE  /\ Touches(e)
           /\ job[e] \in [Slots(e) -> JobStates]
           /\ job'[e] \in [Slots(e) -> JobStates]
           /\ job'[e][s] = state
           /\ \A t \in Slots(e) \ {s} : job'[e][t] = job[e][t]
           /\ Aside(e)' <=> Aside(e)
           /\ Listed(e)' <=> Listed(e)
<1>1. Shape /\ job[e] \in [Slots(e) -> JobStates]
  BY DEF IInv, Fits, WellFormed
<1>2. /\ DOMAIN job' = Ids
      /\ job'[e] \in [Slots(e) -> JobStates]
      /\ job'[e][s] = state
      /\ \A t \in Slots(e) \ {s} : job'[e][t] = job[e][t]
      /\ \A x \in Ids \ {e} : job'[x] = job[x]
  BY <1>1, SetJobEffect DEF Shape
<1>3. \A x \in Ids : Listed(x)' <=> Listed(x)
  BY DEF Listed
<1>4. Aside(e)' <=> Aside(e)
  BY DEF Aside
<1>5. mishaps' \in 0..MaxMishaps
  BY <1>1, LifecycleAssumption DEF Shape, Mishap, NoMishap
<1>6. Touches(e)
  BY <1>1, <1>2, <1>3, <1>5 DEF Touches, Shape
<1>7. QED
  BY <1>1, <1>2, <1>3, <1>4, <1>6

\* An execution with a job that is not free exists or did, and does not run
\* aside, and the process is up.
LEMMA JobsOfItsOwn ==
    ASSUME IInv, NEW e \in Ids, NEW s \in Slots(e), job[e][s] # "free"
    PROVE  up /\ ~Aside(e) /\ row[e].status # "unborn" /\ Fits(e)
  BY DEF IInv, Down, Fits, AsideFits, UnbornFits, JobFree

-----------------------------------------------------------------------------
\* One lemma for each step.

\* A handler creates a row.
LEMMA CreateKeeps ==
    ASSUME IInv, NEW e \in Ids, Create(e)
    PROVE  IInv'
<1>1. /\ up /\ row[e].status = "unborn" /\ Fits(e) /\ Shape
      /\ row' = [row EXCEPT ![e] = Row("running", FALSE, "null", FALSE)]
      /\ fresh' = fresh \cup {e}
      /\ UNCHANGED <<up, job, active, handler, subs, listed, resumed, abandoned, mishaps>>
  BY DEF IInv, Create, Created, runVars, history
<1>2. ~Aside(e)' /\ ~Listed(e)' /\ JobFree(e)'
  BY <1>1 DEF Fits, UnbornFits, Aside, Listed, JobFree, Slots
<1>3. row'[e] = Row("running", FALSE, "null", FALSE)
  BY <1>1 DEF Shape
<1>4. Fits(e)'
  <2>1. WellFormed(e)'
    BY <1>1, <1>3 DEF Fits, WellFormed, Slots, Row, Statuses, Absent, Terminal
  <2>2. EntryFits(e)'
    BY <1>1 DEF Fits, EntryFits, Slots
  <2>3. AsideFits(e)' /\ UnbornFits(e)' /\ PastFits(e)'
    BY <1>2, <1>3 DEF AsideFits, UnbornFits, PastFits, JobFree, Past, Slots, Row
  <2>4. RunnerFits(e)' /\ OnceFits(e)'
    BY <1>1, <1>2, <1>3 DEF RunnerFits, OnceFits, JobFree, Coming, Slots, Row
  <2>5. QED
    BY <2>1, <2>2, <2>3, <2>4 DEF Fits
<1>5. Touches(e)
  BY <1>1 DEF Touches, Shape, Listed
<1>6. QED
  BY <1>4, <1>5, TouchesKeeps

\* It dispatches the job, or gives the execution up.
LEMMA DispatchNewKeeps ==
    ASSUME IInv, NEW e \in Ids, DispatchNew(e)
    PROVE  IInv'
<1>1. /\ up /\ Fits(e) /\ Shape
      /\ e \in fresh /\ fresh' = fresh \ {e}
      /\ UNCHANGED <<up, row, active, handler, subs, listed, resumed>>
  BY DEF IInv, Down, DispatchNew
<1>2. ~Aside(e) /\ row[e].status # "unborn"
  BY <1>1 DEF Fits, AsideFits, UnbornFits
<1>3. CASE Dispatch(e) /\ NoMishap /\ UNCHANGED abandoned
  <2>1. PICK s \in Slots(e) : job[e][s] = "free" /\ SetJob(e, s, "queued")
    BY <1>3, DispatchEffect
  <2>2. /\ Touches(e)
        /\ job[e] \in [Slots(e) -> JobStates]
        /\ job'[e] \in [Slots(e) -> JobStates]
        /\ job'[e][s] = "queued"
        /\ \A t \in Slots(e) \ {s} : job'[e][t] = job[e][t]
        /\ Aside(e)' <=> Aside(e)
        /\ Listed(e)' <=> Listed(e)
    BY <1>1, <1>3, <2>1, JobMoves DEF Shape, JobStates
  <2>3. WellFormed(e)'
    BY <1>1, <2>2 DEF Fits, WellFormed, Slots
  <2>4. EntryFits(e)' /\ PastFits(e)'
    BY <1>1, <1>3, <2>1, <2>2 DEF Fits, EntryFits, PastFits, Slots, Entered, Past
  <2>5. AsideFits(e)' /\ UnbornFits(e)' /\ RunnerFits(e)'
    BY <1>1, <1>2, <2>2 DEF AsideFits, UnbornFits, RunnerFits, Coming, Slots
  <2>6. OnceFits(e)'
    BY <1>1, <2>1, <2>2 DEF Fits, OnceFits, JobFree, Coming, Slots
  <2>7. QED
    BY <2>2, <2>3, <2>4, <2>5, <2>6, TouchesKeeps DEF Fits
<1>4. CASE Mishap /\ Abandon(e) /\ UNCHANGED job
  <2>1. (Aside(e)' <=> Aside(e)) /\ (Listed(e)' <=> Listed(e))
    BY <1>1 DEF Aside, Listed
  <2>2. Touches(e)
    BY <1>1, <1>4, LifecycleAssumption DEF Touches, Shape, Listed, Abandon, Mishap
  <2>3. WellFormed(e)' /\ EntryFits(e)'
    BY <1>1, <1>4 DEF Fits, WellFormed, EntryFits, Slots
  <2>4. AsideFits(e)' /\ UnbornFits(e)' /\ PastFits(e)' /\ RunnerFits(e)'
    BY <1>1, <1>2, <1>4, <2>1 DEF AsideFits, UnbornFits, PastFits, RunnerFits, Abandon
  <2>5. OnceFits(e)'
    BY <1>1, <1>4, <2>1 DEF Fits, OnceFits, JobFree, Slots
  <2>6. QED
    BY <2>2, <2>3, <2>4, <2>5, TouchesKeeps DEF Fits
<1>5. QED
  BY <1>3, <1>4 DEF DispatchNew

\* A waiting row becomes due, even while the process is down.
LEMMA TimePassesKeeps ==
    ASSUME IInv, NEW e \in Ids, TimePasses(e)
    PROVE  IInv'
<1>1. /\ Fits(e) /\ Shape /\ row[e].status = "waiting"
      /\ row' = [row EXCEPT ![e].till = "due"]
      /\ UNCHANGED <<up, fresh, job, active, handler, subs, listed, resumed, abandoned, mishaps>>
  BY DEF IInv, TimePasses, Waiting, runVars, history
<1>2. Shape' /\ AsideOnce' /\ Down'
  BY <1>1 DEF IInv, Shape, AsideOnce, Down, JobFree, Slots
<1>3. /\ \A x \in Ids : (Aside(x)' <=> Aside(x)) /\ (Listed(x)' <=> Listed(x))
      /\ \A x \in Ids \ {e} : row'[x] = row[x]
  BY <1>1 DEF Aside, Listed, Shape
<1>4. ASSUME NEW x \in Ids, x # e PROVE Fits(x)'
  BY <1>1, <1>3, <1>4, Untouched DEF IInv
<1>5. /\ row'[e] \in [status : Statuses, finished : BOOLEAN,
                      till : {"null", "later", "due"}, last : BOOLEAN]
      /\ row'[e].status = "waiting" /\ row'[e].till = "due"
      /\ row'[e].finished <=> row[e].finished
  BY <1>1 DEF Shape, Fits, WellFormed
<1>6. WellFormed(e)' /\ EntryFits(e)'
  BY <1>1, <1>5 DEF Fits, WellFormed, EntryFits, Slots
<1>7. AsideFits(e)' /\ UnbornFits(e)' /\ PastFits(e)' /\ RunnerFits(e)'
  BY <1>1, <1>3, <1>5 DEF Fits, AsideFits, UnbornFits, PastFits, RunnerFits
<1>8. OnceFits(e)'
  BY <1>1, <1>3, <1>5 DEF Fits, OnceFits, JobFree, Slots
<1>9. QED
  BY <1>2, <1>4, <1>6, <1>7, <1>8 DEF IInv, Fits

\* The timer reads what is due: only what waits.
LEMMA TimerTickKeeps ==
    ASSUME IInv, TimerTick
    PROVE  IInv'
<1>1. /\ up /\ Shape /\ listed = {}
      /\ listed' = {<<e, row[e].last>> : e \in {d \in Ids : Due(d)}}
      /\ UNCHANGED <<up, row, fresh, job, active, handler, subs, resumed, abandoned, mishaps>>
  BY DEF IInv, TimerTick, runVars, history
<1>2. listed' \subseteq Ids \X BOOLEAN
  BY <1>1 DEF IInv, Fits, WellFormed
<1>3. Shape' /\ AsideOnce' /\ Down'
  BY <1>1, <1>2 DEF IInv, Shape, AsideOnce, Down
<1>4. ASSUME NEW x \in Ids PROVE Fits(x)'
  <2>1. Fits(x) /\ ~Listed(x) /\ (Aside(x)' <=> Aside(x))
    BY <1>1 DEF IInv, Listed, Aside
  <2>2. Listed(x)' => row[x].status = "waiting"
    BY <1>1 DEF Listed, Due, Waiting
  <2>3. WellFormed(x)' /\ EntryFits(x)' /\ PastFits(x)'
    BY <1>1, <2>1 DEF Fits, WellFormed, EntryFits, PastFits, Slots
  <2>4. AsideFits(x)' /\ UnbornFits(x)' /\ RunnerFits(x)'
    BY <1>1, <2>1, <2>2 DEF Fits, AsideFits, UnbornFits, RunnerFits, JobFree, Slots
  <2>5. OnceFits(x)'
    BY <1>1, <2>1, <2>2 DEF Fits, OnceFits, JobFree, Slots
  <2>6. QED
    BY <2>3, <2>4, <2>5 DEF Fits
<1>5. QED
  BY <1>3, <1>4 DEF IInv

\* A job that the guard stops leaves a settled row behind.
LEMMA GuardKeeps ==
    ASSUME IInv, NEW e \in Ids, NEW s \in Slots(e), Guard(e, s)
    PROVE  IInv'
<1>1. /\ job[e][s] = "queued" /\ Shape
      /\ UNCHANGED <<up, row, fresh, active, handler, subs, listed, resumed, abandoned>>
  BY DEF IInv, Guard
<1>2. up /\ ~Aside(e) /\ row[e].status # "unborn" /\ Fits(e)
  BY <1>1, JobsOfItsOwn
<1>3. PICK state \in {"free", "passed"} :
         /\ SetJob(e, s, state) /\ (Mishap \/ NoMishap)
         /\ state = "free" => row[e].status # "running"
  BY DEF Guard, Settled, Terminal
<1>4. /\ Touches(e)
      /\ job[e] \in [Slots(e) -> JobStates]
      /\ job'[e] \in [Slots(e) -> JobStates]
      /\ job'[e][s] = state
      /\ \A t \in Slots(e) \ {s} : job'[e][t] = job[e][t]
      /\ Aside(e)' <=> Aside(e)
      /\ Listed(e)' <=> Listed(e)
  BY <1>1, <1>2, <1>3, JobMoves DEF Shape, JobStates
<1>5. WellFormed(e)' /\ EntryFits(e)' /\ PastFits(e)'
  BY <1>1, <1>2, <1>3, <1>4 DEF Fits, WellFormed, EntryFits, PastFits, Slots, Entered, Past
<1>6. AsideFits(e)' /\ UnbornFits(e)' /\ RunnerFits(e)'
  BY <1>1, <1>2, <1>3, <1>4 DEF AsideFits, UnbornFits, RunnerFits, Coming, Slots
<1>7. OnceFits(e)'
  BY <1>1, <1>2, <1>3, <1>4 DEF Fits, OnceFits, JobFree, Coming, Slots
<1>8. QED
  BY <1>4, <1>5, <1>6, <1>7, TouchesKeeps DEF Fits

\* A run that is refused its permit is given up.
LEMMA RefuseKeeps ==
    ASSUME IInv, NEW e \in Ids, NEW s \in Slots(e), Refuse(e, s)
    PROVE  IInv'
<1>1. /\ job[e][s] = "passed" /\ Shape
      /\ SetJob(e, s, "free") /\ Mishap /\ Abandon(e)
      /\ UNCHANGED <<up, row, fresh, active, handler, subs, listed, resumed>>
  BY DEF IInv, Refuse
<1>2. up /\ ~Aside(e) /\ row[e].status # "unborn" /\ Fits(e)
  BY <1>1, JobsOfItsOwn
<1>3. /\ Touches(e)
      /\ job[e] \in [Slots(e) -> JobStates]
      /\ job'[e] \in [Slots(e) -> JobStates]
      /\ job'[e][s] = "free"
      /\ \A t \in Slots(e) \ {s} : job'[e][t] = job[e][t]
      /\ Aside(e)' <=> Aside(e)
      /\ Listed(e)' <=> Listed(e)
  BY <1>1, <1>2, JobMoves DEF Shape, JobStates, Abandon
<1>4. WellFormed(e)' /\ EntryFits(e)' /\ PastFits(e)'
  BY <1>1, <1>2, <1>3 DEF Fits, WellFormed, EntryFits, PastFits, Slots, Entered, Past, Abandon
<1>5. AsideFits(e)' /\ UnbornFits(e)' /\ RunnerFits(e)'
  BY <1>1, <1>2, <1>3 DEF AsideFits, UnbornFits, RunnerFits, Abandon
<1>6. OnceFits(e)'
  BY <1>1, <1>2, <1>3 DEF Fits, OnceFits, JobFree, Coming, Slots
<1>7. QED
  BY <1>3, <1>4, <1>5, <1>6, TouchesKeeps DEF Fits

\* A run enters the register, where nobody else is.
LEMMA RegisterKeeps ==
    ASSUME IInv, NEW e \in Ids, NEW s \in Slots(e), Register(e, s)
    PROVE  IInv'
<1>1. /\ job[e][s] = "passed" /\ e \notin active /\ Shape
      /\ SetJob(e, s, "running") /\ active' = active \cup {e}
      /\ UNCHANGED <<up, row, fresh, handler, subs, listed, resumed, abandoned, mishaps>>
  BY DEF IInv, Register, history
<1>2. up /\ ~Aside(e) /\ row[e].status # "unborn" /\ Fits(e)
  BY <1>1, JobsOfItsOwn
<1>3. /\ Touches(e)
      /\ job[e] \in [Slots(e) -> JobStates]
      /\ job'[e] \in [Slots(e) -> JobStates]
      /\ job'[e][s] = "running"
      /\ \A t \in Slots(e) \ {s} : job'[e][t] = job[e][t]
      /\ Aside(e)' <=> Aside(e)
      /\ Listed(e)' <=> Listed(e)
  BY <1>1, <1>2, JobMoves DEF Shape, JobStates, NoMishap
<1>4. WellFormed(e)' /\ PastFits(e)'
  BY <1>1, <1>2, <1>3 DEF Fits, WellFormed, PastFits, Slots, Past
<1>5. EntryFits(e)'
  BY <1>1, <1>2, <1>3 DEF Fits, EntryFits, Slots, Entered, Past
<1>6. AsideFits(e)' /\ UnbornFits(e)' /\ RunnerFits(e)'
  BY <1>1, <1>2, <1>3 DEF AsideFits, UnbornFits, RunnerFits, Coming, Slots
<1>7. OnceFits(e)'
  BY <1>1, <1>2, <1>3 DEF Fits, OnceFits, JobFree, Coming, Slots
<1>8. QED
  BY <1>3, <1>4, <1>5, <1>6, <1>7, TouchesKeeps DEF Fits

\* A second run of an execution is turned away: whoever has the entry is the
\* one who settles the row.
LEMMA RejectDuplicateKeeps ==
    ASSUME IInv, NEW e \in Ids, NEW s \in Slots(e), RejectDuplicate(e, s)
    PROVE  IInv'
<1>1. /\ job[e][s] = "passed" /\ e \in active /\ Shape
      /\ SetJob(e, s, "free")
      /\ UNCHANGED <<up, row, fresh, active, handler, subs, listed, resumed, abandoned, mishaps>>
  BY DEF IInv, RejectDuplicate, history
<1>2. up /\ ~Aside(e) /\ row[e].status # "unborn" /\ Fits(e)
  BY <1>1, JobsOfItsOwn
<1>3. /\ Touches(e)
      /\ job[e] \in [Slots(e) -> JobStates]
      /\ job'[e] \in [Slots(e) -> JobStates]
      /\ job'[e][s] = "free"
      /\ \A t \in Slots(e) \ {s} : job'[e][t] = job[e][t]
      /\ Aside(e)' <=> Aside(e)
      /\ Listed(e)' <=> Listed(e)
  BY <1>1, <1>2, JobMoves DEF Shape, JobStates, NoMishap
<1>4. WellFormed(e)' /\ EntryFits(e)' /\ PastFits(e)'
  BY <1>1, <1>2, <1>3 DEF Fits, WellFormed, EntryFits, PastFits, Slots, Entered, Past
<1>5. AsideFits(e)' /\ UnbornFits(e)'
  BY <1>1, <1>2, <1>3 DEF AsideFits, UnbornFits
<1>6. RunnerFits(e)'
  <2>1. PICK t \in Slots(e) : job[e][t] \in Entered
    BY <1>1, <1>2 DEF Fits, EntryFits
  <2>2. t # s /\ job'[e][t] = job[e][t]
    BY <1>1, <1>3, <2>1 DEF Entered, Past
  <2>3. job[e][t] = "running" \/ row[e].status # "running" \/ e \in abandoned
    BY <1>2, <2>1 DEF Fits, PastFits, Entered
  <2>4. QED
    BY <1>1, <2>2, <2>3 DEF RunnerFits, Coming, Slots
<1>7. OnceFits(e)'
  BY <1>1, <1>2, <1>3 DEF Fits, OnceFits, JobFree, Coming, Slots
<1>8. QED
  BY <1>3, <1>4, <1>5, <1>6, <1>7, TouchesKeeps DEF Fits

\* A run suspends, its row may be gone by then.
LEMMA SuspendKeeps ==
    ASSUME IInv, NEW e \in Ids, NEW s \in Slots(e), NEW last \in BOOLEAN, Suspend(e, s, last)
    PROVE  IInv'
<1>1. /\ job[e][s] = "running" /\ Shape
      /\ SetJob(e, s, "leaving") /\ row' = MarkedWaiting(e, last)
      /\ UNCHANGED <<up, fresh, active, handler, subs, listed, resumed, abandoned, mishaps>>
  BY DEF IInv, Suspend, history
<1>2. up /\ ~Aside(e) /\ row[e].status # "unborn" /\ Fits(e)
  BY <1>1, JobsOfItsOwn
<1>3. /\ DOMAIN row' = Ids /\ \A x \in Ids \ {e} : row'[x] = row[x]
      /\ \/ row'[e] = Row("waiting", FALSE, "later", last) /\ row[e].status \notin Absent
         \/ row'[e] = row[e] /\ row[e].status \in Absent
  BY <1>1, MarkedWaitingEffect DEF Shape, Exists
<1>4. row'[e].status \in {"waiting", "deleted", "pruned"}
  BY <1>2, <1>3 DEF Row, Absent
<1>5. /\ Touches(e)
      /\ job[e] \in [Slots(e) -> JobStates]
      /\ job'[e] \in [Slots(e) -> JobStates]
      /\ job'[e][s] = "leaving"
      /\ \A t \in Slots(e) \ {s} : job'[e][t] = job[e][t]
      /\ Aside(e)' <=> Aside(e)
      /\ Listed(e)' <=> Listed(e)
  BY <1>1, <1>2, <1>3, JobMoves DEF Shape, JobStates, NoMishap
<1>6. WellFormed(e)'
  <2>1. CASE row'[e] = Row("waiting", FALSE, "later", last)
    BY <1>1, <1>2, <1>5, <2>1 DEF Fits, WellFormed, Slots, Row, Statuses, Terminal
  <2>2. CASE row'[e] = row[e]
    BY <1>1, <1>2, <1>5, <2>2 DEF Fits, WellFormed, Slots
  <2>3. QED
    BY <1>3, <2>1, <2>2
<1>7. EntryFits(e)'
  BY <1>1, <1>2, <1>5 DEF Fits, EntryFits, Slots, Entered, Past
<1>8. AsideFits(e)' /\ UnbornFits(e)' /\ RunnerFits(e)'
  BY <1>2, <1>4, <1>5 DEF AsideFits, UnbornFits, RunnerFits
<1>9. PastFits(e)'
  BY <1>2, <1>4, <1>5 DEF PastFits
<1>10. OnceFits(e)'
  <2> SUFFICES ASSUME e \notin resumed'
               PROVE  /\ \A t, u \in Slots(e) : job'[e][t] # "free" /\ job'[e][u] # "free" => t = u
                      /\ e \notin fresh'
                      /\ \A t \in Slots(e) : job'[e][t] \notin Coming
                      /\ Listed(e)' => row'[e].status \in {"waiting", "deleted"}
    BY DEF OnceFits, Slots
  <2>1. /\ row[e].status \in {"running", "deleted"} /\ e \notin fresh
        /\ Listed(e) => row[e].status = "deleted"
        /\ \A t \in Slots(e) \ {s} : job[e][t] = "free"
    BY <1>1, <1>2 DEF Fits, OnceFits, JobFree, Coming
  <2>2. \A t \in Slots(e) : job'[e][t] \notin Coming /\ (job'[e][t] # "free" => t = s)
    BY <1>1, <2>1, <1>5 DEF Coming
  <2>3. Listed(e)' => row'[e].status \in {"waiting", "deleted"}
    BY <2>1, <1>3, <1>4, <1>5 DEF Absent
  <2>4. QED
    BY <1>1, <2>1, <2>2, <2>3
<1>11. QED
  BY <1>5, <1>6, <1>7, <1>8, <1>9, <1>10, TouchesKeeps DEF Fits

\* A run ends, its row may be gone by then.
LEMMA EndKeeps ==
    ASSUME IInv, NEW e \in Ids, NEW s \in Slots(e), NEW status \in Outcomes, End(e, s, status)
    PROVE  IInv'
<1>1. /\ job[e][s] = "running" /\ Shape /\ row' = Finished(e, status)
      /\ UNCHANGED <<up, fresh, active, handler, subs, listed, resumed, abandoned, mishaps>>
  BY DEF IInv, End, history
<1>2. up /\ ~Aside(e) /\ row[e].status # "unborn" /\ Fits(e)
  BY <1>1, JobsOfItsOwn
<1>3. /\ DOMAIN row' = Ids /\ \A x \in Ids \ {e} : row'[x] = row[x]
      /\ \/ row'[e] = Row(status, TRUE, "null", FALSE) /\ row[e].status \notin Absent
         \/ row'[e] = row[e] /\ row[e].status \in Absent
  BY <1>1, FinishedEffect DEF Shape, Exists
<1>4. status \in Terminal /\ row'[e].status \in Terminal \cup {"deleted", "pruned"}
  BY <1>2, <1>3, LifecycleAssumption DEF Row, Absent, Terminal
<1>5. PICK state \in {"failed", "leaving"} : SetJob(e, s, state)
  BY DEF End
<1>6. /\ Touches(e)
      /\ job[e] \in [Slots(e) -> JobStates]
      /\ job'[e] \in [Slots(e) -> JobStates]
      /\ job'[e][s] = state
      /\ \A t \in Slots(e) \ {s} : job'[e][t] = job[e][t]
      /\ Aside(e)' <=> Aside(e)
      /\ Listed(e)' <=> Listed(e)
  BY <1>1, <1>2, <1>3, <1>5, JobMoves DEF Shape, JobStates, NoMishap
<1>7. WellFormed(e)'
  <2>1. CASE row'[e] = Row(status, TRUE, "null", FALSE)
    BY <1>1, <1>2, <1>4, <1>6, <2>1 DEF Fits, WellFormed, Slots, Row, Statuses, Terminal
  <2>2. CASE row'[e] = row[e]
    BY <1>1, <1>2, <1>6, <2>2 DEF Fits, WellFormed, Slots
  <2>3. QED
    BY <1>3, <2>1, <2>2
<1>8. EntryFits(e)'
  BY <1>1, <1>2, <1>5, <1>6 DEF Fits, EntryFits, Slots, Entered, Past
<1>9. AsideFits(e)' /\ UnbornFits(e)' /\ RunnerFits(e)' /\ PastFits(e)'
  BY <1>2, <1>4, <1>6 DEF AsideFits, UnbornFits, RunnerFits, PastFits, Terminal
<1>10. OnceFits(e)'
  <2> SUFFICES ASSUME e \notin resumed'
               PROVE  /\ \A t, u \in Slots(e) : job'[e][t] # "free" /\ job'[e][u] # "free" => t = u
                      /\ e \notin fresh'
                      /\ \A t \in Slots(e) : job'[e][t] \notin Coming
                      /\ Listed(e)' => row'[e].status \in {"waiting", "deleted"}
    BY DEF OnceFits, Slots
  <2>1. /\ row[e].status \in {"running", "deleted"} /\ e \notin fresh
        /\ Listed(e) => row[e].status = "deleted"
        /\ \A t \in Slots(e) \ {s} : job[e][t] = "free"
    BY <1>1, <1>2 DEF Fits, OnceFits, JobFree, Coming
  <2>2. \A t \in Slots(e) : job'[e][t] \notin Coming /\ (job'[e][t] # "free" => t = s)
    BY <1>1, <2>1, <1>5, <1>6 DEF Coming
  <2>3. Listed(e)' => row'[e].status \in {"waiting", "deleted"}
    BY <2>1, <1>3, <1>6 DEF Absent
  <2>4. QED
    BY <1>1, <2>1, <2>2, <2>3
<1>11. QED
  BY <1>6, <1>7, <1>8, <1>9, <1>10, TouchesKeeps DEF Fits

\* The outcome of a run cannot be stored.
LEMMA StoreFailsKeeps ==
    ASSUME IInv, NEW e \in Ids, NEW s \in Slots(e), StoreFails(e, s)
    PROVE  IInv'
<1>1. /\ job[e][s] = "running" /\ Shape
      /\ SetJob(e, s, "leaving") /\ Mishap /\ Abandon(e)
      /\ UNCHANGED <<up, row, fresh, active, handler, subs, listed, resumed>>
  BY DEF IInv, StoreFails
<1>2. up /\ ~Aside(e) /\ row[e].status # "unborn" /\ Fits(e)
  BY <1>1, JobsOfItsOwn
<1>3. /\ Touches(e)
      /\ job[e] \in [Slots(e) -> JobStates]
      /\ job'[e] \in [Slots(e) -> JobStates]
      /\ job'[e][s] = "leaving"
      /\ \A t \in Slots(e) \ {s} : job'[e][t] = job[e][t]
      /\ Aside(e)' <=> Aside(e)
      /\ Listed(e)' <=> Listed(e)
  BY <1>1, <1>2, JobMoves DEF Shape, JobStates, Abandon
<1>4. WellFormed(e)' /\ PastFits(e)'
  BY <1>1, <1>2, <1>3 DEF Fits, WellFormed, PastFits, Slots, Past, Abandon
<1>5. EntryFits(e)'
  BY <1>1, <1>2, <1>3 DEF Fits, EntryFits, Slots, Entered, Past
<1>6. AsideFits(e)' /\ UnbornFits(e)' /\ RunnerFits(e)'
  BY <1>1, <1>2, <1>3 DEF AsideFits, UnbornFits, RunnerFits, Abandon
<1>7. OnceFits(e)'
  BY <1>1, <1>2, <1>3 DEF Fits, OnceFits, JobFree, Coming, Slots
<1>8. QED
  BY <1>3, <1>4, <1>5, <1>6, <1>7, TouchesKeeps DEF Fits

\* The entry in the register is removed by the job that has it.
LEMMA LeaveKeeps ==
    ASSUME IInv, NEW e \in Ids, NEW s \in Slots(e), Leave(e, s)
    PROVE  IInv'
<1>1. /\ job[e][s] \in {"failed", "leaving"} /\ Shape
      /\ SetJob(e, s, "free") /\ active' = active \ {e}
      /\ UNCHANGED <<up, row, fresh, handler, subs, listed, resumed, abandoned, mishaps>>
  BY DEF IInv, Leave, history
<1>2. up /\ ~Aside(e) /\ row[e].status # "unborn" /\ Fits(e)
  BY <1>1, JobsOfItsOwn
<1>3. /\ Touches(e)
      /\ job[e] \in [Slots(e) -> JobStates]
      /\ job'[e] \in [Slots(e) -> JobStates]
      /\ job'[e][s] = "free"
      /\ \A t \in Slots(e) \ {s} : job'[e][t] = job[e][t]
      /\ Aside(e)' <=> Aside(e)
      /\ Listed(e)' <=> Listed(e)
  BY <1>1, <1>2, JobMoves DEF Shape, JobStates, NoMishap
<1>4. WellFormed(e)' /\ PastFits(e)'
  BY <1>1, <1>2, <1>3 DEF Fits, WellFormed, PastFits, Slots, Past
<1>5. EntryFits(e)'
  BY <1>1, <1>2, <1>3 DEF Fits, EntryFits, Slots, Entered, Past
<1>6. AsideFits(e)' /\ UnbornFits(e)' /\ RunnerFits(e)'
  BY <1>1, <1>2, <1>3 DEF Fits, AsideFits, UnbornFits, RunnerFits, PastFits, Past
<1>7. OnceFits(e)'
  BY <1>1, <1>2, <1>3 DEF Fits, OnceFits, JobFree, Coming, Slots
<1>8. QED
  BY <1>3, <1>4, <1>5, <1>6, <1>7, TouchesKeeps DEF Fits

\* A webhook dispatches another job.
LEMMA WebhookResumeKeeps ==
    ASSUME IInv, NEW e \in Ids, WebhookResume(e)
    PROVE  IInv'
<1>1. /\ up /\ row[e].status = "waiting" /\ Dispatch(e) /\ Fits(e) /\ Shape
      /\ resumed' = resumed \cup {e}
      /\ UNCHANGED <<up, row, fresh, active, handler, subs, listed, abandoned, mishaps>>
  BY DEF IInv, WebhookResume, Waiting
<1>2. PICK s \in Slots(e) : job[e][s] = "free" /\ SetJob(e, s, "queued")
  BY <1>1, DispatchEffect
<1>3. /\ Touches(e)
      /\ job[e] \in [Slots(e) -> JobStates]
      /\ job'[e] \in [Slots(e) -> JobStates]
      /\ job'[e][s] = "queued"
      /\ \A t \in Slots(e) \ {s} : job'[e][t] = job[e][t]
      /\ Aside(e)' <=> Aside(e)
      /\ Listed(e)' <=> Listed(e)
  BY <1>1, <1>2, JobMoves DEF Shape, JobStates, NoMishap
<1>4. WellFormed(e)'
  BY <1>1, <1>3 DEF Fits, WellFormed, Slots
<1>5. EntryFits(e)'
  BY <1>1, <1>2, <1>3 DEF Fits, EntryFits, Slots, Entered, Past
<1>6. AsideFits(e)' /\ UnbornFits(e)' /\ PastFits(e)' /\ RunnerFits(e)' /\ OnceFits(e)'
  BY <1>1, <1>3 DEF Fits, AsideFits, UnbornFits, PastFits, RunnerFits, OnceFits
<1>7. QED
  BY <1>3, <1>4, <1>5, <1>6, TouchesKeeps DEF Fits

\* The timer resumes what it read, whatever has become of it since.
LEMMA TimerResumeKeeps ==
    ASSUME IInv, NEW e \in Ids, NEW last \in BOOLEAN, TimerResume(e, last)
    PROVE  IInv'
<1>1. /\ up /\ Fits(e) /\ Shape
      /\ Listed(e) /\ listed' = listed \ {<<e, last>>}
      /\ resumed' = resumed \cup {e}
      /\ UNCHANGED <<up, fresh, active, handler, subs, abandoned>>
  BY DEF IInv, TimerResume, Listed
<1>2. /\ ~Aside(e) /\ ~Aside(e)' /\ row[e].status # "unborn"
      /\ job[e] \in [Slots(e) -> JobStates]
  BY <1>1 DEF Fits, WellFormed, AsideFits, UnbornFits, Aside
<1>3. \A x \in Ids \ {e} : Listed(x)' <=> Listed(x)
  BY <1>1 DEF Listed
<1>4. mishaps' \in 0..MaxMishaps
  BY <1>1, LifecycleAssumption DEF Shape, TimerResume, Mishap, NoMishap
<1>5. OnceFits(e)'
  BY <1>1 DEF OnceFits
<1>6. CASE row' = Finished(e, "success") /\ UNCHANGED job
  <2>1. /\ DOMAIN row' = Ids /\ \A x \in Ids \ {e} : row'[x] = row[x]
        /\ \/ row'[e] = Row("success", TRUE, "null", FALSE)
           \/ row'[e] = row[e] /\ row[e].status \in Absent
    BY <1>1, <1>6, FinishedEffect DEF Shape, Exists
  <2>2. row'[e].status \in {"success", "deleted", "pruned"}
    BY <1>2, <2>1 DEF Row, Absent
  <2>3. Touches(e)
    BY <1>1, <1>3, <1>4, <1>6, <2>1 DEF Touches, Shape
  <2>4. WellFormed(e)'
    <3>1. CASE row'[e] = Row("success", TRUE, "null", FALSE)
      <4>1. /\ row'[e] \in [status : Statuses, finished : BOOLEAN,
                            till : {"null", "later", "due"}, last : BOOLEAN]
            /\ row'[e].status \in Terminal \ {"waiting"}
            /\ row'[e].finished /\ row'[e].till = "null"
        BY <3>1 DEF Row, Statuses, Terminal
      <4>2. QED
        BY <1>1, <1>6, <4>1 DEF Fits, WellFormed, Slots, Terminal
    <3>2. CASE row'[e] = row[e]
      BY <1>1, <1>6, <3>2 DEF Fits, WellFormed, Slots
    <3>3. QED
      BY <2>1, <3>1, <3>2
  <2>5. EntryFits(e)'
    BY <1>1, <1>6 DEF Fits, EntryFits, Slots
  <2>6. AsideFits(e)' /\ UnbornFits(e)' /\ PastFits(e)' /\ RunnerFits(e)'
    BY <1>2, <2>2 DEF AsideFits, UnbornFits, PastFits, RunnerFits
  <2>7. QED
    BY <1>5, <2>3, <2>4, <2>5, <2>6, TouchesKeeps DEF Fits
<1>7. CASE Dispatch(e) /\ UNCHANGED row
  <2>1. PICK s \in Slots(e) : job[e][s] = "free" /\ SetJob(e, s, "queued")
    BY <1>7, DispatchEffect
  <2>2. /\ DOMAIN job' = Ids
        /\ job'[e] \in [Slots(e) -> JobStates]
        /\ job'[e][s] = "queued"
        /\ \A t \in Slots(e) \ {s} : job'[e][t] = job[e][t]
        /\ \A x \in Ids \ {e} : job'[x] = job[x]
    BY <1>1, <1>2, <2>1, SetJobEffect DEF Shape, JobStates
  <2>3. Touches(e)
    BY <1>1, <1>3, <1>4, <1>7, <2>2 DEF Touches, Shape
  <2>4. WellFormed(e)'
    BY <1>1, <1>7, <2>2 DEF Fits, WellFormed, Slots
  <2>5. EntryFits(e)'
    BY <1>1, <2>1, <2>2 DEF Fits, EntryFits, Slots, Entered, Past
  <2>6. AsideFits(e)' /\ UnbornFits(e)'
    BY <1>2, <1>7 DEF AsideFits, UnbornFits
  <2>7. PastFits(e)' /\ RunnerFits(e)'
    BY <1>1, <1>7, <2>2 DEF Fits, PastFits, RunnerFits, Past, Coming, Slots
  <2>8. QED
    BY <1>5, <2>3, <2>4, <2>5, <2>6, <2>7, TouchesKeeps DEF Fits
<1>8. CASE UNCHANGED <<job, row>>
  <2>1. Touches(e)
    BY <1>1, <1>3, <1>4, <1>8 DEF Touches, Shape
  <2>2. WellFormed(e)' /\ EntryFits(e)'
    BY <1>1, <1>8 DEF Fits, WellFormed, EntryFits, Slots
  <2>3. AsideFits(e)' /\ UnbornFits(e)' /\ PastFits(e)' /\ RunnerFits(e)'
    BY <1>1, <1>2, <1>8 DEF Fits, AsideFits, UnbornFits, PastFits, RunnerFits, Slots
  <2>4. QED
    BY <1>5, <2>1, <2>2, <2>3, TouchesKeeps DEF Fits
<1>9. QED
  BY <1>6, <1>7, <1>8 DEF TimerResume

\* A row is deleted under its jobs.
LEMMA DeleteKeeps ==
    ASSUME IInv, NEW e \in Ids, Delete(e)
    PROVE  IInv'
<1>1. /\ up /\ Fits(e) /\ Shape
      /\ row' = [row EXCEPT ![e] = Row("deleted", FALSE, "null", FALSE)]
      /\ row[e].status # "unborn"
      /\ UNCHANGED <<up, fresh, job, active, handler, subs, listed, resumed, abandoned, mishaps>>
  BY DEF IInv, Delete, Exists, Absent, NoRow, runVars, history
<1>2. row'[e] = Row("deleted", FALSE, "null", FALSE) /\ row'[e].status = "deleted"
  BY <1>1 DEF Shape, Row
<1>3. (Aside(e)' <=> Aside(e)) /\ (Listed(e)' <=> Listed(e))
  BY <1>1 DEF Aside, Listed
<1>4. Touches(e)
  BY <1>1 DEF Touches, Shape, Listed
<1>5. WellFormed(e)'
  BY <1>1, <1>2 DEF Fits, WellFormed, Slots, Row, Statuses, Absent, Terminal
<1>6. EntryFits(e)'
  BY <1>1 DEF Fits, EntryFits, Slots
<1>7. AsideFits(e)' /\ UnbornFits(e)' /\ PastFits(e)' /\ RunnerFits(e)'
  BY <1>1, <1>2, <1>3 DEF Fits, AsideFits, UnbornFits, PastFits, RunnerFits, JobFree, Slots
<1>8. OnceFits(e)'
  BY <1>1, <1>2, <1>3 DEF Fits, OnceFits, JobFree, Slots
<1>9. QED
  BY <1>4, <1>5, <1>6, <1>7, <1>8, TouchesKeeps DEF Fits

\* Settled rows are pruned.
LEMMA PruneKeeps ==
    ASSUME IInv, NEW S \in SUBSET Ids, Prune(S)
    PROVE  IInv'
<1>1. /\ up /\ Shape
      /\ \A e \in S : row[e].finished
      /\ row' = [e \in Ids |-> IF e \in S THEN Row("pruned", FALSE, "null", FALSE) ELSE row[e]]
      /\ UNCHANGED <<up, fresh, job, active, handler, subs, listed, resumed, abandoned, mishaps>>
  BY DEF IInv, Prune, NoRow, runVars, history
<1>2. Shape' /\ AsideOnce' /\ Down'
  BY <1>1 DEF IInv, Shape, AsideOnce, Down
<1>3. ASSUME NEW x \in Ids PROVE Fits(x)'
  <2>1. Fits(x) /\ (Aside(x)' <=> Aside(x)) /\ (Listed(x)' <=> Listed(x))
    BY <1>1 DEF IInv, Aside, Listed
  <2>2. CASE x \notin S
    BY <1>1, <2>1, <2>2, Untouched
  <2>3. CASE x \in S
    <3>1. row'[x] = Row("pruned", FALSE, "null", FALSE) /\ row'[x].status = "pruned"
      BY <1>1, <2>3 DEF Row
    <3>2. row[x].status \in Terminal
      BY <1>1, <2>1, <2>3 DEF Fits, WellFormed
    <3>3. WellFormed(x)'
      BY <1>1, <2>1, <3>1 DEF Fits, WellFormed, Slots, Row, Statuses, Absent, Terminal
    <3>4. EntryFits(x)'
      BY <1>1, <2>1 DEF Fits, EntryFits, Slots
    <3>5. AsideFits(x)' /\ UnbornFits(x)' /\ PastFits(x)' /\ RunnerFits(x)'
      BY <2>1, <3>1, <3>2 DEF Fits, AsideFits, UnbornFits, PastFits, RunnerFits, Terminal
    <3>6. OnceFits(x)'
      BY <1>1, <2>1, <3>2 DEF Fits, OnceFits, JobFree, Slots, Terminal
    <3>7. QED
      BY <3>3, <3>4, <3>5, <3>6 DEF Fits
  <2>4. QED
    BY <2>2, <2>3
<1>4. QED
  BY <1>2, <1>3 DEF IInv

\* A crash leaves the rows.
LEMMA CrashKeeps ==
    ASSUME IInv, Crash
    PROVE  IInv'
<1>1. /\ Shape /\ up' = FALSE /\ mishaps' \in 0..MaxMishaps
      /\ fresh' = {} /\ active' = {} /\ subs' = {} /\ listed' = {} /\ abandoned' = {}
      /\ job' = [e \in Ids |-> [s \in Slots(e) |-> "free"]]
      /\ handler' = [e \in Ids |-> NoId]
      /\ UNCHANGED <<row, resumed>>
  BY LifecycleAssumption DEF IInv, Shape, Crash, Mishap
<1>2. \A e \in Ids : JobFree(e)' /\ ~Aside(e)' /\ ~Listed(e)'
  BY <1>1, LifecycleAssumption DEF JobFree, Aside, Listed, Slots
<1>3. Shape' /\ AsideOnce' /\ Down'
  BY <1>1, <1>2 DEF Shape, AsideOnce, Down
<1>4. ASSUME NEW x \in Ids PROVE Fits(x)'
  <2>1. Fits(x)
    BY DEF IInv
  <2>2. WellFormed(x)'
    BY <1>1, <2>1 DEF Fits, WellFormed, Slots, JobStates
  <2>3. EntryFits(x)' /\ PastFits(x)'
    BY <1>1, <1>2 DEF EntryFits, PastFits, JobFree, Entered, Past, Slots
  <2>4. AsideFits(x)' /\ UnbornFits(x)' /\ RunnerFits(x)'
    BY <1>1, <1>2 DEF AsideFits, UnbornFits, RunnerFits
  <2>5. OnceFits(x)'
    BY <1>1, <1>2 DEF OnceFits, JobFree, Coming, Slots
  <2>6. QED
    BY <2>2, <2>3, <2>4, <2>5 DEF Fits
<1>5. QED
  BY <1>3, <1>4 DEF IInv

\* A restart finds nothing in memory and cleans up what says it is running.
LEMMA RestartKeeps ==
    ASSUME IInv, Restart
    PROVE  IInv'
<1>1. /\ Shape /\ ~up /\ up' = TRUE /\ row' = CleanedOrphans
      /\ fresh = {} /\ subs = {} /\ listed = {} /\ active = {}
      /\ \A e \in Ids : JobFree(e) /\ handler[e] = NoId
      /\ UNCHANGED <<fresh, job, active, handler, subs, listed, resumed, abandoned, mishaps>>
  BY DEF IInv, Down, Restart, runVars, history
<1>2. \A e \in Ids : JobFree(e)' /\ ~Aside(e)' /\ ~Listed(e)'
  BY <1>1, LifecycleAssumption DEF JobFree, Aside, Listed, Slots
<1>3. Shape' /\ AsideOnce' /\ Down'
  BY <1>1 DEF Shape, AsideOnce, Down, CleanedOrphans
<1>4. ASSUME NEW x \in Ids PROVE Fits(x)'
  <2>1. Fits(x)
    BY DEF IInv
  <2>2. \/ row'[x] = Row("error", TRUE, "null", FALSE) /\ row[x].status = "running"
        \/ row'[x] = row[x] /\ row[x].status # "running"
    BY <1>1, <2>1 DEF CleanedOrphans, Fits, WellFormed, Terminal
  <2>3. row'[x].status # "running" /\ (row'[x].status = "unborn" <=> row[x].status = "unborn")
    BY <2>2 DEF Row
  <2>4. WellFormed(x)'
    <3>1. CASE row'[x] = Row("error", TRUE, "null", FALSE)
      BY <1>1, <2>1, <3>1 DEF Fits, WellFormed, Slots, Row, Statuses, Terminal
    <3>2. CASE row'[x] = row[x]
      BY <1>1, <2>1, <3>2 DEF Fits, WellFormed, Slots
    <3>3. QED
      BY <2>2, <3>1, <3>2
  <2>5. EntryFits(x)' /\ PastFits(x)'
    BY <1>1, <1>2 DEF EntryFits, PastFits, JobFree, Entered, Past, Slots
  <2>6. AsideFits(x)' /\ UnbornFits(x)' /\ RunnerFits(x)'
    BY <1>1, <1>2, <2>3 DEF AsideFits, UnbornFits, RunnerFits
  <2>7. OnceFits(x)'
    BY <1>1, <1>2 DEF OnceFits, JobFree, Coming, Slots
  <2>8. QED
    BY <2>4, <2>5, <2>6, <2>7 DEF Fits
<1>5. QED
  BY <1>3, <1>4 DEF IInv

-----------------------------------------------------------------------------
\* Steps that touch two executions, a run and what it starts on the side.

\* An execution that begins to run aside.
LEMMA AsideBegins ==
    ASSUME NEW d \in Ids, Fits(d), row[d].status = "unborn", Aside(d)',
           row'[d] = Row("running", FALSE, "null", FALSE),
           job'[d] = job[d], handler'[d] = handler[d],
           UNCHANGED <<fresh, active, listed>>
    PROVE  Fits(d)'
<1>1. JobFree(d)' /\ d \notin fresh' /\ ~Listed(d)' /\ row'[d].status = "running"
  BY DEF Fits, UnbornFits, JobFree, Listed, Row, Slots
<1>2. WellFormed(d)'
  BY DEF Fits, WellFormed, Slots, Row, Statuses, Absent, Terminal
<1>3. EntryFits(d)'
  BY DEF Fits, EntryFits, Slots
<1>4. AsideFits(d)' /\ UnbornFits(d)' /\ RunnerFits(d)'
  BY <1>1 DEF AsideFits, UnbornFits, RunnerFits
<1>5. PastFits(d)' /\ OnceFits(d)'
  BY <1>1 DEF PastFits, OnceFits, JobFree, Past, Coming, Slots
<1>6. QED
  BY <1>2, <1>3, <1>4, <1>5 DEF Fits

\* An execution that ran aside ends there: it is finished, waits, or is given up.
LEMMA AsideEnds ==
    ASSUME NEW d \in Ids, Fits(d), Aside(d), ~Aside(d)',
           \/ \E status \in Terminal : row'[d] = Row(status, TRUE, "null", FALSE)
           \/ \E last \in BOOLEAN : row'[d] = Row("waiting", FALSE, "later", last)
           \/ row'[d] = row[d] /\ (row[d].status \in Absent \/ d \in abandoned'),
           job'[d] = job[d], handler'[d] = handler[d],
           UNCHANGED <<fresh, active, listed>>
    PROVE  Fits(d)'
<1>1. /\ JobFree(d)' /\ d \notin fresh' /\ ~Listed(d)'
      /\ row[d].status \in {"running", "deleted"}
  BY DEF Fits, AsideFits, JobFree, Listed, Slots
<1>2. /\ row'[d].status # "unborn"
      /\ row'[d].status # "running" \/ d \in abandoned'
  <2>1. ASSUME NEW status \in Terminal, row'[d] = Row(status, TRUE, "null", FALSE)
        PROVE  row'[d].status \notin {"unborn", "running"}
    BY <2>1 DEF Row, Terminal
  <2>2. ASSUME NEW last \in BOOLEAN, row'[d] = Row("waiting", FALSE, "later", last)
        PROVE  row'[d].status \notin {"unborn", "running"}
    BY <2>2 DEF Row
  <2>3. QED
    BY <1>1, <2>1, <2>2 DEF Absent
<1>3. WellFormed(d)'
  <2>1. job'[d] \in [Slots(d) -> JobStates]'
    BY DEF Fits, WellFormed, Slots
  <2>2. ASSUME NEW status \in Terminal, row'[d] = Row(status, TRUE, "null", FALSE)
        PROVE  WellFormed(d)'
    BY <2>1, <2>2 DEF WellFormed, Row, Statuses, Terminal
  <2>3. ASSUME NEW last \in BOOLEAN, row'[d] = Row("waiting", FALSE, "later", last)
        PROVE  WellFormed(d)'
    BY <2>1, <2>3 DEF WellFormed, Row, Statuses, Terminal
  <2>4. CASE row'[d] = row[d]
    BY <2>1, <2>4 DEF Fits, WellFormed, Slots
  <2>5. QED
    BY <2>2, <2>3, <2>4
<1>4. EntryFits(d)'
  BY DEF Fits, EntryFits, Slots
<1>5. AsideFits(d)' /\ UnbornFits(d)' /\ RunnerFits(d)'
  BY <1>2 DEF AsideFits, UnbornFits, RunnerFits
<1>6. PastFits(d)' /\ OnceFits(d)'
  BY <1>1 DEF PastFits, OnceFits, JobFree, Past, Coming, Slots
<1>7. QED
  BY <1>3, <1>4, <1>5, <1>6 DEF Fits

\* A failed run launches its error workflow.
LEMMA LaunchErrorWorkflowKeeps ==
    ASSUME IInv, NEW e \in Ids, NEW s \in Slots(e), NEW d \in Ids,
           LaunchErrorWorkflow(e, s, d)
    PROVE  IInv'
<1>1. /\ job[e][s] = "failed" /\ row[d].status = "unborn" /\ Shape /\ Fits(d)
      /\ row' = [row EXCEPT ![d] = Row("running", FALSE, "null", FALSE)]
      /\ handler' = [handler EXCEPT ![e] = d]
      /\ SetJob(e, s, "handling")
      /\ UNCHANGED <<up, fresh, active, subs, listed, resumed, abandoned, mishaps>>
  BY DEF IInv, LaunchErrorWorkflow, Created, history
<1>2. up /\ ~Aside(e) /\ row[e].status # "unborn" /\ Fits(e)
  BY <1>1, JobsOfItsOwn
<1>3. d # e /\ ~Aside(d)
  BY <1>1, <1>2 DEF Fits, UnbornFits
<1>4. handler[e] = NoId
  BY <1>1, <1>2 DEF Fits, EntryFits, Entered, Past
<1>5. /\ DOMAIN job' = Ids
      /\ job'[e] \in [Slots(e) -> JobStates]
      /\ job'[e][s] = "handling"
      /\ \A t \in Slots(e) \ {s} : job'[e][t] = job[e][t]
      /\ \A x \in Ids \ {e} : job'[x] = job[x]
  BY <1>1, <1>2, SetJobEffect DEF Fits, WellFormed, Shape, JobStates
<1>6. /\ \A x \in Ids \ {d} : row'[x] = row[x]
      /\ \A x \in Ids \ {e} : handler'[x] = handler[x]
      /\ handler'[e] = d
      /\ row'[d] = Row("running", FALSE, "null", FALSE)
  BY <1>1 DEF Shape
<1>7. Aside(d)' /\ \A x \in Ids \ {d} : Aside(x)' <=> Aside(x)
  BY <1>1, <1>4, <1>6, LifecycleAssumption DEF Aside
<1>8. Shape' /\ Down'
  BY <1>1, <1>2, <1>5 DEF Shape, Down
<1>9. AsideOnce'
  BY <1>1, <1>3, <1>6 DEF IInv, AsideOnce, Aside
<1>10. ASSUME NEW x \in Ids, x # e, x # d PROVE Fits(x)'
  <2>1. Fits(x) /\ (Listed(x)' <=> Listed(x))
    BY <1>1 DEF IInv, Listed
  <2>2. QED
    BY <1>1, <1>5, <1>6, <1>7, <1>10, <2>1, Untouched
<1>11. Fits(d)'
  BY <1>1, <1>3, <1>5, <1>6, <1>7, AsideBegins
<1>12. Fits(e)'
  <2>1. WellFormed(e)'
    BY <1>1, <1>2, <1>3, <1>5, <1>6 DEF Fits, WellFormed, Slots
  <2>2. EntryFits(e)'
    <3>1. /\ \A t, u \in Slots(e) : job[e][t] \in Entered /\ job[e][u] \in Entered => t = u
          /\ job[e][s] \in Entered /\ e \in active
      BY <1>1, <1>2 DEF Fits, EntryFits, Entered, Past
    <3>2. \A t \in Slots(e) : job'[e][t] \in Entered => job[e][t] \in Entered
      BY <1>5, <3>1
    <3>3. job'[e][s] \in Entered /\ handler'[e] # NoId
      BY <1>5, <1>6, LifecycleAssumption DEF Entered, Past
    <3>4. QED
      BY <1>1, <1>5, <3>1, <3>2, <3>3 DEF EntryFits, Slots
  <2>3. AsideFits(e)' /\ UnbornFits(e)' /\ PastFits(e)' /\ RunnerFits(e)'
    BY <1>1, <1>2, <1>3, <1>5, <1>6, <1>7
       DEF Fits, AsideFits, UnbornFits, PastFits, RunnerFits, Past, Slots
  <2>4. OnceFits(e)'
    <3>1. row'[e] = row[e] /\ (Listed(e)' <=> Listed(e))
      BY <1>1, <1>3, <1>6 DEF Listed
    <3>2. \A t \in Slots(e) :
             /\ job'[e][t] = "free" <=> job[e][t] = "free"
             /\ job'[e][t] \in Coming => job[e][t] \in Coming
      BY <1>1, <1>5 DEF Coming
    <3>3. OnceFits(e) /\ UNCHANGED <<fresh, resumed>>
      BY <1>1, <1>2 DEF Fits
    <3>4. \A t, u \in Slots(e) : e \notin resumed' /\ job'[e][t] # "free" /\ job'[e][u] # "free" => t = u
      BY <3>2, <3>3 DEF OnceFits
    <3>5. e \notin resumed' => e \notin fresh'
      BY <1>1, <3>3 DEF OnceFits, JobFree
    <3>6. QED
      BY <3>1, <3>2, <3>3, <3>4, <3>5 DEF OnceFits, Slots
  <2>5. QED
    BY <2>1, <2>2, <2>3, <2>4 DEF Fits
<1>13. QED
  BY <1>8, <1>9, <1>10, <1>11, <1>12 DEF IInv

\* The error workflow ends, and the failed run may leave.
LEMMA EndErrorWorkflowKeeps ==
    ASSUME IInv, NEW e \in Ids, NEW s \in Slots(e), NEW status \in Outcomes,
           EndErrorWorkflow(e, s, status)
    PROVE  IInv'
<1>1. /\ job[e][s] = "handling" /\ Shape
      /\ handler' = [handler EXCEPT ![e] = NoId]
      /\ SetJob(e, s, "leaving")
      /\ UNCHANGED <<up, fresh, active, subs, listed, resumed>>
  BY DEF IInv, EndErrorWorkflow
<1>2. up /\ ~Aside(e) /\ row[e].status # "unborn" /\ Fits(e)
  BY <1>1, JobsOfItsOwn
<1>3. PICK d \in Ids : d = handler[e] /\ d # NoId /\ Aside(d) /\ Fits(d)
  BY <1>1, <1>2, LifecycleAssumption DEF IInv, Shape, Fits, EntryFits, Aside
<1>4. d # e
  BY <1>2, <1>3 DEF Aside
<1>5. /\ DOMAIN job' = Ids
      /\ job'[e] \in [Slots(e) -> JobStates]
      /\ job'[e][s] = "leaving"
      /\ \A t \in Slots(e) \ {s} : job'[e][t] = job[e][t]
      /\ \A x \in Ids \ {e} : job'[x] = job[x]
  BY <1>1, <1>2, SetJobEffect DEF Fits, WellFormed, Shape, JobStates
<1>6. handler'[e] = NoId /\ \A x \in Ids \ {e} : handler'[x] = handler[x]
  BY <1>1 DEF Shape
<1>7. ~Aside(d)' /\ \A x \in Ids \ {d} : Aside(x)' <=> Aside(x)
  BY <1>1, <1>3, <1>6, LifecycleAssumption DEF IInv, AsideOnce, Aside
<1>8. /\ DOMAIN row' = Ids /\ \A x \in Ids \ {d} : row'[x] = row[x]
      /\ \/ row'[d] = Row(status, TRUE, "null", FALSE)
         \/ row'[d] = row[d] /\ (row[d].status \in Absent \/ d \in abandoned')
      /\ abandoned' \in {abandoned, abandoned \cup {d}}
      /\ mishaps' \in 0..MaxMishaps
  <2>1. CASE row' = Finished(handler[e], status) /\ NoMishap /\ UNCHANGED abandoned
    <3>1. row' = Finished(d, status)
      BY <1>3, <2>1
    <3>2. QED
      BY <1>1, <2>1, <3>1, FinishedEffect DEF Shape, Exists, NoMishap
  <2>2. CASE Mishap /\ Abandon(handler[e]) /\ UNCHANGED row
    BY <1>1, <1>3, <2>2, LifecycleAssumption DEF Shape, Mishap, Abandon
  <2>3. QED
    BY <2>1, <2>2 DEF EndErrorWorkflow
<1>9. Shape' /\ Down'
  BY <1>1, <1>2, <1>3, <1>5, <1>8 DEF Shape, Down
<1>10. AsideOnce'
  BY <1>1, <1>6 DEF IInv, AsideOnce
<1>11. ASSUME NEW x \in Ids, x # e, x # d PROVE Fits(x)'
  <2>1. Fits(x) /\ (Listed(x)' <=> Listed(x))
    BY <1>1 DEF IInv, Listed
  <2>2. QED
    BY <1>1, <1>5, <1>6, <1>7, <1>8, <1>11, <2>1, Untouched
<1>12. Fits(d)'
  <2>1. status \in Terminal
    BY LifecycleAssumption DEF Terminal
  <2>2. QED
    BY <1>1, <1>3, <1>4, <1>5, <1>6, <1>7, <1>8, <2>1, AsideEnds
<1>13. Fits(e)'
  <2>1. WellFormed(e)'
    BY <1>2, <1>4, <1>5, <1>6, <1>8 DEF Fits, WellFormed, Slots
  <2>2. EntryFits(e)'
    BY <1>1, <1>2, <1>5, <1>6 DEF Fits, EntryFits, Slots, Entered, Past
  <2>3. AsideFits(e)' /\ UnbornFits(e)' /\ PastFits(e)' /\ RunnerFits(e)'
    BY <1>1, <1>2, <1>4, <1>5, <1>7, <1>8
       DEF Fits, AsideFits, UnbornFits, PastFits, RunnerFits, Past, Coming, Slots
  <2>4. OnceFits(e)'
    BY <1>1, <1>2, <1>4, <1>5, <1>8 DEF Fits, OnceFits, JobFree, Listed, Coming, Slots
  <2>5. QED
    BY <2>1, <2>2, <2>3, <2>4 DEF Fits
<1>14. QED
  BY <1>9, <1>10, <1>11, <1>12, <1>13 DEF IInv

\* A run launches a sub-workflow.
LEMMA LaunchSubWorkflowKeeps ==
    ASSUME IInv, NEW e \in Ids, NEW s \in Slots(e), NEW d \in Ids,
           LaunchSubWorkflow(e, s, d)
    PROVE  IInv'
<1>1. /\ job[e][s] = "running" /\ row[d].status = "unborn" /\ Shape /\ Fits(d)
      /\ row' = [row EXCEPT ![d] = Row("running", FALSE, "null", FALSE)]
      /\ subs' = subs \cup {d}
      /\ UNCHANGED <<up, job, fresh, active, handler, listed, resumed, abandoned, mishaps>>
  BY DEF IInv, LaunchSubWorkflow, Created, history
<1>2. up /\ ~Aside(d)
  BY <1>1, JobsOfItsOwn DEF Fits, UnbornFits
<1>3. /\ \A x \in Ids \ {d} : row'[x] = row[x]
      /\ row'[d] = Row("running", FALSE, "null", FALSE)
  BY <1>1 DEF Shape
<1>4. Aside(d)' /\ \A x \in Ids \ {d} : Aside(x)' <=> Aside(x)
  BY <1>1 DEF Aside
<1>5. Shape' /\ Down'
  BY <1>1, <1>2 DEF Shape, Down
<1>6. AsideOnce'
  BY <1>1, <1>2 DEF IInv, AsideOnce, Aside
<1>7. ASSUME NEW x \in Ids, x # d PROVE Fits(x)'
  <2>1. Fits(x) /\ (Listed(x)' <=> Listed(x))
    BY <1>1 DEF IInv, Listed
  <2>2. QED
    BY <1>1, <1>3, <1>4, <1>7, <2>1, Untouched
<1>8. Fits(d)'
  BY <1>1, <1>3, <1>4, AsideBegins
<1>9. QED
  BY <1>5, <1>6, <1>7, <1>8 DEF IInv

\* A sub-workflow ends, whether its launcher still runs or not.
LEMMA EndSubWorkflowKeeps ==
    ASSUME IInv, NEW d \in Ids, EndSubWorkflow(d)
    PROVE  IInv'
<1>1. /\ Shape /\ Fits(d) /\ d \in subs /\ subs' = subs \ {d} /\ up
      /\ UNCHANGED <<up, fresh, job, active, handler, listed, resumed>>
  BY DEF IInv, Down, EndSubWorkflow
<1>2. Aside(d) /\ ~Aside(d)' /\ \A x \in Ids \ {d} : Aside(x)' <=> Aside(x)
  BY <1>1, LifecycleAssumption DEF IInv, AsideOnce, Aside
<1> DEFINE Ends ==
      /\ DOMAIN row' = Ids /\ \A x \in Ids \ {d} : row'[x] = row[x]
      /\ \/ \E status \in Terminal : row'[d] = Row(status, TRUE, "null", FALSE)
         \/ \E last \in BOOLEAN : row'[d] = Row("waiting", FALSE, "later", last)
         \/ row'[d] = row[d] /\ (row[d].status \in Absent \/ d \in abandoned')
      /\ abandoned' \in {abandoned, abandoned \cup {d}}
      /\ mishaps' \in 0..MaxMishaps
<1>3. Ends
  <2>1. ASSUME NEW last \in BOOLEAN, row' = MarkedWaiting(d, last), NoMishap, UNCHANGED abandoned
        PROVE  Ends
    BY <1>1, <2>1, MarkedWaitingEffect DEF Shape, Exists, NoMishap
  <2>2. ASSUME NEW status \in Outcomes, row' = Finished(d, status), NoMishap, UNCHANGED abandoned
        PROVE  Ends
    <3>1. status \in Terminal
      BY LifecycleAssumption DEF Terminal
    <3>2. QED
      BY <1>1, <2>2, <3>1, FinishedEffect DEF Shape, Exists, NoMishap
  <2>3. CASE Mishap /\ Abandon(d) /\ UNCHANGED row
    BY <1>1, <2>3, LifecycleAssumption DEF Shape, Mishap, Abandon
  <2>4. QED
    BY <2>1, <2>2, <2>3 DEF EndSubWorkflow
<1>4. Shape' /\ AsideOnce' /\ Down'
  BY <1>1, <1>3 DEF IInv, Shape, AsideOnce, Down
<1>5. ASSUME NEW x \in Ids, x # d PROVE Fits(x)'
  <2>1. Fits(x) /\ (Listed(x)' <=> Listed(x))
    BY <1>1 DEF IInv, Listed
  <2>2. QED
    BY <1>1, <1>2, <1>3, <1>5, <2>1, Untouched
<1>6. Fits(d)'
  BY <1>1, <1>2, <1>3, AsideEnds
<1>7. QED
  BY <1>4, <1>5, <1>6 DEF IInv

-----------------------------------------------------------------------------
\* The invariant holds before anything is created.
LEMMA InitEstablishes == Init => IInv
<1> SUFFICES ASSUME Init PROVE IInv
  OBVIOUS
<1>1. /\ up = TRUE /\ row = [e \in Ids |-> Row("unborn", FALSE, "null", FALSE)]
      /\ job = [e \in Ids |-> [s \in Slots(e) |-> "free"]]
      /\ handler = [e \in Ids |-> NoId]
      /\ fresh = {} /\ active = {} /\ subs = {} /\ listed = {}
      /\ resumed = {} /\ abandoned = {} /\ mishaps = 0
  BY DEF Init, NoRow
<1>2. Shape /\ AsideOnce /\ Down
  BY <1>1, LifecycleAssumption DEF Shape, AsideOnce, Down
<1>3. ASSUME NEW e \in Ids PROVE Fits(e)
  <2>1. JobFree(e) /\ ~Aside(e) /\ ~Listed(e)
    BY <1>1, LifecycleAssumption DEF JobFree, Aside, Listed
  <2>2. row[e] = Row("unborn", FALSE, "null", FALSE)
    BY <1>1
  <2>3. WellFormed(e)
    BY <1>1, <2>2 DEF WellFormed, Row, Statuses, Absent, Terminal, JobStates
  <2>4. EntryFits(e) /\ PastFits(e)
    BY <1>1, <2>1 DEF EntryFits, PastFits, JobFree, Entered, Past
  <2>5. AsideFits(e) /\ UnbornFits(e) /\ RunnerFits(e)
    BY <1>1, <2>1, <2>2 DEF AsideFits, UnbornFits, RunnerFits, Row
  <2>6. OnceFits(e)
    BY <1>1, <2>1 DEF OnceFits, JobFree, Coming
  <2>7. QED
    BY <2>3, <2>4, <2>5, <2>6 DEF Fits
<1>4. QED
  BY <1>2, <1>3 DEF IInv

\* The steps of executeWorkflowDirect together.
LEMMA DirectKeeps ==
    ASSUME IInv, NEW e \in Ids, NEW s \in Slots(e), Direct(e, s)
    PROVE  IInv'
<1>1. CASE Guard(e, s) \/ Refuse(e, s) \/ Register(e, s) \/ RejectDuplicate(e, s)
  BY <1>1, GuardKeeps, RefuseKeeps, RegisterKeeps, RejectDuplicateKeeps
<1>2. CASE \E last \in BOOLEAN : Suspend(e, s, last)
  BY <1>2, SuspendKeeps
<1>3. CASE \E status \in Outcomes : End(e, s, status)
  BY <1>3, EndKeeps
<1>4. CASE StoreFails(e, s) \/ Leave(e, s)
  BY <1>4, StoreFailsKeeps, LeaveKeeps
<1>5. CASE \E d \in Ids : LaunchErrorWorkflow(e, s, d)
  BY <1>5, LaunchErrorWorkflowKeeps
<1>6. CASE \E status \in Outcomes \ {"crashed"} : EndErrorWorkflow(e, s, status)
  BY <1>6, EndErrorWorkflowKeeps
<1>7. QED
  BY <1>1, <1>2, <1>3, <1>4, <1>5, <1>6 DEF Direct

\* A step that changes nothing.
LEMMA StutterKeeps == IInv /\ UNCHANGED vars => IInv'
<1> SUFFICES ASSUME IInv, UNCHANGED vars PROVE IInv'
  OBVIOUS
<1>1. UNCHANGED <<up, row, fresh, job, active, handler, subs, listed, resumed, abandoned, mishaps>>
  BY DEF vars, runVars, history
<1>2. Shape' /\ AsideOnce' /\ Down'
  BY <1>1 DEF IInv, Shape, AsideOnce, Down, JobFree, Slots
<1>3. ASSUME NEW x \in Ids PROVE Fits(x)'
  <2>1. (Aside(x)' <=> Aside(x)) /\ (Listed(x)' <=> Listed(x))
    BY <1>1 DEF Aside, Listed
  <2>2. QED
    BY <1>1, <2>1, Untouched DEF IInv
<1>4. QED
  BY <1>2, <1>3 DEF IInv

\* Every step keeps the invariant.
LEMMA StepKeeps == IInv /\ [Next]_vars => IInv'
<1> SUFFICES ASSUME IInv, [Next]_vars PROVE IInv'
  OBVIOUS
<1>1. ASSUME NEW e \in Ids, Create(e) \/ DispatchNew(e) \/ TimePasses(e) PROVE IInv'
  BY <1>1, CreateKeeps, DispatchNewKeeps, TimePassesKeeps
<1>2. ASSUME NEW e \in Ids, Resume(e) PROVE IInv'
  BY <1>2, TimerResumeKeeps DEF Resume
<1>3. ASSUME NEW e \in Ids, WebhookResume(e) \/ Delete(e) \/ EndSubWorkflow(e) PROVE IInv'
  BY <1>3, WebhookResumeKeeps, DeleteKeeps, EndSubWorkflowKeeps
<1>4. ASSUME NEW e \in Ids, NEW s \in Slots(e), Direct(e, s) PROVE IInv'
  BY <1>4, DirectKeeps
<1>5. ASSUME NEW e \in Ids, NEW s \in Slots(e), NEW d \in Ids, LaunchSubWorkflow(e, s, d)
      PROVE  IInv'
  BY <1>5, LaunchSubWorkflowKeeps
<1>6. ASSUME NEW S \in SUBSET Ids, Prune(S) PROVE IInv'
  BY <1>6, PruneKeeps
<1>7. CASE TimerTick \/ Crash \/ Restart
  BY <1>7, TimerTickKeeps, CrashKeeps, RestartKeeps
<1>8. CASE UNCHANGED vars
  BY <1>8, StutterKeeps
<1>9. QED
  BY <1>1, <1>2, <1>3, <1>4, <1>5, <1>6, <1>7, <1>8 DEF Next

\* In every reachable state the row, the jobs, the register, the timer's list
\* and what runs aside fit together, for each execution.
THEOREM LifecycleInductive == Spec => []IInv
  BY InitEstablishes, StepKeeps, PTL DEF Spec

\* Rows are consistent across the columns that the queries for due, prunable
\* and orphaned rows look at.
THEOREM LifecycleTypeCorrect == Spec => []TypeOK
<1>1. IInv => TypeOK
  <2> SUFFICES ASSUME IInv PROVE TypeOK
    OBVIOUS
  <2>1. /\ Shape
        /\ \A e \in Ids : job[e] \in [Slots(e) -> JobStates]
    BY DEF IInv, Fits, WellFormed
  <2>2. ASSUME NEW e \in Ids
        PROVE  /\ row[e].status \in Absent \cup Terminal \cup {"running", "waiting"}
               /\ row[e].finished = (row[e].status \in Terminal)
               /\ row[e].till \in {"null", "later", "due"}
               /\ row[e].till # "null" <=> row[e].status = "waiting"
               /\ row[e].last \in BOOLEAN
    <3>1. WellFormed(e)
      BY DEF IInv, Fits
    <3>2. row[e].finished = (row[e].status \in Terminal)
      BY <3>1 DEF WellFormed
    <3>3. QED
      BY <3>1, <3>2 DEF WellFormed, Statuses
  <2>3. QED
    BY <2>1, <2>2 DEF TypeOK, Shape
<1>2. QED
  BY <1>1, LifecycleInductive, PTL

\* An execution is run by one goroutine at a time, see the property.
THEOREM OneRunAtATimeHolds == Spec => []OneRunAtATime
<1>1. IInv => OneRunAtATime
  <2> SUFFICES ASSUME IInv, NEW e \in Ids
               PROVE  /\ \A s, t \in Runs(e) : s = t
                      /\ Runs(e) # {} => e \in active /\ ~Aside(e)
    BY DEF OneRunAtATime
  <2>1. EntryFits(e)
    BY DEF IInv, Fits
  <2>2. ASSUME NEW s \in Runs(e)
        PROVE  s \in Slots(e) /\ job[e][s] \in Entered /\ e \in active /\ ~Aside(e)
    <3>1. s \in Slots(e) /\ job[e][s] = "running"
      BY <2>2 DEF Runs
    <3>2. ~Aside(e)
      BY <3>1, JobsOfItsOwn
    <3>3. QED
      BY <2>1, <3>1, <3>2 DEF EntryFits, Entered
  <2>3. QED
    BY <2>1, <2>2 DEF EntryFits
<1>2. QED
  BY <1>1, LifecycleInductive, PTL

\* A row that says "running" has somebody to settle it, see the property.
THEOREM RunningHasRunnerHolds == Spec => []RunningHasRunner
<1>1. IInv => RunningHasRunner
  BY DEF IInv, Fits, RunnerFits, RunningHasRunner, Coming
<1>2. QED
  BY <1>1, LifecycleInductive, PTL

-----------------------------------------------------------------------------
\* What a step may do to a row.
RowMoves(x) ==
    \/ row'[x] = row[x]
    \/ row'[x].status = "running" /\ row[x].status = "unborn"
    \/ row'[x].status = "deleted" /\ row[x].status \notin Absent
    \/ row'[x].status = "pruned" /\ row[x].status \in Terminal
    \/ /\ row'[x].status \in Terminal \cup {"waiting"}
       /\ row[x].status \notin Absent
       /\ Settled(x) => x \in resumed

\* Finish moves a row as allowed.
LEMMA FinishedMoves ==
    ASSUME NEW d \in Ids, NEW status \in Terminal, DOMAIN row = Ids,
           row' = Finished(d, status), Settled(d) => d \in resumed, NEW x \in Ids
    PROVE  RowMoves(x)
<1>1. CASE x = d /\ Exists(d)
  <2>1. row'[x] = Row(status, TRUE, "null", FALSE)
    BY <1>1, FinishedEffect
  <2>2. row'[x].status \in Terminal
    BY <2>1 DEF Row
  <2>3. QED
    BY <1>1, <2>2 DEF RowMoves, Exists
<1>2. CASE ~(x = d /\ Exists(d))
  BY <1>2, FinishedEffect DEF RowMoves
<1>3. QED
  BY <1>1, <1>2

\* MarkWaiting moves a row as allowed.
LEMMA MarkedWaitingMoves ==
    ASSUME NEW d \in Ids, NEW last, DOMAIN row = Ids,
           row' = MarkedWaiting(d, last), Settled(d) => d \in resumed, NEW x \in Ids
    PROVE  RowMoves(x)
<1>1. CASE x = d /\ Exists(d)
  <2>1. row'[x] = Row("waiting", FALSE, "later", last)
    BY <1>1, MarkedWaitingEffect
  <2>2. row'[x].status = "waiting"
    BY <2>1 DEF Row
  <2>3. QED
    BY <1>1, <2>2 DEF RowMoves, Exists
<1>2. CASE ~(x = d /\ Exists(d))
  BY <1>2, MarkedWaitingEffect DEF RowMoves
<1>3. QED
  BY <1>1, <1>2

\* So do the steps of executeWorkflowDirect.
LEMMA DirectRowMoves ==
    ASSUME IInv, NEW e \in Ids, NEW s \in Slots(e), Direct(e, s), NEW x \in Ids
    PROVE  RowMoves(x)
<1>1. CASE \/ Guard(e, s) \/ Refuse(e, s) \/ Register(e, s) \/ RejectDuplicate(e, s)
           \/ StoreFails(e, s) \/ Leave(e, s)
  BY <1>1 DEF Guard, Refuse, Register, RejectDuplicate, StoreFails, Leave, RowMoves
<1>2. job[e][s] = "running" => (Settled(e) => e \in resumed)
  BY DEF IInv, Fits, OnceFits, Coming, Settled, Terminal
<1>3. ASSUME NEW last \in BOOLEAN, Suspend(e, s, last) PROVE RowMoves(x)
  BY <1>2, <1>3, MarkedWaitingMoves DEF IInv, Shape, Suspend
<1>4. ASSUME NEW status \in Outcomes, End(e, s, status) PROVE RowMoves(x)
  <2>1. status \in Terminal
    BY LifecycleAssumption DEF Terminal
  <2>2. QED
    BY <1>2, <1>4, <2>1, FinishedMoves DEF IInv, Shape, End
<1>5. ASSUME NEW d \in Ids, LaunchErrorWorkflow(e, s, d) PROVE RowMoves(x)
  BY <1>5 DEF IInv, Shape, LaunchErrorWorkflow, Created, RowMoves, Row
<1>6. ASSUME NEW status \in Outcomes, EndErrorWorkflow(e, s, status) PROVE RowMoves(x)
  <2>1. CASE UNCHANGED row
    BY <2>1 DEF RowMoves
  <2>2. CASE row' = Finished(handler[e], status)
    <3>1. Shape /\ EntryFits(e) /\ job[e][s] = "handling"
      BY <1>6 DEF IInv, Fits, EndErrorWorkflow
    <3>2. PICK d \in Ids : d = handler[e] /\ Aside(d)
      BY <3>1 DEF Shape, EntryFits, Aside
    <3>3. ~Settled(d) /\ status \in Terminal
      BY <3>2, LifecycleAssumption DEF IInv, Fits, AsideFits, Settled, Terminal
    <3>4. row' = Finished(d, status)
      BY <2>2, <3>2
    <3>5. QED
      BY <3>1, <3>3, <3>4, FinishedMoves DEF Shape
  <2>3. QED
    BY <1>6, <2>1, <2>2 DEF EndErrorWorkflow
<1>7. QED
  BY <1>1, <1>3, <1>4, <1>5, <1>6 DEF Direct

\* So does every step.
LEMMA StepRowMoves ==
    ASSUME IInv, [Next]_vars, NEW x \in Ids
    PROVE  RowMoves(x)
<1>1. Shape
  BY DEF IInv
<1>2. ASSUME NEW e \in Ids, Create(e) PROVE RowMoves(x)
  BY <1>1, <1>2 DEF Shape, Create, Created, RowMoves, Row
<1>3. ASSUME NEW e \in Ids, DispatchNew(e) \/ WebhookResume(e) PROVE RowMoves(x)
  BY <1>3 DEF DispatchNew, WebhookResume, RowMoves
<1>4. ASSUME NEW e \in Ids, TimePasses(e) PROVE RowMoves(x)
  <2>1. row[e].status = "waiting" /\ row' = [row EXCEPT ![e].till = "due"]
    BY <1>4 DEF TimePasses, Waiting
  <2>2. row'[e].status = "waiting" /\ (x # e => row'[x] = row[x])
    BY <1>1, <2>1 DEF IInv, Shape, Fits, WellFormed
  <2>3. QED
    BY <2>1, <2>2 DEF RowMoves, Absent, Settled, Terminal
<1>5. ASSUME NEW e \in Ids, NEW last \in BOOLEAN, TimerResume(e, last) PROVE RowMoves(x)
  <2>1. CASE UNCHANGED row
    BY <2>1 DEF RowMoves
  <2>2. CASE row' = Finished(e, "success")
    <3>1. OnceFits(e) /\ Listed(e)
      BY <1>5 DEF IInv, Fits, TimerResume, Listed
    <3>2. Settled(e) => e \in resumed
      BY <3>1 DEF OnceFits, Settled, Terminal
    <3>3. QED
      BY <1>1, <2>2, <3>2, FinishedMoves DEF Shape, Terminal
  <2>3. QED
    BY <1>5, <2>1, <2>2 DEF TimerResume
<1>6. ASSUME NEW e \in Ids, Delete(e) PROVE RowMoves(x)
  <2>1. /\ row[e].status \notin Absent
        /\ row' = [row EXCEPT ![e] = Row("deleted", FALSE, "null", FALSE)]
    BY <1>6 DEF Delete, Exists, NoRow
  <2>2. QED
    BY <1>1, <2>1 DEF Shape, RowMoves, Row
<1>7. ASSUME NEW S \in SUBSET Ids, Prune(S) PROVE RowMoves(x)
  <2>1. /\ \A e \in S : row[e].finished
        /\ row' = [e \in Ids |-> IF e \in S THEN Row("pruned", FALSE, "null", FALSE) ELSE row[e]]
    BY <1>7 DEF Prune, NoRow
  <2>2. row[x].finished => row[x].status \in Terminal
    BY DEF IInv, Fits, WellFormed
  <2>3. QED
    BY <2>1, <2>2 DEF RowMoves, Row
<1>8. ASSUME NEW d \in Ids, EndSubWorkflow(d) PROVE RowMoves(x)
  <2>1. ~Settled(d)
    BY <1>8 DEF EndSubWorkflow, IInv, Fits, AsideFits, Aside, Settled, Terminal
  <2>2. CASE UNCHANGED row
    BY <2>2 DEF RowMoves
  <2>3. ASSUME NEW last \in BOOLEAN, row' = MarkedWaiting(d, last) PROVE RowMoves(x)
    BY <1>1, <2>1, <2>3, MarkedWaitingMoves DEF Shape
  <2>4. ASSUME NEW status \in Outcomes, row' = Finished(d, status) PROVE RowMoves(x)
    <3>1. status \in Terminal
      BY LifecycleAssumption DEF Terminal
    <3>2. QED
      BY <1>1, <2>1, <2>4, <3>1, FinishedMoves DEF Shape
  <2>5. QED
    BY <1>8, <2>2, <2>3, <2>4 DEF EndSubWorkflow
<1>9. ASSUME NEW e \in Ids, NEW s \in Slots(e), Direct(e, s) PROVE RowMoves(x)
  BY <1>9, DirectRowMoves
<1>10. ASSUME NEW e \in Ids, NEW s \in Slots(e), NEW d \in Ids, LaunchSubWorkflow(e, s, d)
       PROVE  RowMoves(x)
  BY <1>1, <1>10 DEF Shape, LaunchSubWorkflow, Created, RowMoves, Row
<1>11. CASE TimerTick \/ Crash
  BY <1>11 DEF TimerTick, Crash, RowMoves
<1>12. CASE Restart
  <2>1. WellFormed(x) /\ row' = CleanedOrphans
    BY <1>12 DEF IInv, Fits, Restart
  <2>2. \/ row'[x] = Row("error", TRUE, "null", FALSE) /\ row[x].status = "running"
        \/ row'[x] = row[x]
    BY <2>1 DEF CleanedOrphans
  <2>3. QED
    BY <2>2 DEF RowMoves, Row, Settled, Terminal, Absent
<1>13. CASE UNCHANGED vars
  BY <1>13 DEF vars, RowMoves
<1>14. QED
  BY <1>2, <1>3, <1>4, <1>5, <1>6, <1>7, <1>8, <1>9, <1>10, <1>11, <1>12, <1>13
     DEF Next, Resume

\* An execution that was deleted or pruned does not come back, see the property.
THEOREM StaysRemovedHolds == Spec => StaysRemoved
<1>1. IInv /\ [Next]_vars =>
        [\A e \in Ids : row[e].status \in {"deleted", "pruned"} => row'[e] = row[e]]_vars
  <2> SUFFICES ASSUME IInv, [Next]_vars, NEW e \in Ids,
                      row[e].status \in {"deleted", "pruned"}
               PROVE  row'[e] = row[e]
    OBVIOUS
  <2>1. RowMoves(e)
    BY StepRowMoves
  <2>2. QED
    BY <2>1 DEF RowMoves, Absent, Terminal
<1>2. QED
  BY <1>1, LifecycleInductive, PTL DEF Spec, StaysRemoved

\* Pruning takes no execution that waits to be resumed or is being run for the
\* first time, even one that was finished before and waits again.
PrunesSettled ==
    [][\A e \in Ids :
          row[e].status # "pruned" /\ row'[e].status = "pruned"
             => Settled(e)]_vars

\* Only settled executions are pruned, although a suspension may bring the row
\* of one of them back to waiting.
THEOREM PrunesSettledHolds == Spec => PrunesSettled
<1>1. IInv /\ [Next]_vars =>
        [\A e \in Ids : row[e].status # "pruned" /\ row'[e].status = "pruned"
                          => Settled(e)]_vars
  <2> SUFFICES ASSUME IInv, [Next]_vars, NEW e \in Ids,
                      row[e].status # "pruned", row'[e].status = "pruned"
               PROVE  Settled(e)
    OBVIOUS
  <2>1. RowMoves(e)
    BY StepRowMoves
  <2>2. QED
    BY <2>1 DEF RowMoves, Terminal, Settled
<1>2. QED
  BY <1>1, LifecycleInductive, PTL DEF Spec, PrunesSettled

\* The outcome of an execution that was never resumed is final, see the property.
THEOREM OutcomeKeptHolds == Spec => OutcomeKept
<1>1. IInv /\ [Next]_vars =>
        [\A e \in Ids : Settled(e) /\ e \notin resumed =>
            row'[e] = row[e] \/ row'[e].status \in {"deleted", "pruned"}]_vars
  <2> SUFFICES ASSUME IInv, [Next]_vars, NEW e \in Ids, Settled(e), e \notin resumed
               PROVE  row'[e] = row[e] \/ row'[e].status \in {"deleted", "pruned"}
    OBVIOUS
  <2>1. RowMoves(e)
    BY StepRowMoves
  <2>2. QED
    BY <2>1 DEF RowMoves, Settled, Terminal
<1>2. QED
  BY <1>1, LifecycleInductive, PTL DEF Spec, OutcomeKept

-----------------------------------------------------------------------------
\* The lifecycle implements ExecutionRecord.  First, what moves the abstract
\* record of an execution, and what moves it in and out of the set of those
\* that are being run.
LEMMA RecordMoves ==
    ASSUME NEW e \in Ids, row'[e].status # "unborn",
           \A x \in Ids \ {e} : row'[x] = row[x]
    PROVE  Recorded' = [Recorded EXCEPT ![e] = row'[e].status]
  BY DEF Recorded

LEMMA RecordStays ==
    ASSUME \A x \in Ids : row'[x].status = row[x].status
    PROVE  Recorded' = Recorded
  BY DEF Recorded

\* Finish and MarkWaiting write the record of what is there.
LEMMA RecordWritten ==
    ASSUME NEW e \in Ids, NEW status \in Terminal \cup {"waiting"},
           DOMAIN row = Ids, row[e].status # "unborn",
           \/ row' = Finished(e, status)
           \/ status = "waiting" /\ \E last \in BOOLEAN : row' = MarkedWaiting(e, last)
    PROVE  Recorded' = Record!Written(e, status)
<1>1. /\ \A x \in Ids \ {e} : row'[x] = row[x]
      /\ Exists(e) => row'[e].status = status
      /\ ~Exists(e) => row'[e] = row[e]
  <2>1. CASE row' = Finished(e, status)
    <3>1. Exists(e) => row'[e] = Row(status, TRUE, "null", FALSE)
      BY <2>1, FinishedEffect
    <3>2. QED
      BY <2>1, <3>1, FinishedEffect DEF Row
  <2>2. CASE status = "waiting" /\ \E last \in BOOLEAN : row' = MarkedWaiting(e, last)
    <3>1. PICK last \in BOOLEAN : row' = MarkedWaiting(e, last)
      BY <2>2
    <3>2. Exists(e) => row'[e] = Row("waiting", FALSE, "later", last)
      BY <3>1, MarkedWaitingEffect
    <3>3. QED
      BY <2>2, <3>1, <3>2, MarkedWaitingEffect DEF Row
  <2>3. QED
    BY <2>1, <2>2
<1>2. Recorded[e] = row[e].status /\ DOMAIN Recorded = Ids
  BY DEF Recorded
<1>3. CASE Exists(e)
  <2>1. Recorded' = [Recorded EXCEPT ![e] = status]
    BY <1>1, <1>3, RecordMoves DEF Terminal
  <2>2. Recorded[e] \notin Record!Gone
    BY <1>2, <1>3 DEF Exists, Absent, Record!Gone
  <2>3. QED
    BY <2>1, <2>2 DEF Record!Written
<1>4. CASE ~Exists(e)
  <2>1. Recorded' = Recorded
    BY <1>1, <1>4, RecordStays
  <2>2. Recorded[e] \in Record!Gone
    BY <1>2, <1>4 DEF Exists, Absent, Record!Gone
  <2>3. QED
    BY <1>2, <2>1, <2>2 DEF Record!Written, Recorded
<1>5. QED
  BY <1>3, <1>4

LEMMA RunMoves ==
    ASSUME NEW e \in Ids,
           \A x \in Ids \ {e} : /\ Runs(x)' = Runs(x)
                                /\ Aside(x)' <=> Aside(x)
    PROVE  /\ (Runs(e)' # {} \/ Aside(e)') => Running' = Running \cup {e}
           /\ ~(Runs(e)' # {} \/ Aside(e)') => Running' = Running \ {e}
  BY DEF Running

LEMMA RunStays ==
    ASSUME \A x \in Ids : /\ Runs(x)' = Runs(x)
                          /\ Aside(x)' <=> Aside(x)
    PROVE  Running' = Running
  BY DEF Running

\* When a job moves, its execution begins to be run, ends to, or neither.
LEMMA JobRuns ==
    ASSUME IInv, NEW e \in Ids, NEW s \in Slots(e), NEW state \in JobStates,
           SetJob(e, s, state), job[e][s] # "free"
    PROVE  /\ \A x \in Ids \ {e} : Runs(x)' = Runs(x)
           /\ state = "running" => Runs(e)' # {}
           /\ job[e][s] = "running" /\ state # "running" => Runs(e)' = {}
           /\ job[e][s] # "running" /\ state # "running" => Runs(e)' = Runs(e)
<1>1. /\ job'[e] \in [Slots(e) -> JobStates]
      /\ job'[e][s] = state
      /\ \A t \in Slots(e) \ {s} : job'[e][t] = job[e][t]
      /\ \A x \in Ids \ {e} : job'[x] = job[x]
  BY SetJobEffect DEF IInv, Shape, Fits, WellFormed
<1>2. \A t \in Slots(e) \ {s} : job[e][s] = "running" => job[e][t] # "running"
  BY DEF IInv, Fits, EntryFits, Entered
<1>3. QED
  BY <1>1, <1>2 DEF Runs, Slots

\* A dispatched job runs nothing yet.
LEMMA DispatchRuns ==
    ASSUME IInv, NEW e \in Ids, Dispatch(e)
    PROVE  \A x \in Ids : Runs(x)' = Runs(x)
<1>1. PICK s \in Slots(e) : job[e][s] = "free" /\ SetJob(e, s, "queued")
  BY DispatchEffect
<1>2. /\ job'[e][s] = "queued"
      /\ \A t \in Slots(e) \ {s} : job'[e][t] = job[e][t]
      /\ \A x \in Ids \ {e} : job'[x] = job[x]
  BY <1>1, SetJobEffect DEF IInv, Shape, Fits, WellFormed, JobStates
<1>3. QED
  BY <1>1, <1>2 DEF Runs, Slots

\* Steps that no reader of records can see.
LEMMA UnseenSteps ==
    ASSUME IInv,
           \/ \E e \in Ids : DispatchNew(e) \/ TimePasses(e)
           \/ \E e \in Ids : \E s \in Slots(e) :
                 Guard(e, s) \/ Refuse(e, s) \/ RejectDuplicate(e, s) \/ Leave(e, s)
           \/ TimerTick
           \/ UNCHANGED vars
    PROVE  UNCHANGED <<up, Recorded, Running, resumed>>
<1>1. ASSUME NEW e \in Ids, DispatchNew(e)
      PROVE  UNCHANGED <<up, Recorded, Running, resumed>>
  <2>1. UNCHANGED <<up, row, handler, subs, resumed>>
    BY <1>1 DEF DispatchNew
  <2>2. \A x \in Ids : Runs(x)' = Runs(x)
    BY <1>1, DispatchRuns DEF DispatchNew, Runs, Slots
  <2>3. QED
    BY <2>1, <2>2, RunStays, RecordStays DEF Aside
<1>2. ASSUME NEW e \in Ids, TimePasses(e)
      PROVE  UNCHANGED <<up, Recorded, Running, resumed>>
  <2>1. UNCHANGED <<up, job, handler, subs, resumed>>
    BY <1>2 DEF TimePasses, runVars, history
  <2>2. \A x \in Ids : row'[x].status = row[x].status
    BY <1>2 DEF TimePasses, IInv, Shape, Fits, WellFormed
  <2>3. QED
    BY <2>1, <2>2, RunStays, RecordStays DEF Aside, Runs, Slots
<1>3. ASSUME NEW e \in Ids, NEW s \in Slots(e),
             Guard(e, s) \/ Refuse(e, s) \/ RejectDuplicate(e, s) \/ Leave(e, s)
      PROVE  UNCHANGED <<up, Recorded, Running, resumed>>
  <2>1. /\ UNCHANGED <<up, row, handler, subs, resumed>>
        /\ job[e][s] \notin {"free", "running"}
    BY <1>3 DEF Guard, Refuse, RejectDuplicate, Leave, history
  <2>2. PICK state \in {"free", "passed"} : SetJob(e, s, state)
    BY <1>3 DEF Guard, Refuse, RejectDuplicate, Leave
  <2>3. \A x \in Ids : Runs(x)' = Runs(x)
    BY <2>1, <2>2, JobRuns DEF JobStates
  <2>4. QED
    BY <2>1, <2>3, RunStays, RecordStays DEF Aside
<1>4. CASE TimerTick \/ UNCHANGED vars
  <2>1. UNCHANGED <<up, row, job, handler, subs, resumed>>
    BY <1>4 DEF TimerTick, vars, runVars, history
  <2>2. QED
    BY <2>1, RunStays, RecordStays DEF Aside, Runs, Slots
<1>5. QED
  BY <1>1, <1>2, <1>3, <1>4

\* A handler records an execution that is to be run later.
LEMMA CreateRecords ==
    ASSUME IInv, NEW e \in Ids, Create(e)
    PROVE  Record!Create(e)
<1>1. /\ up /\ row[e].status = "unborn" /\ Shape
      /\ row' = [row EXCEPT ![e] = Row("running", FALSE, "null", FALSE)]
      /\ UNCHANGED <<up, job, handler, subs, resumed>>
  BY DEF IInv, Create, Created, runVars, history
<1>2. /\ row'[e].status = "running"
      /\ \A x \in Ids \ {e} : row'[x] = row[x]
  BY <1>1 DEF Shape, Row
<1>3. Recorded[e] = "none" /\ Recorded' = [Recorded EXCEPT ![e] = "running"]
  BY <1>1, <1>2, RecordMoves DEF Recorded
<1>4. Running' = Running
  BY <1>1, RunStays DEF Aside, Runs, Slots
<1>5. QED
  BY <1>1, <1>3, <1>4 DEF Record!Create

\* A run launches another, which is recorded and begins at once.
LEMMA LaunchRecords ==
    ASSUME IInv, NEW e \in Ids, NEW s \in Slots(e), NEW d \in Ids,
           LaunchErrorWorkflow(e, s, d) \/ LaunchSubWorkflow(e, s, d)
    PROVE  Record!Create(d)
<1>1. /\ up /\ row[d].status = "unborn" /\ Shape
      /\ row' = [row EXCEPT ![d] = Row("running", FALSE, "null", FALSE)]
      /\ UNCHANGED <<up, resumed>>
  BY JobsOfItsOwn DEF IInv, LaunchErrorWorkflow, LaunchSubWorkflow, Created, history
<1>2. /\ row'[d].status = "running"
      /\ \A x \in Ids \ {d} : row'[x] = row[x]
  BY <1>1 DEF Shape, Row
<1>3. Recorded[d] = "none" /\ Recorded' = [Recorded EXCEPT ![d] = "running"]
  BY <1>1, <1>2, RecordMoves DEF Recorded
<1>4. Aside(d)' /\ \A x \in Ids \ {d} : Runs(x)' = Runs(x) /\ (Aside(x)' <=> Aside(x))
  <2>1. CASE LaunchErrorWorkflow(e, s, d)
    <3>1. /\ job[e][s] = "failed" /\ SetJob(e, s, "handling")
          /\ handler' = [handler EXCEPT ![e] = d] /\ subs' = subs
      BY <2>1 DEF LaunchErrorWorkflow
    <3>2. \A x \in Ids : Runs(x)' = Runs(x)
      BY <3>1, JobRuns DEF JobStates
    <3>3. handler[e] = NoId
      BY <3>1 DEF IInv, Fits, EntryFits, Entered, Past
    <3>4. QED
      BY <1>1, <3>1, <3>2, <3>3, LifecycleAssumption DEF Shape, Aside
  <2>2. CASE LaunchSubWorkflow(e, s, d)
    BY <2>2 DEF LaunchSubWorkflow, Aside, Runs, Slots
  <2>3. QED
    BY <2>1, <2>2
<1>5. Running' = Running \cup {d}
  BY <1>4, RunMoves
<1>6. QED
  BY <1>1, <1>3, <1>5 DEF Record!Create

\* A run that is registered begins, and nobody else is running the execution.
LEMMA RegisterBegins ==
    ASSUME IInv, NEW e \in Ids, NEW s \in Slots(e), Register(e, s)
    PROVE  Record!Begin(e)
<1>1. /\ job[e][s] = "passed" /\ e \notin active
      /\ SetJob(e, s, "running")
      /\ UNCHANGED <<up, row, handler, subs, resumed>>
  BY DEF Register, history
<1>2. up /\ ~Aside(e) /\ row[e].status # "unborn" /\ Fits(e)
  BY <1>1, JobsOfItsOwn
<1>3. e \notin Running
  <2>1. \A t \in Slots(e) : job[e][t] # "running"
    BY <1>1, <1>2 DEF Fits, EntryFits, Entered
  <2>2. QED
    BY <1>2, <2>1 DEF Running, Runs
<1>4. Running' = Running \cup {e}
  <2>1. /\ \A x \in Ids \ {e} : Runs(x)' = Runs(x)
        /\ Runs(e)' # {}
    BY <1>1, JobRuns DEF JobStates
  <2>2. QED
    BY <1>1, <2>1, RunMoves DEF Aside
<1>5. Recorded[e] \in {"running", "deleted"} \/ e \in resumed
  BY <1>1, <1>2 DEF Fits, OnceFits, Coming, Recorded
<1>6. Recorded' = Recorded
  BY <1>1, RecordStays
<1>7. QED
  BY <1>1, <1>2, <1>3, <1>4, <1>5, <1>6 DEF Record!Begin

\* A registered run ends, suspends, or cannot store what it did.
LEMMA RunEnds ==
    ASSUME IInv, NEW e \in Ids, NEW s \in Slots(e),
           \/ \E last \in BOOLEAN : Suspend(e, s, last)
           \/ \E status \in Outcomes : End(e, s, status)
           \/ StoreFails(e, s)
    PROVE  Record!End(e)
<1>1. job[e][s] = "running" /\ UNCHANGED <<up, handler, subs, resumed>> /\ Shape
  BY DEF IInv, Suspend, End, StoreFails, history
<1>2. up /\ ~Aside(e) /\ row[e].status # "unborn" /\ Fits(e)
  BY <1>1, JobsOfItsOwn
<1>3. PICK state \in {"failed", "leaving"} : SetJob(e, s, state)
  BY DEF Suspend, End, StoreFails
<1>4. e \in Running /\ Running' = Running \ {e}
  <2>1. /\ \A x \in Ids \ {e} : Runs(x)' = Runs(x)
        /\ Runs(e)' = {}
    BY <1>1, <1>3, JobRuns DEF JobStates
  <2>2. Running' = Running \ {e}
    BY <1>1, <1>2, <2>1, RunMoves DEF Aside
  <2>3. QED
    BY <1>1, <2>2 DEF Running, Runs
<1>5. \/ Recorded' = Recorded
      \/ \E to \in Terminal \cup {"waiting"} : Recorded' = Record!Written(e, to)
  <2>1. CASE \E last \in BOOLEAN : Suspend(e, s, last)
    BY <1>1, <1>2, <2>1, RecordWritten DEF Suspend, Shape
  <2>2. CASE \E status \in Outcomes : End(e, s, status)
    BY <1>1, <1>2, <2>2, RecordWritten, LifecycleAssumption DEF End, Shape, Terminal
  <2>3. CASE StoreFails(e, s)
    BY <2>3, RecordStays DEF StoreFails
  <2>4. QED
    BY <2>1, <2>2, <2>3
<1>6. QED
  BY <1>1, <1>2, <1>4, <1>5 DEF Record!End

\* So does an error workflow, and its execution runs nowhere else.
LEMMA ErrorWorkflowEnds ==
    ASSUME IInv, NEW e \in Ids, NEW s \in Slots(e), NEW status \in Outcomes,
           EndErrorWorkflow(e, s, status)
    PROVE  Record!End(handler[e]) /\ handler[e] \in Ids
<1>1. /\ job[e][s] = "handling" /\ Shape
      /\ handler' = [handler EXCEPT ![e] = NoId]
      /\ SetJob(e, s, "leaving")
      /\ UNCHANGED <<up, subs, resumed>>
  BY DEF IInv, EndErrorWorkflow
<1>2. up /\ Fits(e)
  BY <1>1, JobsOfItsOwn
<1>3. PICK d \in Ids : d = handler[e] /\ d # NoId /\ Aside(d) /\ Fits(d)
  BY <1>1, <1>2, LifecycleAssumption DEF IInv, Shape, Fits, EntryFits, Aside
<1>4. JobFree(d) /\ row[d].status # "unborn"
  BY <1>3 DEF Fits, AsideFits
<1>5. handler'[e] = NoId /\ \A x \in Ids \ {e} : handler'[x] = handler[x]
  BY <1>1 DEF Shape
<1>6. ~Aside(d)' /\ \A x \in Ids \ {d} : Aside(x)' <=> Aside(x)
  BY <1>1, <1>3, <1>5, LifecycleAssumption DEF IInv, AsideOnce, Aside
<1>7. \A x \in Ids : Runs(x)' = Runs(x)
  BY <1>1, JobRuns DEF JobStates
<1>8. d \in Running /\ Running' = Running \ {d}
  <2>1. Runs(d) = {}
    BY <1>4 DEF JobFree, Runs
  <2>2. Running' = Running \ {d}
    BY <1>6, <1>7, <2>1, RunMoves
  <2>3. QED
    BY <1>3, <2>2 DEF Running
<1>9. \/ Recorded' = Recorded
      \/ \E to \in Terminal \cup {"waiting"} : Recorded' = Record!Written(d, to)
  <2>1. CASE row' = Finished(handler[e], status)
    <3>1. row' = Finished(d, status) /\ status \in Terminal
      BY <1>3, <2>1, LifecycleAssumption DEF Terminal
    <3>2. QED
      BY <1>1, <1>4, <3>1, RecordWritten DEF Shape
  <2>2. CASE UNCHANGED row
    BY <2>2, RecordStays
  <2>3. QED
    BY <2>1, <2>2 DEF EndErrorWorkflow
<1>10. QED
  BY <1>1, <1>2, <1>3, <1>8, <1>9 DEF Record!End

\* So does a sub-workflow.
LEMMA SubWorkflowEnds ==
    ASSUME IInv, NEW d \in Ids, EndSubWorkflow(d)
    PROVE  Record!End(d)
<1>1. /\ Shape /\ Fits(d) /\ d \in subs /\ subs' = subs \ {d} /\ up
      /\ UNCHANGED <<up, job, handler, resumed>>
  BY DEF IInv, Down, EndSubWorkflow
<1>2. Aside(d) /\ ~Aside(d)' /\ \A x \in Ids \ {d} : Aside(x)' <=> Aside(x)
  BY <1>1, LifecycleAssumption DEF IInv, AsideOnce, Aside
<1>3. JobFree(d) /\ row[d].status # "unborn"
  BY <1>1, <1>2 DEF Fits, AsideFits
<1>4. d \in Running /\ Running' = Running \ {d}
  <2>1. \A x \in Ids : Runs(x)' = Runs(x)
    BY <1>1 DEF Runs, Slots
  <2>2. Runs(d) = {}
    BY <1>3 DEF JobFree, Runs
  <2>3. Running' = Running \ {d}
    BY <1>2, <2>1, <2>2, RunMoves
  <2>4. QED
    BY <1>2, <2>3 DEF Running
<1>5. \/ Recorded' = Recorded
      \/ \E to \in Terminal \cup {"waiting"} : Recorded' = Record!Written(d, to)
  <2>1. CASE \E last \in BOOLEAN : row' = MarkedWaiting(d, last)
    BY <1>1, <1>3, <2>1, RecordWritten DEF Shape
  <2>2. CASE \E status \in Outcomes : row' = Finished(d, status)
    BY <1>1, <1>3, <2>2, RecordWritten, LifecycleAssumption DEF Shape, Terminal
  <2>3. CASE UNCHANGED row
    BY <2>3, RecordStays
  <2>4. QED
    BY <2>1, <2>2, <2>3 DEF EndSubWorkflow
<1>6. QED
  BY <1>1, <1>4, <1>5 DEF Record!End

\* The timer asks to resume what it once read as waiting, and settles it if
\* nothing is left to run.
LEMMA TimerAsks ==
    ASSUME IInv, NEW e \in Ids, NEW last \in BOOLEAN, TimerResume(e, last)
    PROVE  Record!Resume(e)
<1>1. /\ up /\ Shape /\ Fits(e) /\ Listed(e)
      /\ resumed' = resumed \cup {e}
      /\ UNCHANGED <<up, handler, subs>>
  BY DEF IInv, TimerResume, Listed
<1>2. row[e].status # "unborn" /\ Recorded[e] = row[e].status
  BY <1>1 DEF Fits, UnbornFits, Recorded
<1>3. Recorded[e] \in {"waiting", "deleted"} \/ e \in resumed
  BY <1>1, <1>2 DEF Fits, OnceFits
<1>4. \A x \in Ids : Runs(x)' = Runs(x)
  <2>1. CASE Dispatch(e)
    BY <2>1, DispatchRuns
  <2>2. CASE UNCHANGED job
    BY <2>2 DEF Runs, Slots
  <2>3. QED
    BY <2>1, <2>2 DEF TimerResume
<1>5. Running' = Running
  BY <1>1, <1>4, RunStays DEF Aside
<1>6. Recorded' \in {Recorded, Record!Written(e, "success")}
  <2>1. CASE row' = Finished(e, "success")
    BY <1>1, <1>2, <2>1, RecordWritten DEF Shape, Terminal
  <2>2. CASE UNCHANGED row
    BY <2>2, RecordStays
  <2>3. QED
    BY <2>1, <2>2 DEF TimerResume
<1>7. QED
  BY <1>1, <1>3, <1>5, <1>6 DEF Record!Resume

\* A webhook or form asks to resume what waits.
LEMMA WebhookAsks ==
    ASSUME IInv, NEW e \in Ids, WebhookResume(e)
    PROVE  Record!Resume(e)
<1>1. /\ up /\ row[e].status = "waiting" /\ Dispatch(e)
      /\ resumed' = resumed \cup {e}
      /\ UNCHANGED <<up, row, handler, subs>>
  BY DEF WebhookResume, Waiting
<1>2. Recorded[e] = "waiting" /\ Recorded' = Recorded
  BY <1>1, RecordStays DEF Recorded
<1>3. Running' = Running
  BY <1>1, DispatchRuns, RunStays DEF Aside
<1>4. QED
  BY <1>1, <1>2, <1>3 DEF Record!Resume

\* A record that is there is deleted.
LEMMA DeleteRemoves ==
    ASSUME IInv, NEW e \in Ids, Delete(e)
    PROVE  Record!Delete(e)
<1>1. /\ up /\ Shape /\ WellFormed(e) /\ row[e].status \notin Absent
      /\ row' = [row EXCEPT ![e] = Row("deleted", FALSE, "null", FALSE)]
      /\ UNCHANGED <<up, job, handler, subs, resumed>>
  BY DEF IInv, Fits, Delete, Exists, NoRow, runVars, history
<1>2. Recorded[e] \in {"running", "waiting"} \cup Terminal
  BY <1>1 DEF WellFormed, Statuses, Absent, Recorded
<1>3. Recorded' = [Recorded EXCEPT ![e] = "deleted"]
  <2>1. row'[e].status = "deleted" /\ \A x \in Ids \ {e} : row'[x] = row[x]
    BY <1>1 DEF Shape, Row
  <2>2. QED
    BY <2>1, RecordMoves
<1>4. Running' = Running
  BY <1>1, RunStays DEF Aside, Runs, Slots
<1>5. QED
  BY <1>1, <1>2, <1>3, <1>4 DEF Record!Delete

\* Only records with an outcome are pruned, for those rows are finished.
LEMMA PruneRemoves ==
    ASSUME IInv, NEW S \in SUBSET Ids, Prune(S)
    PROVE  Record!Prune(S)
<1>1. /\ up /\ \A e \in S : row[e].finished
      /\ row' = [e \in Ids |-> IF e \in S THEN Row("pruned", FALSE, "null", FALSE) ELSE row[e]]
      /\ UNCHANGED <<up, job, handler, subs, resumed>>
  BY DEF Prune, NoRow, runVars, history
<1>2. \A e \in S : Recorded[e] \in Terminal
  BY <1>1 DEF IInv, Fits, WellFormed, Recorded, Terminal
<1>3. Recorded' = [e \in Ids |-> IF e \in S THEN "pruned" ELSE Recorded[e]]
  BY <1>1 DEF Recorded, Row
<1>4. Running' = Running
  BY <1>1, RunStays DEF Aside, Runs, Slots
<1>5. QED
  BY <1>1, <1>2, <1>3, <1>4 DEF Record!Prune

\* With the process all runs are gone.
LEMMA CrashDies ==
    ASSUME IInv, Crash
    PROVE  Record!Die
<1>1. /\ up /\ up' = FALSE /\ subs' = {}
      /\ job' = [e \in Ids |-> [s \in Slots(e) |-> "free"]]
      /\ handler' = [e \in Ids |-> NoId]
      /\ UNCHANGED <<row, resumed>>
  BY DEF Crash
<1>2. \A x \in Ids : Runs(x)' = {} /\ ~Aside(x)'
  BY <1>1, LifecycleAssumption DEF Runs, Aside, Slots
<1>3. Running' = {}
  BY <1>2 DEF Running
<1>4. Recorded' = Recorded
  BY <1>1, RecordStays
<1>5. QED
  BY <1>1, <1>3, <1>4 DEF Record!Die

\* All that says "running" is an orphan when the process starts, for such a
\* row is unfinished and has no time to wait for.
LEMMA RestartStarts ==
    ASSUME IInv, Restart
    PROVE  Record!Start
<1>1. ~up /\ up' = TRUE /\ row' = CleanedOrphans /\ UNCHANGED <<job, handler, subs, resumed>>
  BY DEF Restart, runVars, history
<1>2. ASSUME NEW x \in Ids
      PROVE  row'[x].status = IF row[x].status = "running" THEN "error" ELSE row[x].status
  <2>1. WellFormed(x)
    BY DEF IInv, Fits
  <2>2. CASE row[x].status = "running"
    <3>1. row'[x] = Row("error", TRUE, "null", FALSE)
      BY <1>1, <2>1, <2>2 DEF CleanedOrphans, WellFormed, Terminal
    <3>2. QED
      BY <2>2, <3>1 DEF Row
  <2>3. CASE row[x].status # "running"
    BY <1>1, <2>3 DEF CleanedOrphans
  <2>4. QED
    BY <2>2, <2>3
<1>3. Recorded' = [e \in Ids |-> IF Recorded[e] = "running" THEN "error" ELSE Recorded[e]]
  BY <1>2 DEF Recorded
<1>4. Running' = Running
  BY <1>1, RunStays DEF Aside, Runs, Slots
<1>5. QED
  BY <1>1, <1>3, <1>4 DEF Record!Start

\* The lifecycle implements ExecutionRecord, see the property.
THEOREM LifecycleImplementation == Spec => ImplementsRecord
<1>1. Init => Record!Init
  <2> SUFFICES ASSUME Init PROVE Record!Init
    OBVIOUS
  <2>1. \A e \in Ids : Runs(e) = {} /\ ~Aside(e) /\ row[e].status = "unborn"
    BY LifecycleAssumption DEF Init, Runs, Aside, NoRow, Row
  <2>2. Running = {} /\ Recorded = [e \in Ids |-> "none"]
    BY <2>1 DEF Running, Recorded
  <2>3. QED
    BY <2>2 DEF Init, Record!Init
<1>2. IInv /\ [Next]_vars => [Record!Next]_<<up, Recorded, Running, resumed>>
  <2> SUFFICES ASSUME IInv, [Next]_vars
               PROVE  Record!Next \/ UNCHANGED <<up, Recorded, Running, resumed>>
    OBVIOUS
  <2>1. ASSUME NEW e \in Ids, Create(e) \/ Resume(e) \/ WebhookResume(e) \/ Delete(e)
        PROVE  Record!Next
    BY <2>1, CreateRecords, TimerAsks, WebhookAsks, DeleteRemoves DEF Resume, Record!Next
  <2>2. ASSUME NEW e \in Ids, EndSubWorkflow(e)
        PROVE  Record!Next
    BY <2>2, SubWorkflowEnds DEF Record!Next
  <2>3. ASSUME NEW e \in Ids, NEW s \in Slots(e), Direct(e, s)
        PROVE  Record!Next \/ UNCHANGED <<up, Recorded, Running, resumed>>
    <3>1. CASE Guard(e, s) \/ Refuse(e, s) \/ RejectDuplicate(e, s) \/ Leave(e, s)
      BY <3>1, UnseenSteps
    <3>2. CASE Register(e, s)
      BY <3>2, RegisterBegins DEF Record!Next
    <3>3. CASE \/ \E last \in BOOLEAN : Suspend(e, s, last)
               \/ \E status \in Outcomes : End(e, s, status)
               \/ StoreFails(e, s)
      BY <3>3, RunEnds DEF Record!Next
    <3>4. CASE \E d \in Ids : LaunchErrorWorkflow(e, s, d)
      BY <3>4, LaunchRecords DEF Record!Next
    <3>5. CASE \E status \in Outcomes \ {"crashed"} : EndErrorWorkflow(e, s, status)
      BY <3>5, ErrorWorkflowEnds DEF Record!Next
    <3>6. QED
      BY <2>3, <3>1, <3>2, <3>3, <3>4, <3>5 DEF Direct
  <2>4. ASSUME NEW e \in Ids, NEW s \in Slots(e), NEW d \in Ids, LaunchSubWorkflow(e, s, d)
        PROVE  Record!Next
    BY <2>4, LaunchRecords DEF Record!Next
  <2>5. ASSUME NEW S \in SUBSET Ids, Prune(S)
        PROVE  Record!Next
    BY <2>5, PruneRemoves DEF Record!Next
  <2>6. CASE Crash \/ Restart
    BY <2>6, CrashDies, RestartStarts DEF Record!Next
  <2>7. CASE (\E e \in Ids : DispatchNew(e) \/ TimePasses(e)) \/ TimerTick \/ UNCHANGED vars
    BY <2>7, UnseenSteps
  <2>8. QED
    BY <2>1, <2>2, <2>3, <2>4, <2>5, <2>6, <2>7 DEF Next
<1>3. QED
  BY <1>1, <1>2, LifecycleInductive, PTL DEF Spec, ImplementsRecord, Record!Spec, Record!vars
=============================================================================
