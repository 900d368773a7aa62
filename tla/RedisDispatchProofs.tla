------------------------- MODULE RedisDispatchProofs -------------------------
(***************************************************************************)
(* Proofs about RedisDispatch for any instances, workers and jobs and any  *)
(* number of failures: an accepted job is not lost and not run twice, but  *)
(* for the cases that abandoned, unread and disturbed name.                *)
(***************************************************************************)
EXTENDS RedisDispatch, FiniteSetTheorems, SequenceTheorems, TLAPS

Entries == [job : Jobs, place : Places, owner : Instances \cup {NoOne}, idle : BOOLEAN]

Owned(e) == stream[e].owner # NoOne <=> stream[e].place = "pending"

-----------------------------------------------------------------------------
\* What the commands do to the stream, entry by entry.

LEMMA SequenceOfEntries ==
    ASSUME NEW s \in Seq(Entries), NEW t, t = [e \in DOMAIN s |-> t[e]],
           \A e \in DOMAIN s : t[e] \in Entries
    PROVE  t \in Seq(Entries) /\ Len(t) = Len(s)
<1>1. DOMAIN s = 1..Len(s) /\ Len(s) \in Nat
    BY LenProperties
<1>2. t \in [1..Len(s) -> Entries]
    BY <1>1
<1> QED BY <1>1, <1>2, SeqDef, LenProperties

LEMMA ClaimEffect ==
    ASSUME NEW s \in Seq(Entries), NEW es, NEW i \in Instances
    PROVE  /\ Claim(s, es, i) \in Seq(Entries)
           /\ Len(Claim(s, es, i)) = Len(s) /\ DOMAIN Claim(s, es, i) = DOMAIN s
           /\ \A e \in DOMAIN s :
                 /\ Claim(s, es, i)[e].job = s[e].job
                 /\ Claim(s, es, i)[e].place = s[e].place
                 /\ e \in es /\ s[e].place = "pending" =>
                       Claim(s, es, i)[e].owner = i /\ ~Claim(s, es, i)[e].idle
                 /\ ~(e \in es /\ s[e].place = "pending") => Claim(s, es, i)[e] = s[e]
<1> DEFINE t == Claim(s, es, i)
<1>1. t = [e \in DOMAIN s |-> IF e \in es /\ s[e].place = "pending"
                              THEN [s[e] EXCEPT !.owner = i, !.idle = FALSE]
                              ELSE s[e]]
    BY DEF Claim
<1>2. \A e \in DOMAIN s : s[e] \in Entries
    BY ElementOfSeq, LenProperties
<1> HIDE DEF t
<1>3. ASSUME NEW e \in DOMAIN s
      PROVE  /\ t[e] \in Entries
             /\ t[e].job = s[e].job
             /\ t[e].place = s[e].place
             /\ e \in es /\ s[e].place = "pending" => t[e].owner = i /\ ~t[e].idle
             /\ ~(e \in es /\ s[e].place = "pending") => t[e] = s[e]
    BY <1>1, <1>2, <1>3 DEF Entries
<1>4. t \in Seq(Entries) /\ Len(t) = Len(s)
    BY <1>1, <1>3, SequenceOfEntries
<1> QED BY <1>1, <1>3, <1>4 DEF t

\* One entry is changed in place.
LEMMA ExceptEffect ==
    ASSUME NEW s \in Seq(Entries), NEW d \in DOMAIN s, NEW x \in Entries
    PROVE  /\ [s EXCEPT ![d] = x] \in Seq(Entries)
           /\ Len([s EXCEPT ![d] = x]) = Len(s) /\ DOMAIN [s EXCEPT ![d] = x] = DOMAIN s
           /\ [s EXCEPT ![d] = x][d] = x
           /\ \A e \in DOMAIN s : e # d => [s EXCEPT ![d] = x][e] = s[e]
BY ExceptSeq, LenProperties

LEMMA EntryTyped == ASSUME NEW j \in Jobs PROVE Entry(j) \in Entries
BY DEF Entry, Entries, Places

LEMMA AppendEffect ==
    ASSUME NEW s \in Seq(Entries), NEW j \in Jobs
    PROVE  /\ Append(s, Entry(j)) \in Seq(Entries)
           /\ Len(Append(s, Entry(j))) = Len(s) + 1
           /\ DOMAIN Append(s, Entry(j)) = DOMAIN s \cup {Len(s) + 1}
           /\ Append(s, Entry(j))[Len(s) + 1] = Entry(j)
           /\ Len(s) + 1 \notin DOMAIN s
           /\ \A e \in DOMAIN s : Append(s, Entry(j))[e] = s[e]
<1>1. Entry(j) \in Entries
    BY EntryTyped
<1>2. DOMAIN s = 1..Len(s) /\ Len(s) \in Nat
    BY LenProperties
<1>3. /\ Append(s, Entry(j)) \in Seq(Entries)
      /\ Len(Append(s, Entry(j))) = Len(s) + 1
      /\ \A e \in 1..Len(s) : Append(s, Entry(j))[e] = s[e]
      /\ Append(s, Entry(j))[Len(s) + 1] = Entry(j)
    BY <1>1, AppendProperties
<1>4. DOMAIN Append(s, Entry(j)) = 1..(Len(s) + 1)
    BY <1>3, LenProperties
<1> QED BY <1>2, <1>3, <1>4

\* What AddTwice makes of a stream.
Twice(s, j) == Append(Append(s, Entry(j)), Entry(j))

LEMMA AppendTwiceEffect ==
    ASSUME NEW s \in Seq(Entries), NEW j \in Jobs
    PROVE  /\ Twice(s, j) \in Seq(Entries) /\ Len(Twice(s, j)) = Len(s) + 2
           /\ DOMAIN Twice(s, j) = DOMAIN s \cup {Len(s) + 1, Len(s) + 2}
           /\ {Len(s) + 1, Len(s) + 2} \cap DOMAIN s = {}
           /\ \A f \in {Len(s) + 1, Len(s) + 2} : Twice(s, j)[f] = Entry(j)
           /\ \A e \in DOMAIN s : Twice(s, j)[e] = s[e]
<1>0. PICK t : t = Twice(s, j)
    OBVIOUS
<1>1. PICK u : u = Append(s, Entry(j))
    OBVIOUS
<1>2. /\ u \in Seq(Entries) /\ Len(u) = Len(s) + 1
      /\ DOMAIN u = DOMAIN s \cup {Len(s) + 1}
      /\ u[Len(s) + 1] = Entry(j) /\ Len(s) + 1 \notin DOMAIN s
      /\ \A e \in DOMAIN s : u[e] = s[e]
    BY <1>1, AppendEffect
<1>3. /\ Append(u, Entry(j)) \in Seq(Entries) /\ Len(Append(u, Entry(j))) = Len(u) + 1
      /\ DOMAIN Append(u, Entry(j)) = DOMAIN u \cup {Len(u) + 1}
      /\ Append(u, Entry(j))[Len(u) + 1] = Entry(j) /\ Len(u) + 1 \notin DOMAIN u
      /\ \A e \in DOMAIN u : Append(u, Entry(j))[e] = u[e]
    BY <1>2, AppendEffect
<1>4. t = Append(u, Entry(j))
    BY <1>0, <1>1 DEF Twice
<1>5. Len(s) \in Nat /\ Len(u) + 1 = Len(s) + 2 /\ Len(s) + 1 # Len(s) + 2
    BY <1>2, LenProperties
<1> HIDE <1>4
<1>6. /\ t \in Seq(Entries) /\ Len(t) = Len(s) + 2
      /\ DOMAIN t = DOMAIN u \cup {Len(s) + 2} /\ Len(s) + 2 \notin DOMAIN u
      /\ t[Len(s) + 2] = Entry(j) /\ \A e \in DOMAIN u : t[e] = u[e]
    BY <1>3, <1>4, <1>5
<1> QED BY <1>0, <1>2, <1>5, <1>6

LEMMA DeleteEffect ==
    ASSUME NEW s \in Seq(Entries), NEW d \in DOMAIN s
    PROVE  /\ Delete(s, d) \in Seq(Entries)
           /\ Len(Delete(s, d)) = Len(s) /\ DOMAIN Delete(s, d) = DOMAIN s
           /\ Delete(s, d)[d].job = s[d].job /\ Delete(s, d)[d].place = "gone"
           /\ Delete(s, d)[d].owner = NoOne /\ ~Delete(s, d)[d].idle
           /\ \A e \in DOMAIN s : e # d => Delete(s, d)[e] = s[e]
<1>1. s[d] \in Entries
    BY ElementOfSeq, LenProperties
<1> DEFINE x == [s[d] EXCEPT !.place = "gone", !.owner = NoOne, !.idle = FALSE]
<1>2. /\ x \in Entries
      /\ x.job = s[d].job /\ x.place = "gone" /\ x.owner = NoOne /\ ~x.idle
    BY <1>1 DEF Entries, Places
<1>3. Delete(s, d) = [s EXCEPT ![d] = x]
    BY DEF Delete
<1> HIDE DEF x
<1> QED BY <1>2, <1>3, ExceptEffect

LEMMA DeliverEffect ==
    ASSUME NEW s \in Seq(Entries), NEW d \in DOMAIN s, NEW i \in Instances
    PROVE  /\ Deliver(s, d, i) \in Seq(Entries)
           /\ Len(Deliver(s, d, i)) = Len(s) /\ DOMAIN Deliver(s, d, i) = DOMAIN s
           /\ Deliver(s, d, i)[d].job = s[d].job /\ Deliver(s, d, i)[d].place = "pending"
           /\ Deliver(s, d, i)[d].owner = i /\ Deliver(s, d, i)[d].idle = s[d].idle
           /\ \A e \in DOMAIN s : e # d => Deliver(s, d, i)[e] = s[e]
<1>1. s[d] \in Entries
    BY ElementOfSeq, LenProperties
<1> DEFINE x == [s[d] EXCEPT !.place = "pending", !.owner = i]
<1>2. /\ x \in Entries
      /\ x.job = s[d].job /\ x.place = "pending" /\ x.owner = i /\ x.idle = s[d].idle
    BY <1>1 DEF Entries, Places
<1>3. Deliver(s, d, i) = [s EXCEPT ![d] = x]
    BY DEF Deliver
<1> HIDE DEF x
<1> QED BY <1>2, <1>3, ExceptEffect

-----------------------------------------------------------------------------
(***************************************************************************)
(* The inductive invariant.  It speaks of the executions that are not      *)
(* disturbed, which have one entry at a time; all the others are free.     *)
(***************************************************************************)
Calm(j) == j \notin disturbed

\* What is true of all.
Shape ==
    /\ \A e \in Ids : stream[e].idle => stream[e].place = "pending"
    /\ \A i \in Instances, j \in Jobs : active[i][j] # 0 => Job(active[i][j]) = j
    /\ \A i \in Instances : up[i] = "down" =>
          /\ \A j \in Jobs : active[i][j] = 0
          /\ claimed[i] = {}
    /\ \A e \in Ids : row[Job(e)] # "absent"

\* A job has one entry.
OneEntry ==
    \A e, f \in Ids : Calm(Job(e)) /\ Present(e) /\ Present(f) /\ Job(e) = Job(f) => e = f

\* An instance that has a job keeps its entry alive.
Held ==
    \A i \in Instances, j \in Jobs :
        Calm(j) /\ active[i][j] # 0 =>
            /\ stream[active[i][j]].place = "pending"
            /\ stream[active[i][j]].owner = i
            /\ ~stream[active[i][j]].idle

\* What a reaper has claimed is its own, and nobody works on it.
Reaped ==
    \A i \in Instances : \A e \in claimed[i] :
        Calm(Job(e)) =>
            /\ stream[e].place = "pending" /\ stream[e].owner = i /\ ~stream[e].idle
            /\ \A k \in Instances, j \in Jobs : active[k][j] # e

\* A worker's job is its instance's, and no other worker's.
Worked ==
    \A w \in Workers :
        wpc[w] # "idle" /\ Calm(Job(wentry[w])) =>
            /\ active[Home[w]][Job(wentry[w])] = wentry[w]
            /\ \A v \in Workers : wpc[v] # "idle" /\ wentry[v] = wentry[w] => v = w

\* What is about to be acknowledged says that it runs only if it is abandoned, and
\* what is settled does not run unless that was not read.
Recorded ==
    \A w \in Workers :
        Calm(Job(wentry[w])) =>
            /\ wpc[w] = "ran" /\ row[Job(wentry[w])] = "running" =>
                   Job(wentry[w]) \in abandoned \/ up[Home[w]] = "closing"
            /\ wpc[w] \in {"passed", "running"} /\ row[Job(wentry[w])] = "settled" =>
                   Job(wentry[w]) \in unread

IInv == TypeOK /\ Shape /\ OneEntry /\ Held /\ Reaped /\ Worked /\ Recorded /\ NoJobLost

LEMMA Typed ==
    ASSUME TypeOK
    PROVE  /\ stream \in Seq(Entries)
           /\ Ids = 1..Len(stream) /\ Len(stream) \in Nat /\ 0 \notin Ids
           /\ \A e \in Ids : stream[e] \in Entries /\ Job(e) \in Jobs
           /\ \A w \in Workers : Home[w] \in Instances /\ (wpc[w] # "idle" => wentry[w] \in Ids)
<1>1. stream \in Seq(Entries)
    BY DEF TypeOK, Entries
<1>2. Ids = 1..Len(stream) /\ Len(stream) \in Nat
    BY <1>1, LenProperties DEF Ids
<1>3. \A e \in Ids : stream[e] \in Entries
    BY <1>1, <1>2, ElementOfSeq
<1>4. \A w \in Workers : Home[w] \in Instances /\ (wpc[w] # "idle" => wentry[w] \in Ids)
    BY RedisAssumption DEF TypeOK
<1> QED BY <1>1, <1>2, <1>3, <1>4 DEF Entries, Job

\* One worker at a time has an undisturbed job.
LEMMA OneWorker ==
    ASSUME IInv, NEW w \in Workers, NEW v \in Workers,
           wpc[w] # "idle", wpc[v] # "idle",
           Job(wentry[w]) = Job(wentry[v]), Calm(Job(wentry[w]))
    PROVE  v = w
<1> DEFINE j == Job(wentry[w])
<1>1. /\ wentry[w] \in Ids /\ wentry[v] \in Ids /\ j \in Jobs
      /\ Home[w] \in Instances /\ Home[v] \in Instances /\ 0 \notin Ids
    BY Typed DEF IInv
<1>2. active[Home[w]][j] = wentry[w] /\ active[Home[v]][j] = wentry[v]
    BY DEF IInv, Worked
<1>3. Present(wentry[w]) /\ Present(wentry[v])
    BY <1>1, <1>2 DEF IInv, Held, Present
<1>4. wentry[w] = wentry[v]
    BY <1>1, <1>3 DEF IInv, OneEntry
<1> QED BY <1>4 DEF IInv, Worked

LEMMA FaultCounted ==
    ASSUME TypeOK, faults' = faults \/ Fault
    PROVE  faults' \in 0..MaxFaults
BY RedisAssumption DEF TypeOK, Fault

LEMMA InitInductive == Init => IInv
<1> SUFFICES ASSUME Init
             PROVE  IInv
    OBVIOUS
<1>1. Ids = {} /\ Len(stream) = 0 /\ stream \in Seq(Entries)
    BY EmptySeq DEF Init, Ids
<1>2. TypeOK
    BY <1>1, RedisAssumption DEF Init, TypeOK, Entries, Terminal
<1>3. Shape /\ OneEntry /\ Held /\ Reaped /\ Worked
    BY <1>1 DEF Init, Shape, OneEntry, Held, Reaped, Worked
<1>4. Recorded /\ NoJobLost
    BY DEF Init, Recorded, NoJobLost, Kept
<1> QED BY <1>2, <1>3, <1>4 DEF IInv

-----------------------------------------------------------------------------
\* Steps of a worker between taking a job and acknowledging it.

\* If neither the queue nor who has which job changes, only the rows and the
\* places of the workers matter.
LEMMA QuietKeeps ==
    ASSUME IInv, TypeOK',
           UNCHANGED <<stream, active, claimed, up, wentry, disturbed>>,
           abandoned \subseteq abandoned',
           \A w \in Workers : wpc'[w] = "idle" <=> wpc[w] = "idle",
           \A j \in Jobs : row'[j] = "absent" <=> row[j] = "absent",
           \A j \in Jobs : row'[j] = "running" => row[j] = "running",
           Recorded'
    PROVE  IInv'
<1>1. Ids' = Ids /\ \A e : Job(e)' = Job(e) /\ Present(e)' = Present(e)
    BY DEF Ids, Job, Present
<1>2. \A e \in Ids : Job(e) \in Jobs
    BY Typed DEF IInv
<1>3. Shape'
    BY <1>1, <1>2 DEF IInv, Shape, Job
<1>4. OneEntry' /\ Held' /\ Reaped'
    BY <1>1 DEF IInv, OneEntry, Held, Reaped, Calm
<1>5. Worked'
    BY <1>1 DEF IInv, Worked, Calm
<1>6. NoJobLost'
    BY <1>1 DEF IInv, NoJobLost, Kept
<1> QED BY <1>3, <1>4, <1>5, <1>6 DEF IInv

LEMMA GuardKeeps ==
    ASSUME IInv, NEW w \in Workers, Guard(w)
    PROVE  IInv'
<1>1. wentry[w] \in Ids /\ Job(wentry[w]) \in Jobs
    BY Typed DEF IInv, Guard
<1>2. /\ wpc' = [wpc EXCEPT ![w] = IF row[Job(wentry[w])] \in Terminal THEN "ran" ELSE "passed"]
      /\ UNCHANGED <<stream, active, claimed, up, wentry, disturbed, abandoned, unread, row, faults>>
    BY DEF Guard, Goto, queueVars, history
<1>3. TypeOK'
    BY <1>2 DEF IInv, TypeOK, Guard, Ids
<1>4. Recorded'
    BY <1>2 DEF IInv, TypeOK, Recorded, Calm, Job, Terminal
<1>5. \A v \in Workers : wpc'[v] = "idle" <=> wpc[v] = "idle"
    BY <1>2 DEF IInv, TypeOK, Guard
<1> QED BY <1>2, <1>3, <1>4, <1>5, QuietKeeps

LEMMA GuardUnreadKeeps ==
    ASSUME IInv, NEW w \in Workers, GuardUnread(w)
    PROVE  IInv'
<1>1. wentry[w] \in Ids /\ Job(wentry[w]) \in Jobs
    BY Typed DEF IInv, GuardUnread
<1>2. /\ wpc[w] = "taken" /\ wpc' = [wpc EXCEPT ![w] = "passed"]
      /\ faults' = faults \/ Fault
      /\ unread' = IF row[Job(wentry[w])] \in Terminal
                   THEN unread \cup {Job(wentry[w])} ELSE unread
      /\ UNCHANGED <<stream, active, claimed, up, wentry, disturbed, abandoned, row>>
    BY DEF GuardUnread, FaultAt, Goto, queueVars
<1>3. faults' \in 0..MaxFaults
    BY <1>2, FaultCounted DEF IInv
<1>4. unread' \subseteq Jobs /\ unread \subseteq unread'
    BY <1>1, <1>2 DEF IInv, TypeOK
<1>5. TypeOK'
    BY <1>2, <1>3, <1>4 DEF IInv, TypeOK, Ids
<1>6. row[Job(wentry[w])] = "settled" => Job(wentry[w]) \in unread'
    BY <1>2 DEF Terminal
<1>7. wpc'[w] = "passed" /\ \A v \in Workers \ {w} : wpc'[v] = wpc[v]
    BY <1>2 DEF IInv, TypeOK
<1>8. Recorded'
    BY <1>2, <1>4, <1>6, <1>7 DEF IInv, Recorded, Calm, Job
<1>9. \A v \in Workers : wpc'[v] = "idle" <=> wpc[v] = "idle"
    BY <1>2 DEF IInv, TypeOK
<1> QED BY <1>2, <1>5, <1>8, <1>9, QuietKeeps

\* Refuse and StoreFails.
LEMMA UnrecordedKeeps ==
    ASSUME IInv, NEW w \in Workers, Refuse(w) \/ StoreFails(w)
    PROVE  IInv'
<1>1. wentry[w] \in Ids /\ Job(wentry[w]) \in Jobs
    BY Typed DEF IInv, Refuse, StoreFails
<1>2. /\ wpc[w] # "idle" /\ wpc' = [wpc EXCEPT ![w] = "ran"]
      /\ faults' = faults \/ Fault
      /\ abandoned' = IF up[Home[w]] = "closing" THEN abandoned
                      ELSE abandoned \cup {Job(wentry[w])}
      /\ UNCHANGED <<stream, active, claimed, up, wentry, disturbed, unread, row>>
    BY DEF Refuse, StoreFails, EndUnrecorded, FaultAt, Goto, queueVars
<1>3. faults' \in 0..MaxFaults
    BY <1>2, FaultCounted DEF IInv
<1>4. abandoned' \subseteq Jobs /\ abandoned \subseteq abandoned'
    BY <1>1, <1>2 DEF IInv, TypeOK
<1>5. TypeOK'
    BY <1>2, <1>3, <1>4 DEF IInv, TypeOK, Ids
<1>6. Job(wentry[w]) \in abandoned' \/ up[Home[w]] = "closing"
    BY <1>2
<1>7. wpc'[w] = "ran" /\ \A v \in Workers \ {w} : wpc'[v] = wpc[v]
    BY <1>2 DEF IInv, TypeOK
<1>8. Recorded'
    BY <1>2, <1>4, <1>6, <1>7 DEF IInv, Recorded, Calm, Job
<1>9. \A v \in Workers : wpc'[v] = "idle" <=> wpc[v] = "idle"
    BY <1>2 DEF IInv, TypeOK
<1> QED BY <1>2, <1>4, <1>5, <1>8, <1>9, QuietKeeps

LEMMA RegisterKeeps ==
    ASSUME IInv, NEW w \in Workers, Register(w)
    PROVE  IInv'
<1>1. wpc[w] = "passed" /\ UNCHANGED <<stream, active, claimed, up, wentry, disturbed, abandoned, unread, row, faults>>
    BY DEF Register, Goto, queueVars, history
<1>2. \/ wpc' = [wpc EXCEPT ![w] = "ran"] /\ RunningAt(Home[w], Job(wentry[w]))
      \/ wpc' = [wpc EXCEPT ![w] = "running"]
    BY DEF Register, Goto
<1>3. Calm(Job(wentry[w])) => ~RunningAt(Home[w], Job(wentry[w]))
    <2> SUFFICES ASSUME Calm(Job(wentry[w])), NEW v \in Workers,
                        wpc[v] = "running", Job(wentry[v]) = Job(wentry[w])
                 PROVE  FALSE
        BY DEF RunningAt, Working
    <2>1. v = w
        BY <1>1, OneWorker
    <2> QED BY <1>1, <2>1
<1>4. TypeOK'
    BY <1>1, <1>2 DEF IInv, TypeOK, Ids
<1>5. Recorded'
    BY <1>1, <1>2, <1>3 DEF IInv, TypeOK, Recorded, Calm, Job
<1>6. \A v \in Workers : wpc'[v] = "idle" <=> wpc[v] = "idle"
    BY <1>1, <1>2 DEF IInv, TypeOK
<1> QED BY <1>1, <1>4, <1>5, <1>6, QuietKeeps

\* Finish and Suspend.
LEMMA EndKeeps ==
    ASSUME IInv, NEW w \in Workers, Finish(w) \/ Suspend(w)
    PROVE  IInv'
<1> DEFINE j == Job(wentry[w])
<1>1. /\ wpc[w] = "running" /\ wpc' = [wpc EXCEPT ![w] = "ran"]
      /\ UNCHANGED <<stream, active, claimed, up, wentry, disturbed, abandoned, unread, faults>>
    BY DEF Finish, Suspend, Goto, queueVars, history
<1>2. /\ wentry[w] \in Ids /\ j \in Jobs
      /\ \A v \in Workers : wpc[v] # "idle" => Job(wentry[v]) \in Jobs
    BY <1>1, Typed DEF IInv
<1>3. PICK x \in {"settled", "waiting"} : row' = [row EXCEPT ![j] = x]
    BY DEF Finish, Suspend
<1>4. TypeOK'
    BY <1>1, <1>2, <1>3 DEF IInv, TypeOK, Ids, Terminal
<1>5. row[j] # "absent"
    BY <1>2 DEF IInv, Shape
<1>6. Recorded'
    <2> SUFFICES ASSUME NEW v \in Workers, Calm(Job(wentry[v])), wpc'[v] # "idle"
                 PROVE  /\ wpc'[v] = "ran" /\ row'[Job(wentry[v])] = "running" =>
                              Job(wentry[v]) \in abandoned' \/ up'[Home[v]] = "closing"
                        /\ wpc'[v] \in {"passed", "running"} /\ row'[Job(wentry[v])] = "settled" =>
                              Job(wentry[v]) \in unread'
        BY <1>1 DEF Recorded, Calm, Job
    <2>1. CASE v = w
        BY <1>1, <1>2, <1>3, <2>1 DEF IInv, TypeOK
    <2>2. CASE v # w
        <3>1. wpc'[v] = wpc[v]
            BY <1>1, <2>2 DEF IInv, TypeOK
        <3>2. Job(wentry[v]) # j
            BY <1>1, <2>2, <3>1, OneWorker
        <3> HIDE DEF j
        <3>3. row'[Job(wentry[v])] = row[Job(wentry[v])]
            BY <1>2, <1>3, <3>1, <3>2 DEF IInv, TypeOK
        <3> QED BY <1>1, <3>1, <3>3 DEF IInv, Recorded
    <2> QED BY <2>1, <2>2
<1>7. \A v \in Workers : wpc'[v] = "idle" <=> wpc[v] = "idle"
    BY <1>1 DEF IInv, TypeOK
<1>8. /\ \A k \in Jobs : row'[k] = "absent" <=> row[k] = "absent"
      /\ \A k \in Jobs : row'[k] = "running" => row[k] = "running"
    <2> HIDE DEF j
    <2> QED BY <1>2, <1>3, <1>5 DEF IInv, TypeOK
<1> QED BY <1>1, <1>4, <1>6, <1>7, <1>8, QuietKeeps

-----------------------------------------------------------------------------
\* Steps that give a job up or take one.

\* An acknowledgement that fails, and a job handed back.
LEMMA ForgetKeeps ==
    ASSUME IInv, NEW w \in Workers, AcknowledgeFails(w) \/ Nack(w)
    PROVE  IInv'
<1> DEFINE j == Job(wentry[w])
           i == Home[w]
<1>1. /\ wpc[w] # "idle"
      /\ wpc' = [wpc EXCEPT ![w] = "idle"] /\ wentry' = [wentry EXCEPT ![w] = 0]
      /\ active' = [active EXCEPT ![i][j] = 0]
      /\ UNCHANGED <<stream, row, up, claimed, disturbed, abandoned, unread>>
      /\ faults' = faults \/ (faults < MaxFaults /\ faults' = faults + 1)
    BY DEF AcknowledgeFails, Nack, Idle, Forget, FaultAt, Fault, history
<1>2. wentry[w] \in Ids /\ j \in Jobs /\ i \in Instances /\ 0 \notin Ids
    BY <1>1, Typed DEF IInv
<1>3. \A k \in Instances, l \in Jobs :
          active'[k][l] = IF k = i /\ l = j THEN 0 ELSE active[k][l]
    <2> HIDE DEF i, j
    <2> QED BY <1>1, <1>2 DEF IInv, TypeOK
<1>4. faults' \in 0..MaxFaults
    BY <1>1, RedisAssumption DEF IInv, TypeOK
<1>5. Ids' = Ids /\ \A e : Job(e)' = Job(e) /\ Present(e)' = Present(e)
    BY <1>1 DEF Ids, Job, Present
<1>6. active' \in [Instances -> [Jobs -> {0} \cup Ids]]
    <2> HIDE DEF i, j
    <2> QED BY <1>1, <1>2 DEF IInv, TypeOK
<1>7. TypeOK'
    BY <1>1, <1>4, <1>5, <1>6 DEF IInv, TypeOK
<1> HIDE DEF i, j
<1>8. Shape'
    BY <1>1, <1>3, <1>5, Typed DEF IInv, Shape
<1>9. OneEntry' /\ NoJobLost'
    BY <1>1, <1>5 DEF IInv, OneEntry, Calm, NoJobLost, Kept
<1>10. Held' /\ Reaped'
    BY <1>1, <1>2, <1>3, <1>5 DEF IInv, Held, Reaped, Calm, TypeOK
<1>11. ASSUME NEW v \in Workers, wpc'[v] # "idle"
       PROVE  v # w /\ wpc'[v] = wpc[v] /\ wentry'[v] = wentry[v]
    BY <1>1, <1>11 DEF IInv, TypeOK
<1>12. Worked'
    <2> SUFFICES ASSUME NEW v \in Workers, wpc'[v] # "idle", Calm(Job(wentry[v]))
                 PROVE  active'[Home[v]][Job(wentry[v])] = wentry[v]
        BY <1>1, <1>5, <1>11 DEF IInv, Worked, Calm
    <2>1. wpc[v] # "idle" /\ v # w
        BY <1>11
    <2>2. Job(wentry[v]) # j
        BY <1>1, <2>1, OneWorker DEF j
    <2>3. Home[v] \in Instances /\ Job(wentry[v]) \in Jobs
        BY <2>1, Typed DEF IInv
    <2> QED BY <1>3, <2>1, <2>2, <2>3 DEF IInv, Worked
<1>13. Recorded'
    BY <1>1, <1>5, <1>11 DEF IInv, Recorded, Calm
<1> QED BY <1>7, <1>8, <1>9, <1>10, <1>12, <1>13 DEF IInv

LEMMA DequeueKeeps ==
    ASSUME IInv, NEW w \in Workers, Dequeue(w)
    PROVE  IInv'
<1> DEFINE i == Home[w]
<1>1. PICK e \in Ids : /\ wpc[w] = "idle" /\ up[i] = "up" /\ stream[e].place = "new"
                       /\ stream' = Deliver(stream, e, i)
                       /\ active' = [active EXCEPT ![i][Job(e)] = e]
                       /\ wpc' = [wpc EXCEPT ![w] = "taken"]
                       /\ wentry' = [wentry EXCEPT ![w] = e]
                       /\ UNCHANGED <<row, up, claimed, disturbed, abandoned, unread, faults>>
    BY DEF Dequeue, history
<1> DEFINE j == Job(e)
<1>2. j \in Jobs /\ i \in Instances /\ 0 \notin Ids
    BY Typed DEF IInv
<1>3. /\ stream' \in Seq(Entries) /\ Len(stream') = Len(stream) /\ Ids' = Ids
      /\ stream'[e].job = stream[e].job /\ stream'[e].place = "pending"
      /\ stream'[e].owner = i /\ stream'[e].idle = stream[e].idle
      /\ \A f \in Ids : f # e => stream'[f] = stream[f]
    <2>1. stream \in Seq(Entries) /\ Ids = DOMAIN stream /\ Ids' = DOMAIN stream'
        BY Typed DEF IInv, Ids
    <2> HIDE DEF i
    <2>2. /\ Deliver(stream, e, i) \in Seq(Entries)
          /\ Len(Deliver(stream, e, i)) = Len(stream)
          /\ DOMAIN Deliver(stream, e, i) = DOMAIN stream
          /\ Deliver(stream, e, i)[e].job = stream[e].job
          /\ Deliver(stream, e, i)[e].place = "pending" /\ Deliver(stream, e, i)[e].owner = i
          /\ Deliver(stream, e, i)[e].idle = stream[e].idle
          /\ \A f \in DOMAIN stream : f # e => Deliver(stream, e, i)[f] = stream[f]
        BY <1>2, <2>1, DeliverEffect
    <2> QED BY <1>1, <2>1, <2>2
<1>4. stream[e] \in Entries /\ e # 0 /\ ~stream[e].idle
    BY <1>1, <1>2, Typed DEF IInv, Shape
<1>5. /\ stream'[e].job = j /\ Job(e) = j /\ stream'[e].place = "pending" /\ stream'[e].owner = i
      /\ ~stream'[e].idle
    BY <1>3, <1>4 DEF Entries, Job
<1>6. \A f \in Ids : Job(f)' = Job(f) /\ (Present(f)' <=> Present(f))
    BY <1>1, <1>3, <1>5 DEF Job, Present
<1> HIDE DEF i, j
<1>7. \A k \in Instances, l \in Jobs :
          active'[k][l] = IF k = i /\ l = j THEN e ELSE active[k][l]
    BY <1>1, <1>2 DEF IInv, TypeOK, j
<1>8. active' \in [Instances -> [Jobs -> {0} \cup Ids]]
    BY <1>1, <1>2 DEF IInv, TypeOK, j
<1>9. TypeOK'
    <2>1. ASSUME NEW f \in Ids
          PROVE  stream'[f].owner # NoOne <=> stream'[f].place = "pending"
        <3>1. CASE f = e
            BY <1>2, <1>5, <3>1, RedisAssumption
        <3>2. CASE f # e
            BY <1>3, <3>2 DEF IInv, TypeOK
        <3> QED BY <3>1, <3>2
    <2>2. /\ wpc' \in [Workers -> {"idle", "taken", "passed", "running", "ran"}]
          /\ wentry' \in [Workers -> {0} \cup Ids]
          /\ \A v \in Workers : wpc'[v] = "idle" <=> wentry'[v] = 0
        BY <1>1, <1>4 DEF IInv, TypeOK
    <2> QED BY <1>1, <1>3, <1>8, <2>1, <2>2 DEF IInv, TypeOK, Entries
<1>10. \A k \in Instances, l \in Jobs : Calm(l) => active[k][l] # e
    BY <1>1, <1>4 DEF IInv, Held
<1>11. \A v \in Workers : wpc[v] # "idle" /\ Calm(Job(wentry[v])) => Job(wentry[v]) # j
    <2> SUFFICES ASSUME NEW v \in Workers, wpc[v] # "idle", Calm(Job(wentry[v])),
                        Job(wentry[v]) = j
                 PROVE  FALSE
        OBVIOUS
    <2>1. active[Home[v]][j] = wentry[v] /\ Home[v] \in Instances /\ wentry[v] \in Ids
        BY Typed DEF IInv, Worked
    <2>2. stream[wentry[v]].place = "pending"
        BY <1>2, <2>1 DEF IInv, Held
    <2>3. wentry[v] = e
        BY <1>1, <2>1, <2>2 DEF IInv, OneEntry, Present, j
    <2> QED BY <1>1, <2>2, <2>3
<1>12. Shape'
    <2>1. \A f \in Ids : stream'[f].idle => stream'[f].place = "pending"
        BY <1>3, <1>5 DEF IInv, Shape
    <2>2. \A k \in Instances, l \in Jobs : active[k][l] # 0 => active[k][l] \in Ids
        BY DEF IInv, TypeOK
    <2>3. \A k \in Instances, l \in Jobs : active'[k][l] # 0 => stream'[active'[k][l]].job = l
        BY <1>3, <1>5, <1>7, <2>2 DEF IInv, Shape, Job, j
    <2>4. \A k \in Instances : up'[k] = "down" =>
              /\ \A l \in Jobs : active'[k][l] = 0
              /\ claimed'[k] = {}
        BY <1>1, <1>7 DEF IInv, Shape
    <2>5. \A f \in Ids : row'[stream'[f].job] # "absent"
        BY <1>1, <1>6 DEF IInv, Shape, Job
    <2> QED BY <1>3, <2>1, <2>3, <2>4, <2>5 DEF Shape, Job
<1>13. OneEntry' /\ NoJobLost'
    BY <1>1, <1>3, <1>6 DEF IInv, OneEntry, Calm, NoJobLost, Kept
<1>14. Held'
    <2> SUFFICES ASSUME NEW k \in Instances, NEW l \in Jobs, Calm(l), active'[k][l] # 0
                 PROVE  /\ stream'[active'[k][l]].place = "pending"
                        /\ stream'[active'[k][l]].owner = k
                        /\ ~stream'[active'[k][l]].idle
        BY <1>1 DEF Held, Calm
    <2>1. CASE k = i /\ l = j
        BY <1>5, <1>7, <2>1
    <2>2. CASE ~(k = i /\ l = j)
        <3>1. active'[k][l] = active[k][l] /\ active[k][l] \in Ids /\ active[k][l] # e
            BY <1>7, <1>10, <2>2 DEF IInv, TypeOK
        <3> QED BY <1>3, <3>1 DEF IInv, Held
    <2> QED BY <2>1, <2>2
<1>15. Reaped'
    <2> SUFFICES ASSUME NEW k \in Instances, NEW f \in claimed[k], Calm(Job(f)')
                 PROVE  /\ stream'[f].place = "pending" /\ stream'[f].owner = k /\ ~stream'[f].idle
                        /\ \A h \in Instances, l \in Jobs : active'[h][l] # f
        BY <1>1 DEF Reaped, Calm
    <2>1. f \in Ids
        BY DEF IInv, TypeOK
    <2>2. /\ stream[f].place = "pending" /\ stream[f].owner = k /\ ~stream[f].idle
          /\ \A h \in Instances, l \in Jobs : active[h][l] # f
        BY <1>6, <2>1 DEF IInv, Reaped
    <2>3. f # e
        BY <1>1, <2>2
    <2> QED BY <1>3, <1>7, <2>1, <2>2, <2>3
<1>16. \A v \in Workers : v # w => wpc'[v] = wpc[v] /\ wentry'[v] = wentry[v]
    BY <1>1 DEF IInv, TypeOK
<1>17. wpc'[w] = "taken" /\ wentry'[w] = e
    BY <1>1 DEF IInv, TypeOK
<1>18. ASSUME NEW v \in Workers, v # w, wpc'[v] # "idle"
       PROVE  /\ wpc[v] # "idle" /\ wpc'[v] = wpc[v] /\ wentry'[v] = wentry[v]
              /\ Home[v] \in Instances /\ wentry[v] \in Ids /\ Job(wentry[v]) \in Jobs
              /\ Job(wentry[v])' = Job(wentry[v])
    <2>1. wpc[v] # "idle" /\ wpc'[v] = wpc[v] /\ wentry'[v] = wentry[v]
        BY <1>16, <1>18
    <2>2. Home[v] \in Instances /\ wentry[v] \in Ids /\ Job(wentry[v]) \in Jobs
        BY <2>1, Typed DEF IInv
    <2>3. stream'[wentry[v]].job = stream[wentry[v]].job
        BY <1>6, <2>2 DEF Job
    <2> QED BY <2>1, <2>2, <2>3 DEF Job
<1>19. Worked'
    <2> SUFFICES ASSUME NEW v \in Workers, wpc'[v] # "idle", Calm(Job(wentry[v]))'
                 PROVE  /\ active'[Home[v]][Job(wentry[v])'] = wentry'[v]
                        /\ \A x \in Workers : wpc'[x] # "idle" /\ wentry'[x] = wentry'[v] => x = v
        BY DEF Worked
    <2>1. CASE v = w
        <3>1. Job(wentry[v])' = j
            BY <1>5, <1>17, <2>1 DEF j, Job
        <3>2. active'[Home[v]][j] = wentry'[v]
            BY <1>2, <1>7, <1>17, <2>1 DEF i
        <3>3. Calm(j)
            BY <1>1, <3>1 DEF Calm
        <3>4. \A x \in Workers : x # w /\ wpc[x] # "idle" => wentry[x] # e
            BY <1>11, <3>3 DEF j
        <3> QED BY <1>18, <1>17, <2>1, <3>1, <3>2, <3>4
    <2>2. CASE v # w
        <3>1. /\ wpc[v] # "idle" /\ wentry'[v] = wentry[v] /\ Calm(Job(wentry[v]))
              /\ Job(wentry[v])' = Job(wentry[v])
            BY <1>1, <1>18, <2>2 DEF Calm
        <3>2. Job(wentry[v]) # j
            BY <1>11, <3>1
        <3>3. active'[Home[v]][Job(wentry[v])] = wentry[v]
            BY <1>7, <1>18, <2>2, <3>1, <3>2 DEF IInv, Worked
        <3>4. wentry[v] # e
            BY <3>2 DEF j
        <3>5. \A x \in Workers : wpc'[x] # "idle" /\ wentry'[x] = wentry[v] => x = v
            BY <1>17, <1>18, <3>1, <3>4 DEF IInv, Worked
        <3> QED BY <3>1, <3>3, <3>5
    <2> QED BY <2>1, <2>2
<1>20. Recorded'
    <2> SUFFICES ASSUME NEW v \in Workers, wpc'[v] # "idle", wpc'[v] # "taken",
                        Calm(Job(wentry[v]))'
                 PROVE  /\ wpc'[v] = "ran" /\ row'[Job(wentry[v])'] = "running" =>
                              Job(wentry[v])' \in abandoned' \/ up'[Home[v]] = "closing"
                        /\ wpc'[v] \in {"passed", "running"} /\ row'[Job(wentry[v])'] = "settled" =>
                              Job(wentry[v])' \in unread'
        BY DEF Recorded
    <2>1. v # w
        BY <1>17
    <2> QED BY <1>1, <1>18, <2>1 DEF IInv, Recorded, Calm
<1> QED BY <1>9, <1>12, <1>13, <1>14, <1>15, <1>19, <1>20 DEF IInv

-----------------------------------------------------------------------------
\* Steps of Redis, of the keepalive and of the reaper, in place.

\* If entries only change hands, who is said to hold them is what matters.
LEMMA HandsKeep ==
    ASSUME IInv,
           stream' \in Seq(Entries), Len(stream') = Len(stream), Ids' = Ids,
           \A f \in Ids : /\ stream'[f].job = stream[f].job
                          /\ stream'[f].place = "gone" <=> stream[f].place = "gone"
                          /\ stream'[f].idle => stream'[f].place = "pending"
                          /\ stream'[f].owner # NoOne <=> stream'[f].place = "pending",
           UNCHANGED <<row, active, up, wpc, wentry, abandoned, unread>>,
           claimed' \in [Instances -> SUBSET Ids],
           \A i \in Instances : up[i] = "down" => claimed'[i] = {},
           disturbed \subseteq disturbed', disturbed' \subseteq Jobs,
           faults' \in 0..MaxFaults,
           Held', Reaped'
    PROVE  IInv'
<1>1. TypeOK'
    BY DEF IInv, TypeOK, Entries
<1>2. \A f \in Ids : Job(f)' = Job(f) /\ (Present(f)' <=> Present(f))
    BY DEF Job, Present
<1>3. Shape'
    <2>1. \A k \in Instances, l \in Jobs :
              active[k][l] # 0 => active[k][l] \in Ids /\ stream'[active[k][l]].job = l
        BY DEF IInv, TypeOK, Shape, Job
    <2>2. \A f \in Ids : row[stream'[f].job] # "absent"
        BY DEF IInv, Shape, Job
    <2> QED BY <2>1, <2>2 DEF IInv, Shape, Job
<1>4. OneEntry'
    BY <1>2 DEF IInv, OneEntry, Calm
<1>5. NoJobLost'
    BY <1>2 DEF IInv, NoJobLost, Kept
<1>6. ASSUME NEW v \in Workers, wpc[v] # "idle"
      PROVE  wentry[v] \in Ids /\ Job(wentry[v])' = Job(wentry[v])
    <2>1. wentry[v] \in Ids
        BY <1>6, Typed DEF IInv
    <2> QED BY <2>1 DEF Job
<1>7. Worked'
    BY <1>6 DEF IInv, Worked, Calm
<1>8. Recorded'
    <2> SUFFICES ASSUME NEW v \in Workers, wpc[v] # "idle", Calm(Job(wentry[v]))'
                 PROVE  /\ wpc[v] = "ran" /\ row[Job(wentry[v])'] = "running" =>
                              Job(wentry[v])' \in abandoned' \/ up'[Home[v]] = "closing"
                        /\ wpc[v] \in {"passed", "running"} /\ row[Job(wentry[v])'] = "settled" =>
                              Job(wentry[v])' \in unread'
        BY DEF Recorded
    <2> QED BY <1>6 DEF IInv, Recorded, Calm
<1> QED BY <1>1, <1>3, <1>4, <1>5, <1>7, <1>8 DEF IInv

\* An entry that is pending becomes idle.
LEMMA IdleEffect ==
    ASSUME IInv, NEW e \in Ids, stream[e].place = "pending",
           stream' = [stream EXCEPT ![e].idle = TRUE]
    PROVE  /\ stream' \in Seq(Entries) /\ Len(stream') = Len(stream) /\ Ids' = Ids
           /\ \A f \in Ids : /\ stream'[f].job = stream[f].job
                             /\ stream'[f].place = stream[f].place
                             /\ stream'[f].owner = stream[f].owner
                             /\ f # e => stream'[f] = stream[f]
<1> DEFINE x == [stream[e] EXCEPT !.idle = TRUE]
<1>1. stream[e] \in Entries /\ stream \in Seq(Entries) /\ e \in DOMAIN stream
    BY Typed DEF IInv, Ids
<1>2. x \in Entries /\ x.job = stream[e].job /\ x.place = stream[e].place
      /\ x.owner = stream[e].owner
    BY <1>1 DEF Entries
<1>3. stream' = [stream EXCEPT ![e] = x]
    OBVIOUS
<1> HIDE DEF x
<1>4. /\ stream' \in Seq(Entries) /\ Len(stream') = Len(stream)
      /\ DOMAIN stream' = DOMAIN stream /\ stream'[e] = x
      /\ \A f \in DOMAIN stream : f # e => stream'[f] = stream[f]
    <2>1. /\ [stream EXCEPT ![e] = x] \in Seq(Entries)
          /\ Len([stream EXCEPT ![e] = x]) = Len(stream)
          /\ DOMAIN [stream EXCEPT ![e] = x] = DOMAIN stream
          /\ [stream EXCEPT ![e] = x][e] = x
          /\ \A f \in DOMAIN stream : f # e => [stream EXCEPT ![e] = x][f] = stream[f]
        BY <1>1, <1>2, ExceptEffect
    <2> QED BY <1>3, <2>1
<1> QED BY <1>2, <1>4 DEF Ids

LEMMA GoIdleKeeps ==
    ASSUME IInv, NEW e \in Ids, GoIdle(e)
    PROVE  IInv'
<1>1. /\ stream[e].place = "pending" /\ ~Refreshed(e) /\ ~BeingRecovered(e)
      /\ stream' = [stream EXCEPT ![e].idle = TRUE]
      /\ UNCHANGED <<row, up, active, claimed, wpc, wentry, disturbed, abandoned, unread, faults>>
    BY DEF GoIdle, workVars, history
<1>2. /\ stream' \in Seq(Entries) /\ Len(stream') = Len(stream) /\ Ids' = Ids
      /\ \A f \in Ids : /\ stream'[f].job = stream[f].job
                        /\ stream'[f].place = stream[f].place
                        /\ stream'[f].owner = stream[f].owner
                        /\ f # e => stream'[f] = stream[f]
    BY <1>1, IdleEffect
<1>3. \A k \in Instances, l \in Jobs : Calm(l) => active[k][l] # e
    <2> SUFFICES ASSUME NEW k \in Instances, NEW l \in Jobs, Calm(l), active[k][l] = e
                 PROVE  FALSE
        OBVIOUS
    <2>1. e # 0
        BY Typed DEF IInv
    <2>2. stream[e].owner = k
        BY <2>1 DEF IInv, Held
    <2>3. e \in Own(k)
        BY <2>1 DEF Own
    <2>4. up[k] # "down"
        BY <2>1 DEF IInv, Shape
    <2> QED BY <1>1, <2>2, <2>3, <2>4 DEF Refreshed
<1>4. \A k \in Instances : e \in claimed[k] => ~Calm(Job(e))
    BY <1>1 DEF IInv, Reaped, BeingRecovered
<1>5. Held'
    <2>1. \A k \in Instances, l \in Jobs : active[k][l] # 0 => active[k][l] \in Ids
        BY DEF IInv, TypeOK
    <2> QED BY <1>1, <1>2, <1>3, <2>1 DEF IInv, Held, Calm
<1>6. Reaped'
    <2>1. \A k \in Instances : claimed[k] \subseteq Ids
        BY DEF IInv, TypeOK
    <2> QED BY <1>1, <1>2, <1>4, <2>1 DEF IInv, Reaped, Calm, Job
<1>7. \A f \in Ids : /\ stream'[f].idle => stream'[f].place = "pending"
                     /\ stream'[f].owner # NoOne <=> stream'[f].place = "pending"
    BY <1>1, <1>2 DEF IInv, Shape, TypeOK
<1>8. /\ claimed' \in [Instances -> SUBSET Ids] /\ disturbed' \subseteq Jobs /\ faults' \in 0..MaxFaults
      /\ \A k \in Instances : up[k] = "down" => claimed'[k] = {}
    BY <1>1 DEF IInv, TypeOK, Shape
<1> QED BY <1>1, <1>2, <1>5, <1>6, <1>7, <1>8, HandsKeep

LEMMA StallKeeps ==
    ASSUME IInv, NEW e \in Ids, Stall(e)
    PROVE  IInv'
<1>1. /\ stream[e].place = "pending" /\ Fault
      /\ stream' = [stream EXCEPT ![e].idle = TRUE]
      /\ disturbed' = disturbed \cup {Job(e)}
      /\ UNCHANGED <<row, up, active, claimed, wpc, wentry, abandoned, unread>>
    BY DEF Stall, workVars
<1>2. /\ stream' \in Seq(Entries) /\ Len(stream') = Len(stream) /\ Ids' = Ids
      /\ \A f \in Ids : /\ stream'[f].job = stream[f].job
                        /\ stream'[f].place = stream[f].place
                        /\ stream'[f].owner = stream[f].owner
                        /\ f # e => stream'[f] = stream[f]
    BY <1>1, IdleEffect
<1>3. \A f \in Ids : Job(f)' = Job(f)
    BY <1>2 DEF Job
<1>4. \A k \in Instances, l \in Jobs : active[k][l] # 0 =>
          /\ active[k][l] \in Ids
          /\ active[k][l] = e => l = Job(e)
    BY DEF IInv, TypeOK, Shape
<1>5. Held'
    BY <1>1, <1>2, <1>4 DEF IInv, Held, Calm
<1>6. Reaped'
    <2>1. \A k \in Instances : claimed[k] \subseteq Ids
        BY DEF IInv, TypeOK
    <2> QED BY <1>1, <1>2, <1>3, <2>1 DEF IInv, Reaped, Calm
<1>7. \A f \in Ids : /\ stream'[f].idle => stream'[f].place = "pending"
                     /\ stream'[f].owner # NoOne <=> stream'[f].place = "pending"
    BY <1>1, <1>2 DEF IInv, Shape, TypeOK
<1>8. faults' \in 0..MaxFaults
    BY <1>1, FaultCounted DEF IInv
<1>9. /\ claimed' \in [Instances -> SUBSET Ids] /\ disturbed' \subseteq Jobs
      /\ \A k \in Instances : up[k] = "down" => claimed'[k] = {}
    BY <1>1, Typed DEF IInv, TypeOK, Shape
<1> QED BY <1>1, <1>2, <1>5, <1>6, <1>7, <1>8, <1>9, HandsKeep

LEMMA DequeueLostKeeps ==
    ASSUME IInv, NEW w \in Workers, DequeueLost(w)
    PROVE  IInv'
<1> DEFINE i == Home[w]
<1>1. PICK e \in Ids : /\ stream[e].place = "new" /\ Fault
                       /\ stream' = Deliver(stream, e, i)
                       /\ UNCHANGED <<row, up, active, claimed, wpc, wentry, disturbed, abandoned, unread>>
    BY DEF DequeueLost, workVars
<1>2. i \in Instances /\ e # 0 /\ stream \in Seq(Entries) /\ e \in DOMAIN stream
    BY Typed DEF IInv, Ids
<1> HIDE DEF i
<1>3. /\ stream' \in Seq(Entries) /\ Len(stream') = Len(stream)
      /\ DOMAIN stream' = DOMAIN stream
      /\ stream'[e].job = stream[e].job /\ stream'[e].place = "pending"
      /\ stream'[e].owner = i /\ stream'[e].idle = stream[e].idle
      /\ \A f \in DOMAIN stream : f # e => stream'[f] = stream[f]
    BY <1>1, <1>2, DeliverEffect
<1>4. Ids' = Ids /\ \A f \in Ids : stream'[f].job = stream[f].job
    BY <1>3 DEF Ids
<1>5. \A k \in Instances, l \in Jobs : active[k][l] # 0 => active[k][l] \in Ids
    BY DEF IInv, TypeOK
<1>6. Held'
    BY <1>1, <1>3, <1>5 DEF IInv, Held, Calm, Ids
<1>7. Reaped'
    <2>1. \A k \in Instances : claimed[k] \subseteq Ids
        BY DEF IInv, TypeOK
    <2> QED BY <1>1, <1>3, <1>4, <2>1 DEF IInv, Reaped, Calm, Job, Ids
<1>8. ASSUME NEW f \in Ids
      PROVE  /\ stream'[f].place = "gone" <=> stream[f].place = "gone"
             /\ stream'[f].idle => stream'[f].place = "pending"
             /\ stream'[f].owner # NoOne <=> stream'[f].place = "pending"
    <2>1. CASE f = e
        BY <1>1, <1>2, <1>3, <2>1, RedisAssumption DEF IInv, Shape
    <2>2. CASE f # e
        BY <1>3, <2>2 DEF IInv, Shape, TypeOK, Ids
    <2> QED BY <2>1, <2>2
<1>9. faults' \in 0..MaxFaults
    BY <1>1, FaultCounted DEF IInv
<1>10. /\ claimed' \in [Instances -> SUBSET Ids] /\ disturbed' \subseteq Jobs
       /\ \A k \in Instances : up[k] = "down" => claimed'[k] = {}
    BY <1>1 DEF IInv, TypeOK, Shape
<1> QED BY <1>1, <1>3, <1>4, <1>6, <1>7, <1>8, <1>9, <1>10, HandsKeep

\* What Claim does to the entries in es, put for the stream.
LEMMA ClaimHands ==
    ASSUME IInv, NEW i \in Instances, NEW es, stream' = Claim(stream, es, i)
    PROVE  /\ stream' \in Seq(Entries) /\ Len(stream') = Len(stream) /\ Ids' = Ids
           /\ \A f \in Ids : /\ stream'[f].job = stream[f].job
                             /\ stream'[f].place = stream[f].place
                             /\ f \in es /\ stream[f].place = "pending" =>
                                   stream'[f].owner = i /\ ~stream'[f].idle
                             /\ ~(f \in es /\ stream[f].place = "pending") =>
                                   stream'[f] = stream[f]
                             /\ stream'[f].place = "gone" <=> stream[f].place = "gone"
                             /\ stream'[f].idle => stream'[f].place = "pending"
                             /\ stream'[f].owner # NoOne <=> stream'[f].place = "pending"
<1>1. stream \in Seq(Entries) /\ Ids = DOMAIN stream
    BY Typed DEF IInv, Ids
<1>2. /\ Claim(stream, es, i) \in Seq(Entries)
      /\ Len(Claim(stream, es, i)) = Len(stream)
      /\ DOMAIN Claim(stream, es, i) = DOMAIN stream
      /\ \A f \in DOMAIN stream :
            /\ Claim(stream, es, i)[f].job = stream[f].job
            /\ Claim(stream, es, i)[f].place = stream[f].place
            /\ f \in es /\ stream[f].place = "pending" =>
                  Claim(stream, es, i)[f].owner = i /\ ~Claim(stream, es, i)[f].idle
            /\ ~(f \in es /\ stream[f].place = "pending") =>
                  Claim(stream, es, i)[f] = stream[f]
    BY <1>1, ClaimEffect
<1>3. /\ stream' \in Seq(Entries) /\ Len(stream') = Len(stream) /\ Ids' = Ids
      /\ \A f \in Ids : /\ stream'[f].job = stream[f].job
                        /\ stream'[f].place = stream[f].place
                        /\ f \in es /\ stream[f].place = "pending" =>
                              stream'[f].owner = i /\ ~stream'[f].idle
                        /\ ~(f \in es /\ stream[f].place = "pending") =>
                              stream'[f] = stream[f]
    BY <1>1, <1>2 DEF Ids
<1>4. ASSUME NEW f \in Ids
      PROVE  /\ stream'[f].idle => stream'[f].place = "pending"
             /\ stream'[f].owner # NoOne <=> stream'[f].place = "pending"
    <2>1. CASE f \in es /\ stream[f].place = "pending"
        BY <1>3, <2>1, RedisAssumption
    <2>2. CASE ~(f \in es /\ stream[f].place = "pending")
        BY <1>3, <2>2 DEF IInv, Shape, TypeOK
    <2> QED BY <2>1, <2>2
<1> QED BY <1>3, <1>4

LEMMA KeepaliveKeeps ==
    ASSUME IInv, NEW i \in Instances, Keepalive(i)
    PROVE  IInv'
<1>1. /\ stream' = Claim(stream, Own(i), i)
      /\ UNCHANGED <<row, up, active, claimed, wpc, wentry, disturbed, abandoned, unread, faults>>
    BY DEF Keepalive, workVars, history
<1>2. /\ stream' \in Seq(Entries) /\ Len(stream') = Len(stream) /\ Ids' = Ids
      /\ \A f \in Ids : /\ stream'[f].job = stream[f].job
                        /\ stream'[f].place = stream[f].place
                        /\ f \in Own(i) /\ stream[f].place = "pending" =>
                              stream'[f].owner = i /\ ~stream'[f].idle
                        /\ ~(f \in Own(i) /\ stream[f].place = "pending") =>
                              stream'[f] = stream[f]
                        /\ stream'[f].place = "gone" <=> stream[f].place = "gone"
                        /\ stream'[f].idle => stream'[f].place = "pending"
                        /\ stream'[f].owner # NoOne <=> stream'[f].place = "pending"
    BY <1>1, ClaimHands
<1>3. Held'
    <2> SUFFICES ASSUME NEW k \in Instances, NEW l \in Jobs, Calm(l), active[k][l] # 0
                 PROVE  /\ stream'[active[k][l]].place = "pending"
                        /\ stream'[active[k][l]].owner = k
                        /\ ~stream'[active[k][l]].idle
        BY <1>1 DEF Held, Calm
    <2>1. /\ active[k][l] \in Ids /\ Job(active[k][l]) = l
          /\ stream[active[k][l]].place = "pending" /\ stream[active[k][l]].owner = k
          /\ ~stream[active[k][l]].idle
        BY DEF IInv, TypeOK, Shape, Held
    <2>2. CASE active[k][l] \in Own(i)
        <3>1. PICK m \in Jobs : active[i][m] = active[k][l]
            BY <2>2 DEF Own
        <3>2. m = l
            BY <2>1, <3>1 DEF IInv, Shape
        <3>3. k = i
            BY <2>1, <3>1, <3>2 DEF IInv, Held
        <3> QED BY <1>2, <2>1, <2>2, <3>3
    <2>3. CASE active[k][l] \notin Own(i)
        BY <1>2, <2>1, <2>3
    <2> QED BY <2>2, <2>3
<1>4. Reaped'
    <2> SUFFICES ASSUME NEW k \in Instances, NEW f \in claimed[k], Calm(Job(f))'
                 PROVE  /\ stream'[f].place = "pending" /\ stream'[f].owner = k
                        /\ ~stream'[f].idle
                        /\ \A h \in Instances, j \in Jobs : active[h][j] # f
        BY <1>1 DEF Reaped
    <2>1. f \in Ids /\ Job(f)' = Job(f)
        BY <1>2 DEF IInv, TypeOK, Job
    <2>2. /\ stream[f].place = "pending" /\ stream[f].owner = k /\ ~stream[f].idle
          /\ \A h \in Instances, j \in Jobs : active[h][j] # f
        BY <1>1, <2>1 DEF IInv, Reaped, Calm
    <2>3. f \notin Own(i)
        BY <2>2 DEF Own
    <2> QED BY <1>2, <2>1, <2>2, <2>3
<1>5. /\ claimed' \in [Instances -> SUBSET Ids] /\ disturbed' \subseteq Jobs /\ faults' \in 0..MaxFaults
      /\ \A k \in Instances : up[k] = "down" => claimed'[k] = {}
    BY <1>1 DEF IInv, TypeOK, Shape
<1> QED BY <1>1, <1>2, <1>3, <1>4, <1>5, HandsKeep

LEMMA AutoClaimKeeps ==
    ASSUME IInv, NEW i \in Instances, AutoClaim(i)
    PROVE  IInv'
<1> DEFINE idle == {e \in Ids : stream[e].idle}
<1>1. /\ stream' = Claim(stream, idle, i)
      /\ up[i] = "up" /\ claimed' = [claimed EXCEPT ![i] = idle \ Own(i)]
      /\ UNCHANGED <<row, up, active, wpc, wentry, disturbed, abandoned, unread, faults>>
    BY DEF AutoClaim, workVars, history
<1>2. idle \subseteq Ids /\ \A e \in Ids : e \in idle <=> stream[e].idle
    OBVIOUS
<1>3. \A e \in idle : stream[e].place = "pending"
    BY DEF IInv, Shape
<1> HIDE DEF idle
<1>4. /\ stream' \in Seq(Entries) /\ Len(stream') = Len(stream) /\ Ids' = Ids
      /\ \A f \in Ids : /\ stream'[f].job = stream[f].job
                        /\ stream'[f].place = stream[f].place
                        /\ f \in idle /\ stream[f].place = "pending" =>
                              stream'[f].owner = i /\ ~stream'[f].idle
                        /\ ~(f \in idle /\ stream[f].place = "pending") =>
                              stream'[f] = stream[f]
                        /\ stream'[f].place = "gone" <=> stream[f].place = "gone"
                        /\ stream'[f].idle => stream'[f].place = "pending"
                        /\ stream'[f].owner # NoOne <=> stream'[f].place = "pending"
    BY <1>1, ClaimHands
<1>5. \A k \in Instances, l \in Jobs :
          active[k][l] # 0 => /\ active[k][l] \in Ids
                              /\ Calm(l) => active[k][l] \notin idle
                              /\ Job(active[k][l]) = l
    BY <1>2 DEF IInv, TypeOK, Held, Shape
<1>6. Held'
    BY <1>1, <1>4, <1>5 DEF IInv, Held, Calm
<1>7. \A k \in Instances : claimed'[k] = IF k = i THEN idle \ Own(i) ELSE claimed[k]
    BY <1>1 DEF IInv, TypeOK
<1>8. claimed' \in [Instances -> SUBSET Ids]
    BY <1>1, <1>2 DEF IInv, TypeOK
<1>9. Reaped'
    <2> SUFFICES ASSUME NEW k \in Instances, NEW f \in claimed'[k], Calm(Job(f))'
                 PROVE  /\ stream'[f].place = "pending" /\ stream'[f].owner = k
                        /\ ~stream'[f].idle
                        /\ \A h \in Instances, j \in Jobs : active[h][j] # f
        BY <1>1 DEF Reaped
    <2>1. f \in Ids /\ Job(f)' = Job(f) /\ Calm(Job(f)) /\ f # 0
        BY <1>1, <1>4, <1>8, Typed DEF IInv, Job, Calm
    <2>2. CASE f \in idle /\ k = i
        BY <1>3, <1>4, <1>5, <2>1, <2>2
    <2>3. CASE ~(f \in idle /\ k = i)
        <3>1. f \in claimed[k]
            BY <1>7, <2>3
        <3>2. /\ stream[f].place = "pending" /\ stream[f].owner = k /\ ~stream[f].idle
              /\ \A h \in Instances, j \in Jobs : active[h][j] # f
            BY <2>1, <3>1 DEF IInv, Reaped
        <3>3. f \notin idle
            BY <1>2, <3>2
        <3> QED BY <1>4, <2>1, <3>2, <3>3
    <2> QED BY <2>2, <2>3
<1>10. /\ disturbed' \subseteq Jobs /\ faults' \in 0..MaxFaults
       /\ \A k \in Instances : up[k] = "down" => claimed'[k] = {}
    BY <1>1, <1>7 DEF IInv, TypeOK, Shape
<1> QED BY <1>1, <1>4, <1>6, <1>8, <1>9, <1>10, HandsKeep

-----------------------------------------------------------------------------
\* Steps that leave the stream alone and only let go of jobs.
LEMMA LettingGoKeeps ==
    ASSUME IInv, TypeOK', Shape', UNCHANGED <<stream, row, disturbed, abandoned, unread>>,
           \A k \in Instances : claimed'[k] \subseteq claimed[k],
           \A k \in Instances, l \in Jobs : active'[k][l] \in {0, active[k][l]},
           \A v \in Workers :
               \/ wpc'[v] = "idle"
               \/ /\ wpc'[v] = wpc[v] /\ wentry'[v] = wentry[v]
                  /\ \A l \in Jobs : active'[Home[v]][l] = active[Home[v]][l]
                  /\ up[Home[v]] = "closing" => up'[Home[v]] = "closing"
    PROVE  IInv'
<1>1. Ids' = Ids /\ \A f : Job(f)' = Job(f) /\ (Present(f)' <=> Present(f))
    BY DEF Ids, Job, Present
<1>2. OneEntry' /\ NoJobLost'
    BY <1>1 DEF IInv, OneEntry, NoJobLost, Kept, Calm
<1>3. Held'
    BY <1>1 DEF IInv, Held, Calm
<1>4. Reaped'
    <2>1. \A k \in Instances, l \in Jobs, f \in Ids : active[k][l] # f => active'[k][l] # f
        BY Typed DEF IInv
    <2>2. \A k \in Instances : claimed[k] \subseteq Ids
        BY DEF IInv, TypeOK
    <2> QED BY <1>1, <2>1, <2>2 DEF IInv, Reaped, Calm
<1>5. Worked'
    <2>1. ASSUME NEW v \in Workers, wpc'[v] # "idle"
          PROVE  /\ wpc[v] # "idle" /\ wpc'[v] = wpc[v] /\ wentry'[v] = wentry[v]
                 /\ Job(wentry[v]) \in Jobs
                 /\ \A l \in Jobs : active'[Home[v]][l] = active[Home[v]][l]
        BY <2>1, Typed DEF IInv
    <2> QED BY <1>1, <2>1 DEF IInv, Worked, Calm
<1>6. Recorded'
    BY <1>1 DEF IInv, Recorded, Calm
<1> QED BY <1>2, <1>3, <1>4, <1>5, <1>6 DEF IInv

LEMMA RecoverFailsKeeps ==
    ASSUME IInv, NEW i \in Instances, RecoverFails(i)
    PROVE  IInv'
<1>1. PICK e \in claimed[i] :
          /\ up[i] = "up" /\ Fault
          /\ claimed' = [claimed EXCEPT ![i] = @ \ {e}]
          /\ UNCHANGED <<stream, row, up, active, wpc, wentry, disturbed, abandoned, unread>>
    BY DEF RecoverFails, workVars
<1>2. Ids' = Ids /\ \A f : Job(f)' = Job(f)
    BY <1>1 DEF Ids, Job
<1>3. faults' \in 0..MaxFaults
    BY <1>1, FaultCounted DEF IInv
<1>4. TypeOK'
    BY <1>1, <1>2, <1>3 DEF IInv, TypeOK
<1>5. \A k \in Instances : claimed'[k] \subseteq claimed[k]
    BY <1>1 DEF IInv, TypeOK
<1>6. Shape'
    BY <1>1, <1>2, <1>5 DEF IInv, Shape
<1> QED BY <1>1, <1>4, <1>5, <1>6, LettingGoKeeps

LEMMA CloseKeeps ==
    ASSUME IInv, NEW i \in Instances, Close(i)
    PROVE  IInv'
<1>1. /\ Fault
      /\ up' = [up EXCEPT ![i] = "closing"]
      /\ claimed' = [claimed EXCEPT ![i] = {}]
      /\ UNCHANGED <<stream, row, active, wpc, wentry, disturbed, abandoned, unread>>
    BY DEF Close, workVars
<1>2. Ids' = Ids /\ \A f : Job(f)' = Job(f)
    BY <1>1 DEF Ids, Job
<1>3. faults' \in 0..MaxFaults
    BY <1>1, FaultCounted DEF IInv
<1>4. TypeOK'
    BY <1>1, <1>2, <1>3 DEF IInv, TypeOK
<1>5. \A k \in Instances : claimed'[k] \subseteq claimed[k]
    BY <1>1 DEF IInv, TypeOK
<1>6. Shape'
    <2>1. \A k \in Instances : up'[k] = "down" => up[k] = "down"
        BY <1>1 DEF IInv, TypeOK
    <2> QED BY <1>1, <1>2, <1>5, <2>1 DEF IInv, Shape
<1>7. \A v \in Workers : up[Home[v]] = "closing" => up'[Home[v]] = "closing"
    BY <1>1, RedisAssumption DEF IInv, TypeOK
<1> QED BY <1>1, <1>4, <1>5, <1>6, <1>7, LettingGoKeeps

LEMMA DieKeeps ==
    ASSUME IInv, NEW i \in Instances, Die(i)
    PROVE  IInv'
<1>1. /\ faults' = faults \/ Fault
      /\ up' = [up EXCEPT ![i] = "down"]
      /\ active' = [active EXCEPT ![i] = [j \in Jobs |-> 0]]
      /\ claimed' = [claimed EXCEPT ![i] = {}]
      /\ wpc' = [w \in Workers |-> IF Home[w] = i THEN "idle" ELSE wpc[w]]
      /\ wentry' = [w \in Workers |-> IF Home[w] = i THEN 0 ELSE wentry[w]]
      /\ UNCHANGED <<stream, row, disturbed, abandoned, unread>>
    BY DEF Die
<1>2. Ids' = Ids /\ \A f : Job(f)' = Job(f)
    BY <1>1 DEF Ids, Job
<1>3. faults' \in 0..MaxFaults
    BY <1>1, FaultCounted DEF IInv
<1>4. \A k \in Instances : /\ claimed'[k] = IF k = i THEN {} ELSE claimed[k]
                           /\ \A l \in Jobs : active'[k][l] = IF k = i THEN 0 ELSE active[k][l]
    BY <1>1 DEF IInv, TypeOK
<1>5. TypeOK'
    <2>1. /\ up' \in [Instances -> {"up", "closing", "down"}]
          /\ active' \in [Instances -> [Jobs -> {0} \cup Ids]]
          /\ claimed' \in [Instances -> SUBSET Ids]
        BY <1>1 DEF IInv, TypeOK
    <2>2. /\ wpc' \in [Workers -> {"idle", "taken", "passed", "running", "ran"}]
          /\ wentry' \in [Workers -> {0} \cup Ids]
          /\ \A w \in Workers : wpc'[w] = "idle" <=> wentry'[w] = 0
        BY <1>1 DEF IInv, TypeOK
    <2> QED BY <1>1, <1>2, <1>3, <2>1, <2>2 DEF IInv, TypeOK
<1>6. Shape'
    <2>1. \A k \in Instances : up'[k] = "down" => k = i \/ up[k] = "down"
        BY <1>1 DEF IInv, TypeOK
    <2> QED BY <1>1, <1>2, <1>4, <2>1 DEF IInv, Shape
<1>7. \A v \in Workers :
          \/ wpc'[v] = "idle"
          \/ /\ wpc'[v] = wpc[v] /\ wentry'[v] = wentry[v]
             /\ \A l \in Jobs : active'[Home[v]][l] = active[Home[v]][l]
             /\ up[Home[v]] = "closing" => up'[Home[v]] = "closing"
    <2> SUFFICES ASSUME NEW v \in Workers, Home[v] # i
                 PROVE  /\ wpc'[v] = wpc[v] /\ wentry'[v] = wentry[v]
                        /\ \A l \in Jobs : active'[Home[v]][l] = active[Home[v]][l]
                        /\ up[Home[v]] = "closing" => up'[Home[v]] = "closing"
        BY <1>1
    <2>1. Home[v] \in Instances
        BY RedisAssumption
    <2>2. up'[Home[v]] = up[Home[v]]
        BY <1>1, <2>1 DEF IInv, TypeOK
    <2> QED BY <1>1, <1>4, <2>1, <2>2
<1> QED BY <1>1, <1>4, <1>5, <1>6, <1>7, LettingGoKeeps

LEMMA RestartKeeps ==
    ASSUME IInv, NEW i \in Instances, Restart(i)
    PROVE  IInv'
<1>1. /\ up' = [up EXCEPT ![i] = "up"]
      /\ row' = [j \in Jobs |-> IF row[j] = "running" THEN "orphaned" ELSE row[j]]
      /\ UNCHANGED <<stream, active, claimed, wpc, wentry, disturbed, abandoned, unread, faults>>
    BY DEF Restart, queueVars, workVars, history
<1>2. Ids' = Ids /\ \A f : Job(f)' = Job(f) /\ (Present(f)' <=> Present(f))
    BY <1>1 DEF Ids, Job, Present
<1>3. \A f \in Ids : Job(f) \in Jobs
    BY Typed DEF IInv
<1>4. TypeOK'
    BY <1>1, <1>2 DEF IInv, TypeOK, Terminal
<1>5. Shape'
    <2>1. \A k \in Instances : up'[k] = "down" => up[k] = "down"
        BY <1>1 DEF IInv, TypeOK
    <2> QED BY <1>1, <1>2, <1>3, <2>1 DEF IInv, Shape
<1>6. OneEntry' /\ Held' /\ Reaped' /\ Worked'
    BY <1>1, <1>2 DEF IInv, OneEntry, Held, Reaped, Worked, Calm
<1>7. NoJobLost'
    BY <1>1, <1>2 DEF IInv, NoJobLost, Kept
<1>8. Recorded'
    <2>1. \A v \in Workers : wpc[v] # "idle" => Job(wentry[v]) \in Jobs
        BY Typed DEF IInv
    <2>2. \A j \in Jobs : /\ row'[j] # "running"
                          /\ row[j] # "settled" => row'[j] # "settled"
        BY <1>1
    <2> QED BY <1>1, <1>2, <2>1, <2>2 DEF IInv, Recorded, Calm
<1> QED BY <1>4, <1>5, <1>6, <1>7, <1>8 DEF IInv

-----------------------------------------------------------------------------
\* Steps that add a job.

LEMMA AppendHands ==
    ASSUME IInv, NEW j \in Jobs, CanAdd, stream' = Append(stream, Entry(j)),
           NEW n, n = Len(stream) + 1
    PROVE  /\ stream' \in Seq(Entries) /\ Len(stream') = n /\ n <= MaxEntries
           /\ Ids' = Ids \cup {n} /\ n \notin Ids /\ n # 0
           /\ stream'[n].job = j /\ stream'[n].place = "new"
           /\ stream'[n].owner = NoOne /\ stream'[n].idle = FALSE
           /\ \A f \in Ids : stream'[f] = stream[f]
<1>1. stream \in Seq(Entries) /\ Ids = DOMAIN stream /\ Len(stream) \in Nat
    BY Typed DEF IInv, Ids
<1>2. /\ Append(stream, Entry(j)) \in Seq(Entries)
      /\ Len(Append(stream, Entry(j))) = Len(stream) + 1
      /\ DOMAIN Append(stream, Entry(j)) = DOMAIN stream \cup {Len(stream) + 1}
      /\ Append(stream, Entry(j))[Len(stream) + 1] = Entry(j)
      /\ Len(stream) + 1 \notin DOMAIN stream
      /\ \A f \in DOMAIN stream : Append(stream, Entry(j))[f] = stream[f]
    BY <1>1, AppendEffect
<1>3. n <= MaxEntries /\ n # 0
    BY <1>1, RedisAssumption DEF CanAdd
<1>4. stream'[n] = Entry(j)
    BY <1>2
<1> QED BY <1>1, <1>2, <1>3, <1>4 DEF Ids, Entry

\* What was typed for the entries there were is typed for those there are.
LEMMA WiderIds ==
    ASSUME TypeOK, NEW n, Ids' = Ids \cup {n}
    PROVE  /\ active \in [Instances -> [Jobs -> {0} \cup Ids']]
           /\ claimed \in [Instances -> SUBSET Ids']
           /\ wentry \in [Workers -> {0} \cup Ids']
<1>1. Ids \subseteq Ids'
    OBVIOUS
<1>2. \A i \in Instances : active[i] \in [Jobs -> {0} \cup Ids']
    BY <1>1 DEF TypeOK
<1> QED BY <1>1, <1>2 DEF TypeOK

\* Submit, with an entry that is added once.
LEMMA AddKeeps ==
    ASSUME IInv, NEW j \in Jobs, Submit(j), AddOnce(stream, j), UNCHANGED disturbed
    PROVE  IInv'
<1>1. /\ CanAdd /\ stream' = Append(stream, Entry(j))
      /\ row[j] = "absent" /\ row' = [row EXCEPT ![j] = "running"]
      /\ UNCHANGED <<up, active, claimed, wpc, wentry, disturbed, abandoned, unread, faults>>
    BY DEF Submit, AddOnce, workVars
<1>u. UNCHANGED <<up, active, claimed, wpc, wentry, abandoned, unread, faults>>
    BY <1>1
<1>n. PICK n : n = Len(stream) + 1
    OBVIOUS
<1>2. /\ stream' \in Seq(Entries) /\ Len(stream') = n /\ n <= MaxEntries
      /\ Ids' = Ids \cup {n} /\ n \notin Ids /\ n # 0
      /\ stream'[n].job = j /\ stream'[n].place = "new"
      /\ stream'[n].owner = NoOne /\ stream'[n].idle = FALSE
      /\ \A f \in Ids : stream'[f] = stream[f]
    BY <1>1, <1>n, AppendHands
<1>3. /\ \A f \in Ids : Job(f)' = Job(f) /\ (Present(f)' <=> Present(f)) /\ Job(f) \in Jobs
      /\ Job(n)' = j /\ Present(n)'
    BY <1>2, Typed DEF Job, Present, IInv
<1>4. \A k \in Instances, l \in Jobs : active[k][l] \in Ids \cup {0} /\ active[k][l] # n
    BY <1>2 DEF IInv, TypeOK
<1>5. TypeOK'
    <2>1. \A f \in Ids' : stream'[f].owner # NoOne <=> stream'[f].place = "pending"
        BY <1>2 DEF IInv, TypeOK
    <2>2. row' \in [Jobs -> {"absent", "running", "waiting"} \cup Terminal]
        BY <1>1 DEF IInv, TypeOK
    <2>3. disturbed' \subseteq Jobs
        BY <1>1 DEF IInv, TypeOK
    <2>4. /\ active' \in [Instances -> [Jobs -> {0} \cup Ids']]
          /\ claimed' \in [Instances -> SUBSET Ids']
          /\ wentry' \in [Workers -> {0} \cup Ids']
        BY <1>2, <1>u, WiderIds DEF IInv
    <2>5. Len(stream') <= MaxEntries
        BY <1>2
    <2> QED BY <1>2, <1>u, <2>1, <2>2, <2>3, <2>4, <2>5 DEF IInv, TypeOK, Entries
<1>6. \A l \in Jobs : /\ row'[l] # "absent" <=> row[l] # "absent" \/ l = j
                      /\ l # j => row'[l] = row[l]
                      /\ Calm(l)' => Calm(l)
    BY <1>1 DEF IInv, TypeOK, Calm
<1>7. Shape'
    <2>1. \A f \in Ids' : stream'[f].idle => stream'[f].place = "pending"
        BY <1>2 DEF IInv, Shape
    <2>2. \A k \in Instances, l \in Jobs : active[k][l] # 0 => stream'[active[k][l]].job = l
        BY <1>2, <1>4 DEF IInv, Shape, Job
    <2>3. \A f \in Ids' : row'[stream'[f].job] # "absent"
        BY <1>2, <1>3, <1>6 DEF IInv, Shape, Job
    <2> QED BY <1>1, <2>1, <2>2, <2>3 DEF IInv, Shape, Job
<1>8. \A f \in Ids : Calm(j)' => Job(f) # j
    BY <1>1 DEF IInv, Shape, Calm
<1>9. OneEntry'
    BY <1>2, <1>3, <1>6, <1>8 DEF IInv, OneEntry
<1>10. Held'
    <2> SUFFICES ASSUME NEW k \in Instances, NEW l \in Jobs, Calm(l)', active[k][l] # 0
                 PROVE  /\ stream'[active[k][l]].place = "pending"
                        /\ stream'[active[k][l]].owner = k
                        /\ ~stream'[active[k][l]].idle
        BY <1>u DEF Held
    <2> QED BY <1>2, <1>4, <1>6 DEF IInv, Held
<1>11. Reaped'
    <2> SUFFICES ASSUME NEW k \in Instances, NEW f \in claimed[k], Calm(Job(f))'
                 PROVE  /\ stream'[f].place = "pending" /\ stream'[f].owner = k
                        /\ ~stream'[f].idle
                        /\ \A h \in Instances, l \in Jobs : active[h][l] # f
        BY <1>u DEF Reaped
    <2>1. f \in Ids
        BY DEF IInv, TypeOK
    <2> QED BY <1>2, <1>3, <1>6, <2>1 DEF IInv, Reaped, Calm
<1>12. ASSUME NEW v \in Workers, wpc[v] # "idle", Calm(Job(wentry[v]))'
       PROVE  /\ wentry[v] \in Ids /\ Job(wentry[v])' = Job(wentry[v])
              /\ Calm(Job(wentry[v])) /\ Job(wentry[v]) # j
    <2>1. wentry[v] \in Ids
        BY <1>12, Typed DEF IInv
    <2>2. Job(wentry[v])' = Job(wentry[v]) /\ Job(wentry[v]) \in Jobs
        BY <1>u, <1>3, <2>1 DEF Job
    <2>3. Calm(Job(wentry[v]))
        BY <1>1, <1>12, <2>2 DEF Calm
    <2>4. Job(wentry[v]) # j
        BY <1>1, <1>8, <1>12, <2>1, <2>2 DEF Calm
    <2> QED BY <2>1, <2>2, <2>3, <2>4
<1>13. Worked'
    BY <1>1, <1>12 DEF IInv, Worked
<1>14. Recorded'
    <2> SUFFICES ASSUME NEW v \in Workers, wpc[v] # "idle", Calm(Job(wentry[v]))'
                 PROVE  /\ wpc[v] = "ran" /\ row'[Job(wentry[v])'] = "running" =>
                              Job(wentry[v])' \in abandoned' \/ up'[Home[v]] = "closing"
                        /\ wpc[v] \in {"passed", "running"} /\ row'[Job(wentry[v])'] = "settled" =>
                              Job(wentry[v])' \in unread'
        BY <1>1 DEF Recorded
    <2> QED BY <1>1, <1>3, <1>6, <1>12 DEF IInv, Recorded
<1>15. NoJobLost'
    <2> SUFFICES ASSUME NEW l \in Jobs, Calm(l)', l \notin abandoned, row'[l] = "running"
                 PROVE  \E f \in Ids' : Present(f)' /\ Job(f)' = l
        BY <1>u DEF NoJobLost, Kept, Calm
    <2>1. CASE l = j
        BY <1>2, <1>3, <2>1
    <2>2. CASE l # j
        BY <1>2, <1>3, <1>6, <2>2 DEF IInv, NoJobLost, Kept, Calm
    <2> QED BY <2>1, <2>2
<1> QED BY <1>5, <1>7, <1>9, <1>10, <1>11, <1>13, <1>14, <1>15 DEF IInv

\* Entries are added for a job that is promised nothing from then on, and none of
\* another's is touched: entries added twice, Resume, and what is recovered then.
LEMMA ExemptKeeps ==
    ASSUME IInv, NEW j \in Jobs, NEW new,
           stream' \in Seq(Entries), Len(stream') <= MaxEntries, Ids' = Ids \cup new,
           \A f \in new : stream'[f].job = j /\ stream'[f].place = "new"
                          /\ stream'[f].owner = NoOne /\ ~stream'[f].idle,
           \A f \in Ids : /\ stream'[f].job = stream[f].job
                          /\ Job(f) # j => stream'[f] = stream[f]
                          /\ stream'[f].idle => stream'[f].place = "pending"
                          /\ stream'[f].owner # NoOne <=> stream'[f].place = "pending",
           disturbed' = disturbed \cup {j},
           row' \in [Jobs -> {"absent", "running", "waiting"} \cup Terminal],
           row'[j] # "absent", \A l \in Jobs \ {j} : row'[l] = row[l],
           claimed' \in [Instances -> SUBSET Ids], \A i \in Instances : claimed'[i] \subseteq claimed[i],
           faults' \in 0..MaxFaults, new \cap Ids = {},
           UNCHANGED <<up, active, wpc, wentry, abandoned, unread>>
    PROVE  IInv'
<1>1. /\ \A f \in Ids : Job(f)' = Job(f) /\ Job(f) \in Jobs
      /\ \A f \in new : Job(f)' = j
      /\ \A f \in Ids : Job(f) # j => (Present(f)' <=> Present(f))
    BY Typed DEF Job, Present, IInv
<1>2. \A l : Calm(l)' <=> Calm(l) /\ l # j
    BY DEF Calm
<1>3. TypeOK'
    <2>1. \A f \in Ids' : stream'[f].owner # NoOne <=> stream'[f].place = "pending"
        OBVIOUS
    <2>2. claimed' \in [Instances -> SUBSET Ids']
        OBVIOUS
    <2>3. /\ active' \in [Instances -> [Jobs -> {0} \cup Ids']]
          /\ wentry' \in [Workers -> {0} \cup Ids']
        <3>1. Ids \subseteq Ids'
            OBVIOUS
        <3>2. \A i \in Instances : active[i] \in [Jobs -> {0} \cup Ids']
            BY <3>1 DEF IInv, TypeOK
        <3> QED BY <3>1, <3>2 DEF IInv, TypeOK
    <2>4. disturbed' \subseteq Jobs
        BY DEF IInv, TypeOK
    <2> QED BY <2>1, <2>2, <2>3, <2>4 DEF IInv, TypeOK, Entries
<1>4. \A k \in Instances, l \in Jobs : active[k][l] # 0 =>
          active[k][l] \in Ids /\ Job(active[k][l]) = l
    BY DEF IInv, TypeOK, Shape
<1>5. Shape'
    <2>1. \A f \in Ids' : stream'[f].idle => stream'[f].place = "pending"
        OBVIOUS
    <2>2. \A k \in Instances, l \in Jobs : active[k][l] # 0 => stream'[active[k][l]].job = l
        BY <1>4 DEF Job
    <2>3. \A f \in Ids' : row'[stream'[f].job] # "absent"
        BY <1>1 DEF IInv, Shape, Job
    <2> QED BY <2>1, <2>2, <2>3 DEF IInv, Shape, Job
<1>6. OneEntry'
    BY <1>1, <1>2 DEF IInv, OneEntry
<1>7. Held'
    <2> SUFFICES ASSUME NEW k \in Instances, NEW l \in Jobs, Calm(l)', active[k][l] # 0
                 PROVE  /\ stream'[active[k][l]].place = "pending"
                        /\ stream'[active[k][l]].owner = k
                        /\ ~stream'[active[k][l]].idle
        BY DEF Held
    <2>1. Calm(l) /\ stream'[active[k][l]] = stream[active[k][l]]
        BY <1>2, <1>4
    <2> QED BY <2>1 DEF IInv, Held
<1>8. Reaped'
    <2> SUFFICES ASSUME NEW k \in Instances, NEW f \in claimed'[k], Calm(Job(f))'
                 PROVE  /\ stream'[f].place = "pending" /\ stream'[f].owner = k
                        /\ ~stream'[f].idle
                        /\ \A h \in Instances, l \in Jobs : active[h][l] # f
        BY DEF Reaped
    <2>1. f \in claimed[k] /\ f \in Ids
        OBVIOUS
    <2>2. Calm(Job(f)) /\ stream'[f] = stream[f]
        BY <1>1, <1>2, <2>1 DEF Calm
    <2> QED BY <2>1, <2>2 DEF IInv, Reaped
<1>9. ASSUME NEW v \in Workers, wpc[v] # "idle", Calm(Job(wentry[v]))'
      PROVE  /\ wentry[v] \in Ids /\ Job(wentry[v])' = Job(wentry[v])
             /\ Calm(Job(wentry[v])) /\ Job(wentry[v]) # j /\ Job(wentry[v]) \in Jobs
    <2>1. wentry[v] \in Ids
        BY <1>9, Typed DEF IInv
    <2>2. Job(wentry[v])' = Job(wentry[v]) /\ Job(wentry[v]) \in Jobs
        BY <1>1, <2>1 DEF Job
    <2> QED BY <1>9, <2>1, <2>2 DEF Calm
<1>10. Worked'
    BY <1>9 DEF IInv, Worked
<1>11. Recorded'
    <2> SUFFICES ASSUME NEW v \in Workers, wpc[v] # "idle", Calm(Job(wentry[v]))'
                 PROVE  /\ wpc[v] = "ran" /\ row'[Job(wentry[v])'] = "running" =>
                              Job(wentry[v])' \in abandoned \/ up[Home[v]] = "closing"
                        /\ wpc[v] \in {"passed", "running"} /\ row'[Job(wentry[v])'] = "settled" =>
                              Job(wentry[v])' \in unread
        BY DEF Recorded
    <2> QED BY <1>9 DEF IInv, Recorded
<1>12. NoJobLost'
    <2> SUFFICES ASSUME NEW l \in Jobs, Calm(l)', l \notin abandoned, row'[l] = "running"
                 PROVE  \E f \in Ids' : Present(f)' /\ Job(f)' = l
        BY DEF NoJobLost, Kept, Calm
    <2>1. Calm(l) /\ l # j /\ row[l] = "running"
        BY <1>2
    <2>2. PICK f \in Ids : Present(f) /\ Job(f) = l
        BY <2>1 DEF IInv, NoJobLost, Kept, Calm
    <2> QED BY <1>1, <2>1, <2>2
<1> QED BY <1>3, <1>5, <1>6, <1>7, <1>8, <1>10, <1>11, <1>12 DEF IInv

\* An entry is added twice, or to a job that is resumed.
LEMMA AddAgainKeeps ==
    ASSUME IInv, NEW j \in Jobs,
           \/ Submit(j) /\ AddTwice(stream, j) /\ disturbed' = disturbed \cup {j}
           \/ Resume(j)
    PROVE  IInv'
<1>1. /\ AddOnce(stream, j) \/ AddTwice(stream, j)
      /\ disturbed' = disturbed \cup {j} /\ CanAdd
      /\ UNCHANGED <<up, active, claimed, wpc, wentry, abandoned, unread>>
      /\ \/ row' = [row EXCEPT ![j] = "running"]
         \/ row[j] # "absent" /\ UNCHANGED row
    BY DEF Submit, Resume, workVars
<1>2. stream \in Seq(Entries) /\ Ids = DOMAIN stream /\ Ids' = DOMAIN stream'
      /\ Len(stream) \in Nat
    BY Typed DEF IInv, Ids
<1>3. faults' \in 0..MaxFaults
    BY <1>1, FaultCounted DEF IInv, AddOnce, AddTwice
<1>4. PICK new : /\ stream' \in Seq(Entries) /\ Len(stream') <= MaxEntries
                 /\ Ids' = Ids \cup new /\ new \cap Ids = {}
                 /\ \A f \in new : stream'[f] = Entry(j)
                 /\ \A f \in Ids : stream'[f] = stream[f]
    <2>1. CASE AddOnce(stream, j)
        <3>1. PICK new : new = {Len(stream) + 1}
            OBVIOUS
        <3>2. /\ stream' \in Seq(Entries) /\ Len(stream') = Len(stream) + 1
              /\ Ids' = Ids \cup new /\ new \cap Ids = {}
              /\ \A f \in new : stream'[f] = Entry(j)
              /\ \A f \in Ids : stream'[f] = stream[f]
            BY <1>2, <2>1, <3>1, AppendEffect DEF AddOnce
        <3>3. Len(stream') <= MaxEntries
            BY <1>1, <1>2, <3>2, RedisAssumption DEF CanAdd
        <3> QED BY <3>2, <3>3
    <2>2. CASE AddTwice(stream, j)
        <3>1. PICK new : new = {Len(stream) + 1, Len(stream) + 2}
            OBVIOUS
        <3>2. /\ stream' \in Seq(Entries) /\ Len(stream') = Len(stream) + 2
              /\ Ids' = Ids \cup new /\ new \cap Ids = {}
              /\ \A f \in new : stream'[f] = Entry(j)
              /\ \A f \in Ids : stream'[f] = stream[f]
            <4>1. stream' = Twice(stream, j)
                BY <2>2 DEF AddTwice, Twice
            <4> QED BY <1>2, <3>1, <4>1, AppendTwiceEffect
        <3>3. Len(stream') <= MaxEntries
            BY <1>2, <2>2, <3>2, RedisAssumption DEF AddTwice
        <3> QED BY <3>2, <3>3
    <2> QED BY <1>1, <2>1, <2>2
<1>5. \A f \in new : stream'[f].job = j /\ stream'[f].place = "new"
                     /\ stream'[f].owner = NoOne /\ ~stream'[f].idle
    BY <1>4 DEF Entry
<1>6. \A f \in Ids : /\ stream'[f].idle => stream'[f].place = "pending"
                     /\ stream'[f].owner # NoOne <=> stream'[f].place = "pending"
    BY <1>4 DEF IInv, TypeOK, Shape
<1>7. /\ row' \in [Jobs -> {"absent", "running", "waiting"} \cup Terminal]
      /\ row'[j] # "absent" /\ \A l \in Jobs \ {j} : row'[l] = row[l]
    BY <1>1 DEF IInv, TypeOK
<1>8. claimed' \in [Instances -> SUBSET Ids] /\ \A i \in Instances : claimed'[i] \subseteq claimed[i]
    BY <1>1 DEF IInv, TypeOK
<1>9. UNCHANGED <<up, active, wpc, wentry, abandoned, unread>> /\ disturbed' = disturbed \cup {j}
    BY <1>1
<1> QED BY <1>3, <1>4, <1>5, <1>6, <1>7, <1>8, <1>9, ExemptKeeps

\* A job that is not added has no entries and no worker.
LEMMA SubmitFailsKeeps ==
    ASSUME IInv, NEW j \in Jobs, SubmitFails(j)
    PROVE  IInv'
<1>1. /\ row[j] = "absent" /\ Fault /\ row' = [row EXCEPT ![j] = "running"]
      /\ abandoned' = abandoned \cup {j}
      /\ UNCHANGED <<stream, active, claimed, up, wpc, wentry, disturbed, unread>>
    BY DEF SubmitFails, queueVars, workVars
<1>2. Ids' = Ids /\ \A e : Job(e)' = Job(e) /\ (Present(e)' <=> Present(e))
    BY <1>1 DEF Ids, Job, Present
<1>3. \A e \in Ids : Job(e) \in Jobs /\ Job(e) # j
    BY <1>1, Typed DEF IInv, Shape
<1>4. faults' \in 0..MaxFaults
    BY <1>1, FaultCounted DEF IInv
<1>5. row'[j] = "running" /\ \A l \in Jobs \ {j} : row'[l] = row[l]
    BY <1>1 DEF IInv, TypeOK
<1>6. TypeOK'
    BY <1>1, <1>2, <1>4 DEF IInv, TypeOK
<1>7. Shape'
    BY <1>1, <1>2, <1>3, <1>5 DEF IInv, Shape
<1>8. OneEntry' /\ Held' /\ Reaped' /\ Worked'
    BY <1>1, <1>2 DEF IInv, OneEntry, Held, Reaped, Worked, Calm
<1>9. Recorded'
    <2>1. \A v \in Workers : wpc[v] # "idle" => wentry[v] \in Ids
        BY Typed DEF IInv
    <2> QED BY <1>1, <1>2, <1>3, <1>5, <2>1 DEF IInv, Recorded, Calm
<1>10. NoJobLost'
    BY <1>1, <1>2, <1>5 DEF IInv, NoJobLost, Kept
<1> QED BY <1>6, <1>7, <1>8, <1>9, <1>10 DEF IInv

\* Recover, with an entry that is added once.
LEMMA RecoverOnceKeeps ==
    ASSUME IInv, NEW i \in Instances, NEW e \in claimed[i], CanAdd,
           AddOnce(Delete(stream, e), Job(e)),
           claimed' = [claimed EXCEPT ![i] = @ \ {e}],
           UNCHANGED <<row, up, active, wpc, wentry, disturbed, abandoned, unread>>
    PROVE  IInv'
<1>1. /\ CanAdd /\ stream' = Append(Delete(stream, e), Entry(Job(e)))
      /\ claimed' = [claimed EXCEPT ![i] = @ \ {e}]
      /\ UNCHANGED <<row, up, active, wpc, wentry, disturbed, abandoned, unread, faults>>
    BY DEF AddOnce
<1>u. UNCHANGED <<row, up, active, wpc, wentry, disturbed, abandoned, unread, faults>>
    BY <1>1
<1>a. e \in Ids /\ Job(e) \in Jobs
    BY Typed DEF IInv, TypeOK
<1>j. PICK j \in Jobs : j = Job(e)
    BY <1>a
<1>n. PICK n : n = Len(stream) + 1
    OBVIOUS
<1> DEFINE s == Delete(stream, e)
<1>2. /\ e \in Ids /\ j \in Jobs /\ stream \in Seq(Entries) /\ Ids = DOMAIN stream
      /\ Len(stream) \in Nat
    BY <1>a, Typed DEF IInv, Ids
<1>3. /\ s \in Seq(Entries) /\ Len(s) = Len(stream) /\ DOMAIN s = Ids
      /\ s[e].job = stream[e].job /\ s[e].place = "gone"
      /\ s[e].owner = NoOne /\ ~s[e].idle
      /\ \A f \in Ids : f # e => s[f] = stream[f]
    BY <1>2, DeleteEffect
<1> HIDE DEF s
<1>4. /\ Append(s, Entry(j)) \in Seq(Entries) /\ Len(Append(s, Entry(j))) = Len(s) + 1
      /\ DOMAIN Append(s, Entry(j)) = DOMAIN s \cup {Len(s) + 1}
      /\ Append(s, Entry(j))[Len(s) + 1] = Entry(j) /\ Len(s) + 1 \notin DOMAIN s
      /\ \A f \in DOMAIN s : Append(s, Entry(j))[f] = s[f]
    BY <1>2, <1>3, AppendEffect
<1>5. stream' = Append(s, Entry(j))
    BY <1>1, <1>j DEF s
<1>6. /\ stream' \in Seq(Entries) /\ Len(stream') = n /\ Ids' = Ids \cup {n}
      /\ n \notin Ids /\ n # 0 /\ stream'[n] = Entry(j)
      /\ \A f \in Ids : stream'[f] = s[f]
    BY <1>2, <1>3, <1>4, <1>5, <1>n DEF Ids
<1>7. /\ n <= MaxEntries
      /\ stream'[n].job = j /\ stream'[n].place = "new"
      /\ stream'[n].owner = NoOne /\ stream'[n].idle = FALSE
    BY <1>1, <1>2, <1>6, <1>n, RedisAssumption DEF CanAdd, Entry
<1>8. /\ stream'[e].job = j /\ stream'[e].place = "gone"
      /\ stream'[e].owner = NoOne /\ ~stream'[e].idle
      /\ \A f \in Ids : f # e => stream'[f] = stream[f]
    BY <1>2, <1>3, <1>6, <1>j DEF Job
<1>9. /\ \A f \in Ids : Job(f)' = Job(f) /\ Job(f) \in Jobs
      /\ \A f \in Ids : f # e => (Present(f)' <=> Present(f))
      /\ Job(n)' = j /\ Present(n)' /\ ~Present(e)' /\ Job(e) = j
    BY <1>2, <1>7, <1>8, <1>j, Typed DEF Job, Present, IInv
<1>10. \A k \in Instances, l \in Jobs :
           /\ active[k][l] \in Ids \cup {0} /\ active[k][l] # n
           /\ Calm(l) => active[k][l] # e
    <2>1. \A k \in Instances, l \in Jobs : active[k][l] = e => l = j
        BY <1>2, <1>9, Typed DEF IInv, Shape
    <2>2. Calm(j) => \A k \in Instances, l \in Jobs : active[k][l] # e
        BY <1>9 DEF IInv, Reaped
    <2> QED BY <1>6, <2>1, <2>2 DEF IInv, TypeOK
<1>11. \A k \in Instances : claimed'[k] = IF k = i THEN claimed[k] \ {e} ELSE claimed[k]
    BY <1>1 DEF IInv, TypeOK
<1>12. TypeOK'
    <2>0. \A f \in Ids : stream[f].owner # NoOne <=> stream[f].place = "pending"
        BY DEF IInv, TypeOK
    <2>1. \A f \in Ids' : stream'[f].owner # NoOne <=> stream'[f].place = "pending"
        <3>1. stream'[n].owner # NoOne <=> stream'[n].place = "pending"
            BY <1>7
        <3>2. stream'[e].owner # NoOne <=> stream'[e].place = "pending"
            BY <1>8
        <3>3. \A f \in Ids : f # e => (stream'[f].owner # NoOne <=> stream'[f].place = "pending")
            BY <2>0, <1>8
        <3> QED BY <3>1, <3>2, <3>3, <1>6
    <2>2. claimed' \in [Instances -> SUBSET Ids']
        BY <1>1, <1>6 DEF IInv, TypeOK
    <2>3. /\ active' \in [Instances -> [Jobs -> {0} \cup Ids']]
          /\ wentry' \in [Workers -> {0} \cup Ids']
        BY <1>6, <1>u, WiderIds DEF IInv
    <2>4. Len(stream') <= MaxEntries
        BY <1>6, <1>7
    <2> QED BY <1>6, <1>u, <2>1, <2>2, <2>3, <2>4 DEF IInv, TypeOK, Entries
<1>13. Shape'
    <2>1. \A f \in Ids' : stream'[f].idle => stream'[f].place = "pending"
        BY <1>6, <1>7, <1>8 DEF IInv, Shape
    <2>2. \A k \in Instances, l \in Jobs : active[k][l] # 0 => stream'[active[k][l]].job = l
        BY <1>9, <1>10 DEF IInv, Shape, Job
    <2>3. \A f \in Ids' : row[stream'[f].job] # "absent"
        BY <1>2, <1>6, <1>7, <1>9 DEF IInv, Shape, Job
    <2>4. \A k \in Instances : up'[k] = "down" =>
              (\A l \in Jobs : active'[k][l] = 0) /\ claimed'[k] = {}
        BY <1>11, <1>u DEF IInv, Shape
    <2>5. \A k \in Instances, l \in Jobs : active'[k][l] # 0 => Job(active[k][l])' = l
        BY <2>2, <1>u DEF Job
    <2>6. \A f \in Ids' : row'[Job(f)'] # "absent"
        BY <2>3, <1>u DEF Job
    <2> QED BY <2>1, <2>4, <2>5, <2>6 DEF Shape
<1>14. OneEntry'
    <2>1. \A f \in Ids : Calm(j) /\ Present(f)' /\ Job(f) = j => FALSE
        <3> SUFFICES ASSUME NEW f \in Ids, Calm(j), Present(f)', Job(f) = j
                     PROVE  FALSE
            OBVIOUS
        <3>1. f # e /\ Present(f)
            BY <1>9
        <3>2. Present(e)
            BY <1>9 DEF IInv, Reaped, Present
        <3> QED BY <1>2, <1>9, <3>1, <3>2 DEF IInv, OneEntry
    <2>2. \A f, g \in Ids : Calm(Job(f)) /\ Present(f)' /\ Present(g)' /\ Job(f) = Job(g) => f = g
        BY <1>9 DEF IInv, OneEntry
    <2> QED BY <1>1, <1>6, <1>9, <2>1, <2>2 DEF OneEntry, Calm
<1>15. Held'
    <2> SUFFICES ASSUME NEW k \in Instances, NEW l \in Jobs, Calm(l), active[k][l] # 0
                 PROVE  /\ stream'[active[k][l]].place = "pending"
                        /\ stream'[active[k][l]].owner = k
                        /\ ~stream'[active[k][l]].idle
        BY <1>u DEF Held, Calm
    <2> QED BY <1>8, <1>10 DEF IInv, Held
<1>16. Reaped'
    <2> SUFFICES ASSUME NEW k \in Instances, NEW f \in claimed'[k], Calm(Job(f))'
                 PROVE  /\ stream'[f].place = "pending" /\ stream'[f].owner = k
                        /\ ~stream'[f].idle
                        /\ \A h \in Instances, l \in Jobs : active[h][l] # f
        BY <1>u DEF Reaped
    <2>1. f \in claimed[k] /\ f \in Ids /\ (k = i => f # e)
        BY <1>11 DEF IInv, TypeOK
    <2>2. Calm(Job(f))
        BY <1>1, <1>9, <2>1 DEF Calm
    <2>3. /\ stream[f].place = "pending" /\ stream[f].owner = k /\ ~stream[f].idle
          /\ \A h \in Instances, l \in Jobs : active[h][l] # f
        BY <2>1, <2>2 DEF IInv, Reaped
    <2>4. f # e
        BY <2>1, <2>2, <2>3 DEF IInv, Reaped
    <2> QED BY <1>8, <2>1, <2>3, <2>4
<1>17. ASSUME NEW v \in Workers, wpc[v] # "idle"
       PROVE  wentry[v] \in Ids /\ Job(wentry[v])' = Job(wentry[v])
    <2>1. wentry[v] \in Ids
        BY <1>17, Typed DEF IInv
    <2> QED BY <1>9, <1>u, <2>1 DEF Job
<1>18. Worked'
    BY <1>1, <1>17 DEF IInv, Worked, Calm
<1>19. Recorded'
    <2> SUFFICES ASSUME NEW v \in Workers, wpc[v] # "idle", Calm(Job(wentry[v]))'
                 PROVE  /\ wpc[v] = "ran" /\ row[Job(wentry[v])'] = "running" =>
                              Job(wentry[v])' \in abandoned' \/ up'[Home[v]] = "closing"
                        /\ wpc[v] \in {"passed", "running"} /\ row[Job(wentry[v])'] = "settled" =>
                              Job(wentry[v])' \in unread'
        BY <1>1 DEF Recorded
    <2> QED BY <1>1, <1>17 DEF IInv, Recorded, Calm
<1>20. NoJobLost'
    <2> SUFFICES ASSUME NEW l \in Jobs, Calm(l), l \notin abandoned, row[l] = "running"
                 PROVE  \E f \in Ids' : Present(f)' /\ Job(f)' = l
        BY <1>1 DEF NoJobLost, Kept, Calm
    <2>1. CASE l = j
        BY <1>6, <1>9, <2>1
    <2>2. CASE l # j
        BY <1>6, <1>9, <2>2 DEF IInv, NoJobLost, Kept, Calm
    <2> QED BY <2>1, <2>2
<1> QED BY <1>12, <1>13, <1>14, <1>15, <1>16, <1>18, <1>19, <1>20 DEF IInv

LEMMA RecoverTwiceKeeps ==
    ASSUME IInv, NEW i \in Instances, NEW e \in claimed[i],
           AddTwice(Delete(stream, e), Job(e)), disturbed' = disturbed \cup {Job(e)},
           claimed' = [claimed EXCEPT ![i] = @ \ {e}],
           UNCHANGED <<row, up, active, wpc, wentry, abandoned, unread>>
    PROVE  IInv'
<1>1. /\ e \in Ids /\ stream \in Seq(Entries) /\ Ids = DOMAIN stream /\ Ids' = DOMAIN stream'
      /\ Len(stream) \in Nat
    BY Typed DEF IInv, TypeOK, Ids
<1>2. PICK j \in Jobs : j = Job(e) /\ j = stream[e].job
    BY <1>1, Typed DEF IInv, Job
<1>3. PICK s : s = Delete(stream, e)
    OBVIOUS
<1>4. /\ s \in Seq(Entries) /\ Len(s) = Len(stream) /\ DOMAIN s = Ids
      /\ s[e].job = j /\ s[e].place = "gone" /\ s[e].owner = NoOne /\ ~s[e].idle
      /\ \A f \in Ids : f # e => s[f] = stream[f]
    BY <1>1, <1>2, <1>3, DeleteEffect
<1>5. /\ Len(s) + 1 < MaxEntries /\ Fault
      /\ stream' = Append(Append(s, Entry(j)), Entry(j))
    BY <1>2, <1>3 DEF AddTwice
<1>6. PICK new : new = {Len(s) + 1, Len(s) + 2}
    OBVIOUS
<1>7. /\ stream' \in Seq(Entries) /\ Len(stream') = Len(s) + 2
      /\ Ids' = Ids \cup new /\ new \cap Ids = {}
      /\ \A f \in new : stream'[f] = Entry(j)
      /\ \A f \in Ids : stream'[f] = s[f]
    <2>1. stream' = Twice(s, j)
        BY <1>5 DEF Twice
    <2>2. /\ Twice(s, j) \in Seq(Entries) /\ Len(Twice(s, j)) = Len(s) + 2
          /\ DOMAIN Twice(s, j) = DOMAIN s \cup new /\ new \cap DOMAIN s = {}
          /\ \A f \in new : Twice(s, j)[f] = Entry(j)
          /\ \A f \in DOMAIN s : Twice(s, j)[f] = s[f]
        BY <1>4, <1>6, AppendTwiceEffect
    <2> QED BY <1>1, <1>4, <2>1, <2>2
<1>8. Len(stream') <= MaxEntries /\ faults' \in 0..MaxFaults
    BY <1>1, <1>4, <1>5, <1>7, FaultCounted, RedisAssumption DEF IInv
<1>9. \A f \in new : stream'[f].job = j /\ stream'[f].place = "new"
                     /\ stream'[f].owner = NoOne /\ ~stream'[f].idle
    BY <1>7 DEF Entry
<1>10. \A f \in Ids : /\ stream'[f].job = stream[f].job
                      /\ Job(f) # j => stream'[f] = stream[f]
                      /\ stream'[f].idle => stream'[f].place = "pending"
                      /\ stream'[f].owner # NoOne <=> stream'[f].place = "pending"
    <2> SUFFICES ASSUME NEW f \in Ids
                 PROVE  /\ stream'[f].job = stream[f].job
                        /\ Job(f) # j => stream'[f] = stream[f]
                        /\ stream'[f].idle => stream'[f].place = "pending"
                        /\ stream'[f].owner # NoOne <=> stream'[f].place = "pending"
        OBVIOUS
    <2>1. CASE f = e
        BY <1>2, <1>4, <1>7, <2>1
    <2>2. CASE f # e
        BY <1>4, <1>7, <2>2 DEF IInv, TypeOK, Shape
    <2> QED BY <2>1, <2>2
<1>11. /\ row' \in [Jobs -> {"absent", "running", "waiting"} \cup Terminal]
       /\ row'[j] # "absent" /\ \A l \in Jobs \ {j} : row'[l] = row[l]
    BY <1>1, <1>2 DEF IInv, TypeOK, Shape
<1>12. /\ claimed' \in [Instances -> SUBSET Ids]
       /\ \A k \in Instances : claimed'[k] \subseteq claimed[k]
    BY DEF IInv, TypeOK
<1>13. disturbed' = disturbed \cup {j}
    BY <1>2
<1> HIDE <1>2, <1>3, <1>5, <1>6
<1> QED BY <1>7, <1>8, <1>9, <1>10, <1>11, <1>12, <1>13, ExemptKeeps

LEMMA RecoverKeeps ==
    ASSUME IInv, NEW i \in Instances, Recover(i)
    PROVE  IInv'
<1>1. PICK e \in claimed[i] :
          /\ CanAdd
          /\ \/ AddOnce(Delete(stream, e), Job(e)) /\ UNCHANGED disturbed
             \/ AddTwice(Delete(stream, e), Job(e)) /\ disturbed' = disturbed \cup {Job(e)}
          /\ claimed' = [claimed EXCEPT ![i] = @ \ {e}]
          /\ UNCHANGED <<row, up, active, wpc, wentry, abandoned, unread>>
    BY DEF Recover, Add, workVars
<1> QED BY <1>1, RecoverOnceKeeps, RecoverTwiceKeeps

-----------------------------------------------------------------------------
LEMMA AcknowledgeKeeps ==
    ASSUME IInv, NEW w \in Workers, Acknowledge(w)
    PROVE  IInv'
<1>a. /\ wpc[w] = "ran" /\ up[Home[w]] = "up" /\ wentry[w] \in Ids /\ Job(wentry[w]) \in Jobs
      /\ Home[w] \in Instances /\ 0 \notin Ids
    BY Typed DEF IInv, Acknowledge
<1>b. PICK j \in Jobs : j = Job(wentry[w])
    BY <1>a
<1>c. PICK i \in Instances : i = Home[w]
    BY <1>a
<1>d. PICK e \in Ids \cup {0} : e = active[i][j]
    BY DEF IInv, TypeOK
<1>1. /\ active' = [active EXCEPT ![i][j] = 0]
      /\ stream' = IF e = 0 THEN stream ELSE Delete(stream, e)
      /\ wpc' = [wpc EXCEPT ![w] = "idle"] /\ wentry' = [wentry EXCEPT ![w] = 0]
    BY <1>b, <1>c, <1>d DEF Acknowledge, Forget, Idle
<1>u. UNCHANGED <<row, up, claimed, disturbed, abandoned, unread, faults>>
    BY DEF Acknowledge, history
<1>2. stream \in Seq(Entries) /\ Ids = DOMAIN stream
    BY Typed DEF IInv, Ids
<1>3. /\ stream' \in Seq(Entries) /\ Len(stream') = Len(stream) /\ Ids' = Ids
      /\ e # 0 => /\ stream'[e].job = stream[e].job /\ stream'[e].place = "gone"
                  /\ stream'[e].owner = NoOne /\ ~stream'[e].idle
      /\ \A f \in Ids : f # e => stream'[f] = stream[f]
    <2>1. CASE e = 0
        BY <1>1, <1>2, <2>1 DEF Ids
    <2>2. CASE e # 0
        <3>1. /\ Delete(stream, e) \in Seq(Entries)
              /\ Len(Delete(stream, e)) = Len(stream)
              /\ DOMAIN Delete(stream, e) = DOMAIN stream
              /\ Delete(stream, e)[e].job = stream[e].job
              /\ Delete(stream, e)[e].place = "gone"
              /\ Delete(stream, e)[e].owner = NoOne /\ ~Delete(stream, e)[e].idle
              /\ \A f \in DOMAIN stream : f # e => Delete(stream, e)[f] = stream[f]
            BY <1>2, <2>2, DeleteEffect
        <3> QED BY <1>1, <1>2, <2>2, <3>1 DEF Ids
    <2> QED BY <2>1, <2>2
<1>4. e # 0 => e \in Ids /\ Job(e) = j
    BY <1>d DEF IInv, Shape
<1>5. \A f \in Ids : /\ Job(f)' = Job(f) /\ stream'[f].job = stream[f].job
                     /\ f # e => (Present(f)' <=> Present(f))
                     /\ Present(f)' => Present(f)
    BY <1>3, <1>a DEF Job, Present
<1>6. \A k \in Instances, l \in Jobs :
          active'[k][l] = IF k = i /\ l = j THEN 0 ELSE active[k][l]
    BY <1>1 DEF IInv, TypeOK
<1>7. ASSUME NEW v \in Workers, wpc'[v] # "idle"
      PROVE  /\ v # w /\ wpc[v] # "idle" /\ wpc'[v] = wpc[v] /\ wentry'[v] = wentry[v]
             /\ wentry[v] \in Ids /\ Job(wentry[v])' = Job(wentry[v])
             /\ Home[v] \in Instances /\ Job(wentry[v]) \in Jobs
             /\ Calm(Job(wentry[v])) => Job(wentry[v]) # j
    <2>1. v # w /\ wpc[v] # "idle" /\ wpc'[v] = wpc[v] /\ wentry'[v] = wentry[v]
        BY <1>1, <1>7 DEF IInv, TypeOK
    <2>2. wentry[v] \in Ids /\ Home[v] \in Instances /\ Job(wentry[v]) \in Jobs
        BY <2>1, Typed DEF IInv
    <2>3. Job(wentry[v])' = Job(wentry[v])
        BY <1>5, <2>1, <2>2 DEF Job
    <2>4. Calm(Job(wentry[v])) => Job(wentry[v]) # j
        BY <1>a, <1>b, <2>1, OneWorker
    <2> QED BY <2>1, <2>2, <2>3, <2>4
<1>8. TypeOK'
    <2>1. \A f \in Ids : stream'[f].owner # NoOne <=> stream'[f].place = "pending"
        BY <1>3, <1>a DEF IInv, TypeOK
    <2>2. active' \in [Instances -> [Jobs -> {0} \cup Ids]]
        BY <1>1 DEF IInv, TypeOK
    <2>3. /\ wpc' \in [Workers -> {"idle", "taken", "passed", "running", "ran"}]
          /\ wentry' \in [Workers -> {0} \cup Ids]
          /\ \A v \in Workers : wpc'[v] = "idle" <=> wentry'[v] = 0
        BY <1>1 DEF IInv, TypeOK
    <2> QED BY <1>3, <1>u, <2>1, <2>2, <2>3 DEF IInv, TypeOK, Entries
<1>9. Shape'
    <2>1. \A f \in Ids : stream'[f].idle => stream'[f].place = "pending"
        BY <1>3, <1>a DEF IInv, Shape
    <2>2. \A k \in Instances, l \in Jobs : active'[k][l] # 0 => stream'[active'[k][l]].job = l
        <3>1. \A k \in Instances, l \in Jobs : active[k][l] # 0 => active[k][l] \in Ids
            BY DEF IInv, TypeOK
        <3> QED BY <1>5, <1>6, <3>1 DEF IInv, Shape, Job
    <2>3. \A f \in Ids : row[stream'[f].job] # "absent"
        BY <1>5 DEF IInv, Shape, Job
    <2>4. \A k \in Instances, l \in Jobs : up[k] = "down" => active'[k][l] = 0
        BY <1>6 DEF IInv, Shape
    <2> QED BY <1>3, <1>u, <2>1, <2>2, <2>3, <2>4 DEF IInv, Shape, Job
<1>10. OneEntry'
    BY <1>3, <1>5, <1>u DEF IInv, OneEntry, Calm
<1>11. Held'
    <2> SUFFICES ASSUME NEW k \in Instances, NEW l \in Jobs, Calm(l), active'[k][l] # 0
                 PROVE  /\ stream'[active'[k][l]].place = "pending"
                        /\ stream'[active'[k][l]].owner = k
                        /\ ~stream'[active'[k][l]].idle
        BY <1>u DEF Held, Calm
    <2>1. ~(k = i /\ l = j) /\ active'[k][l] = active[k][l] /\ active[k][l] \in Ids
        BY <1>6 DEF IInv, TypeOK
    <2>2. Job(active[k][l]) = l /\ stream[active[k][l]].owner = k
        BY <2>1 DEF IInv, Shape, Held
    <2>3. active[k][l] # e
        <3> SUFFICES ASSUME active[k][l] = e
                     PROVE  FALSE
            OBVIOUS
        <3>1. l = j
            BY <1>4, <2>1, <2>2, <1>a
        <3>2. stream[e].owner = i
            BY <1>d, <2>1, <3>1 DEF IInv, Held
        <3> QED BY <2>1, <2>2, <3>1, <3>2
    <2> QED BY <1>3, <2>1, <2>3 DEF IInv, Held
<1>12. Reaped'
    <2> SUFFICES ASSUME NEW k \in Instances, NEW f \in claimed[k], Calm(Job(f))'
                 PROVE  /\ stream'[f].place = "pending" /\ stream'[f].owner = k
                        /\ ~stream'[f].idle
                        /\ \A h \in Instances, l \in Jobs : active'[h][l] # f
        BY <1>u DEF Reaped
    <2>1. f \in Ids
        BY DEF IInv, TypeOK
    <2>2. Calm(Job(f)) /\ f # 0
        BY <1>5, <1>a, <1>u, <2>1 DEF Calm
    <2>3. /\ stream[f].place = "pending" /\ stream[f].owner = k /\ ~stream[f].idle
          /\ \A h \in Instances, l \in Jobs : active[h][l] # f
        BY <2>2 DEF IInv, Reaped
    <2> QED BY <1>3, <1>6, <1>d, <2>1, <2>2, <2>3
<1>13. Worked'
    <2> SUFFICES ASSUME NEW v \in Workers, wpc'[v] # "idle", Calm(Job(wentry[v]))'
                 PROVE  /\ active'[Home[v]][Job(wentry[v])'] = wentry'[v]
                        /\ \A x \in Workers : wpc'[x] # "idle" /\ wentry'[x] = wentry'[v] => x = v
        BY DEF Worked
    <2>1. Calm(Job(wentry[v]))
        BY <1>7, <1>u DEF Calm
    <2>2. active'[Home[v]][Job(wentry[v])] = wentry[v]
        BY <1>6, <1>7, <2>1 DEF IInv, Worked
    <2> QED BY <1>7, <2>1, <2>2 DEF IInv, Worked
<1>14. Recorded'
    <2> SUFFICES ASSUME NEW v \in Workers, wpc'[v] # "idle", Calm(Job(wentry[v]))'
                 PROVE  /\ wpc'[v] = "ran" /\ row[Job(wentry[v])'] = "running" =>
                              Job(wentry[v])' \in abandoned' \/ up'[Home[v]] = "closing"
                        /\ wpc'[v] \in {"passed", "running"} /\ row[Job(wentry[v])'] = "settled" =>
                              Job(wentry[v])' \in unread'
        BY <1>u DEF Recorded
    <2>1. Calm(Job(wentry[v]))
        BY <1>7, <1>u DEF Calm
    <2> QED BY <1>7, <1>u, <2>1 DEF IInv, Recorded
<1>15. NoJobLost'
    <2> SUFFICES ASSUME NEW l \in Jobs, Calm(l), l \notin abandoned, row[l] = "running"
                 PROVE  \E f \in Ids' : Present(f)' /\ Job(f)' = l
        BY <1>u DEF NoJobLost, Kept, Calm
    <2>1. l # j
        BY <1>a, <1>b DEF IInv, Recorded
    <2>2. PICK f \in Ids : Present(f) /\ Job(f) = l
        BY DEF IInv, NoJobLost, Kept, Calm
    <2>3. f # e
        BY <1>4, <1>a, <2>1, <2>2
    <2> QED BY <1>3, <1>5, <2>2, <2>3
<1> QED BY <1>8, <1>9, <1>10, <1>11, <1>12, <1>13, <1>14, <1>15 DEF IInv

LEMMA StutterKeeps == ASSUME IInv, UNCHANGED vars PROVE IInv'
<1> USE DEF vars, queueVars, workVars, history
<1>1. Ids' = Ids /\ \A f : Job(f)' = Job(f) /\ (Present(f)' <=> Present(f))
    BY DEF Ids, Job, Present
<1>2. TypeOK' /\ Shape' /\ OneEntry' /\ NoJobLost'
    BY <1>1 DEF IInv, TypeOK, Shape, OneEntry, NoJobLost, Kept, Calm
<1>3. Held' /\ Reaped' /\ Worked' /\ Recorded'
    BY <1>1 DEF IInv, Held, Reaped, Worked, Recorded, Calm
<1> QED BY <1>2, <1>3 DEF IInv

LEMMA StepInductive == IInv /\ [Next]_vars => IInv'
<1> SUFFICES ASSUME IInv, [Next]_vars
             PROVE  IInv'
    OBVIOUS
<1>1. CASE \E j \in Jobs : Submit(j) \/ SubmitFails(j) \/ Resume(j)
    BY <1>1, AddKeeps, AddAgainKeeps, SubmitFailsKeeps DEF Submit, Add
<1>2. CASE \E w \in Workers :
               \/ Dequeue(w) \/ DequeueLost(w) \/ Guard(w) \/ GuardUnread(w) \/ Register(w)
               \/ Refuse(w) \/ Finish(w) \/ Suspend(w) \/ StoreFails(w) \/ Acknowledge(w)
               \/ AcknowledgeFails(w) \/ Nack(w)
    BY <1>2, DequeueKeeps, DequeueLostKeeps, GuardKeeps, GuardUnreadKeeps, RegisterKeeps,
       UnrecordedKeeps, EndKeeps, AcknowledgeKeeps, ForgetKeeps
<1>3. CASE \E e \in Ids : GoIdle(e) \/ Stall(e)
    BY <1>3, GoIdleKeeps, StallKeeps
<1>4. CASE \E i \in Instances :
               \/ Keepalive(i) \/ AutoClaim(i) \/ Recover(i) \/ RecoverFails(i)
               \/ Close(i) \/ Die(i) \/ Restart(i)
    BY <1>4, KeepaliveKeeps, AutoClaimKeeps, RecoverKeeps, RecoverFailsKeeps, CloseKeeps,
       DieKeeps, RestartKeeps
<1>5. CASE UNCHANGED vars
    BY <1>5, StutterKeeps
<1> QED BY <1>1, <1>2, <1>3, <1>4, <1>5 DEF Next

-----------------------------------------------------------------------------
\* Entries, active jobs, claims, workers and rows fit together in every
\* reachable state, as far as executions are concerned that are not disturbed.
THEOREM RedisInductive == Spec => []IInv
<1> QED BY InitInductive, StepInductive, PTL DEF Spec

\* The entries of the stream are well formed: what is pending has an owner,
\* and nothing else has.
THEOREM RedisTypeCorrect == Spec => []TypeOK
<1>1. IInv => TypeOK
    BY DEF IInv
<1> QED BY <1>1, RedisInductive, PTL

\* Whatever crashes, lost replies, failed transactions and shutdowns, of any
\* number of instances: a job that was added, and neither refused a permit nor
\* run without its outcome being stored, stays in the stream until its row says
\* how it ended or that it waits; unless it was added twice, or its instance
\* stalled.
THEOREM NoJobLostHolds == Spec => []NoJobLost
<1>1. IInv => NoJobLost
    BY DEF IInv
<1> QED BY <1>1, RedisInductive, PTL

\* However often its job is delivered, a workflow is run by one worker at a
\* time, and not again once it has ended unless the guard could not read that:
\* the guard and the keepalive suffice, until the job is resumed, added twice or
\* held by an instance that stalls.
THEOREM NotRunTwiceHolds == Spec => []NotRunTwice
<1>1. IInv => NotRunTwice
    <2> SUFFICES ASSUME IInv, NEW j \in Jobs, Calm(j)
                 PROVE  /\ Cardinality(RunsOf(j)) <= 1
                        /\ row[j] = "settled" /\ j \notin unread => RunsOf(j) = {}
        BY DEF NotRunTwice, Calm
    <2>1. \A w, v \in RunsOf(j) : w = v
        BY OneWorker DEF RunsOf
    <2>2. Cardinality(RunsOf(j)) <= 1
        <3>1. CASE RunsOf(j) = {}
            BY <3>1, FS_EmptySet
        <3>2. CASE RunsOf(j) # {}
            <4>1. PICK w \in RunsOf(j) : TRUE
                BY <3>2
            <4>2. RunsOf(j) = {w}
                BY <2>1, <4>1
            <4>3. Cardinality({w}) = 1
                BY FS_Singleton
            <4> QED BY <4>2, <4>3
        <3> QED BY <3>1, <3>2
    <2>3. row[j] = "settled" /\ j \notin unread => RunsOf(j) = {}
        BY DEF IInv, Recorded, RunsOf
    <2> QED BY <2>2, <2>3
<1> QED BY <1>1, RedisInductive, PTL

-----------------------------------------------------------------------------
(***************************************************************************)
(* Nothing is delivered twice while nothing fails.                         *)
(***************************************************************************)

\* As long as nothing fails, what waits to be delivered says that it runs, what
\* was delivered is with a worker, and so does what a worker has and has not
\* finished.
Smooth ==
    faults = 0 =>
        /\ \A i \in Instances : up[i] = "up"
        /\ \A e \in Ids : Calm(Job(e)) =>
              /\ stream[e].place = "new" => row[Job(e)] = "running"
              /\ stream[e].place = "pending" =>
                    \E w \in Workers : wpc[w] # "idle" /\ wentry[w] = e
        /\ \A w \in Workers :
              wpc[w] \in {"taken", "passed", "running"} /\ Calm(Job(wentry[w])) =>
                  row[Job(wentry[w])] = "running"

LEMMA FaultsGrow ==
    ASSUME IInv, [Next]_vars
    PROVE  faults' = faults \/ Fault
<1>1. CASE \E j \in Jobs : Submit(j) \/ SubmitFails(j) \/ Resume(j)
    BY <1>1 DEF Submit, SubmitFails, Resume, Add, AddOnce, AddTwice
<1>2. ASSUME NEW w \in Workers,
             \/ Dequeue(w) \/ DequeueLost(w) \/ Guard(w) \/ GuardUnread(w) \/ Register(w)
             \/ Refuse(w) \/ Finish(w) \/ Suspend(w) \/ StoreFails(w) \/ Acknowledge(w)
             \/ AcknowledgeFails(w) \/ Nack(w)
      PROVE  faults' = faults \/ Fault
    BY <1>2 DEF Dequeue, DequeueLost, Guard, GuardUnread, Register, Refuse, Finish, Suspend,
       StoreFails, EndUnrecorded, FaultAt, Acknowledge, AcknowledgeFails, Nack, history
<1>3. ASSUME NEW e \in Ids, GoIdle(e) \/ Stall(e)
      PROVE  faults' = faults \/ Fault
    BY <1>3 DEF GoIdle, Stall, history
<1>4. ASSUME NEW i \in Instances,
             \/ Keepalive(i) \/ AutoClaim(i) \/ Recover(i) \/ RecoverFails(i)
             \/ Close(i) \/ Die(i) \/ Restart(i)
      PROVE  faults' = faults \/ Fault
    BY <1>4 DEF Keepalive, AutoClaim, Recover, Add, AddOnce, AddTwice, RecoverFails, Close,
       Die, Restart, history
<1>5. CASE UNCHANGED vars
    BY <1>5 DEF vars, history
<1> QED BY <1>1, <1>2, <1>3, <1>4, <1>5 DEF Next

\* While nothing fails no job is handed back, no instance ends or starts, and
\* no reaper has an undisturbed job.
LEMMA NoFailure ==
    ASSUME IInv, Smooth, faults = 0, faults' = 0
    PROVE  /\ ~Fault
           /\ \A j \in Jobs : ~SubmitFails(j)
           /\ \A w \in Workers : /\ ~DequeueLost(w) /\ ~GuardUnread(w) /\ ~Refuse(w)
                                 /\ ~StoreFails(w) /\ ~AcknowledgeFails(w) /\ ~Nack(w)
           /\ \A e \in Ids : ~Stall(e)
           /\ \A i \in Instances : ~RecoverFails(i) /\ ~Close(i) /\ ~Die(i) /\ ~Restart(i)
           /\ \A i \in Instances : \A e \in claimed[i] : ~Calm(Job(e))
<1>1. ~Fault
    BY DEF Fault
<1>2. \A i \in Instances : up[i] = "up"
    BY DEF Smooth
<1>3. \A w \in Workers : /\ ~DequeueLost(w) /\ ~GuardUnread(w) /\ ~Refuse(w)
                         /\ ~StoreFails(w) /\ ~AcknowledgeFails(w) /\ ~Nack(w)
    BY <1>1, <1>2, Typed DEF IInv, DequeueLost, GuardUnread, Refuse, StoreFails,
       EndUnrecorded, FaultAt, AcknowledgeFails, Nack
<1>j. \A j \in Jobs : ~SubmitFails(j)
    BY <1>1 DEF SubmitFails
<1>4. \A e \in Ids : ~Stall(e)
    BY <1>1 DEF Stall
<1>5. \A i \in Instances : ~RecoverFails(i) /\ ~Close(i) /\ ~Die(i) /\ ~Restart(i)
    BY <1>1, <1>2 DEF RecoverFails, Close, Die, Restart
<1>6. ASSUME NEW i \in Instances, NEW e \in claimed[i], Calm(Job(e))
      PROVE  FALSE
    <2>1. e \in Ids
        BY DEF IInv, TypeOK
    <2>2. /\ stream[e].place = "pending"
          /\ \A k \in Instances, j \in Jobs : active[k][j] # e
        BY <1>6 DEF IInv, Reaped
    <2>3. PICK w \in Workers : wpc[w] # "idle" /\ wentry[w] = e
        BY <1>6, <2>1, <2>2 DEF Smooth
    <2>4. active[Home[w]][Job(e)] = e /\ Home[w] \in Instances /\ Job(e) \in Jobs
        BY <1>6, <2>1, <2>3, Typed DEF IInv, Worked
    <2> QED BY <2>2, <2>4
<1> QED BY <1>1, <1>j, <1>3, <1>4, <1>5, <1>6

\* Entries that stay in their places.
LEMMA StillSmooth ==
    ASSUME IInv, Smooth, faults = 0,
           UNCHANGED <<row, up, wpc, wentry, disturbed>>, Ids' = Ids,
           \A e \in Ids : stream'[e].job = stream[e].job /\ stream'[e].place = stream[e].place
    PROVE  Smooth'
<1>1. \A e \in Ids : Job(e)' = Job(e)
    BY DEF Job
<1>2. \A w \in Workers : wpc[w] # "idle" => wentry[w] \in Ids
    BY Typed DEF IInv
<1>3. \A w \in Workers : wpc[w] # "idle" => Job(wentry[w])' = Job(wentry[w])
    BY <1>2 DEF Job
<1> QED BY <1>1, <1>2, <1>3 DEF Smooth, Calm

LEMMA StandingSmooth ==
    ASSUME IInv, Smooth, faults = 0, faults' = 0,
           \/ \E e \in Ids : GoIdle(e)
           \/ \E i \in Instances : Keepalive(i) \/ AutoClaim(i)
           \/ UNCHANGED vars
    PROVE  Smooth'
<1>0. stream \in Seq(Entries) /\ Ids = DOMAIN stream /\ Ids' = DOMAIN stream'
    BY Typed DEF IInv, Ids
<1>1. ASSUME NEW e \in Ids, GoIdle(e)
      PROVE  Smooth'
    <2>1. /\ stream[e].place = "pending" /\ stream' = [stream EXCEPT ![e].idle = TRUE]
          /\ UNCHANGED <<row, up, wpc, wentry, disturbed>>
        BY <1>1 DEF GoIdle, workVars, history
    <2>2. /\ Ids' = Ids
          /\ \A f \in Ids : stream'[f].job = stream[f].job /\ stream'[f].place = stream[f].place
        BY <2>1, IdleEffect
    <2> QED BY <2>1, <2>2, StillSmooth
<1>2. ASSUME NEW i \in Instances, NEW es, stream' = Claim(stream, es, i),
             UNCHANGED <<row, up, wpc, wentry, disturbed>>
      PROVE  Smooth'
    <2>1. /\ DOMAIN Claim(stream, es, i) = DOMAIN stream
          /\ \A e \in DOMAIN stream : /\ Claim(stream, es, i)[e].job = stream[e].job
                                      /\ Claim(stream, es, i)[e].place = stream[e].place
        BY <1>0, ClaimEffect
    <2>2. /\ Ids' = Ids
          /\ \A e \in Ids : stream'[e].job = stream[e].job /\ stream'[e].place = stream[e].place
        BY <1>0, <1>2, <2>1
    <2> QED BY <1>2, <2>2, StillSmooth
<1>3. ASSUME NEW i \in Instances, Keepalive(i) \/ AutoClaim(i)
      PROVE  Smooth'
    BY <1>2, <1>3 DEF Keepalive, AutoClaim, workVars, history
<1>4. CASE UNCHANGED vars
    <2>1. Ids' = Ids
        BY <1>4 DEF vars, queueVars, Ids
    <2> QED BY <1>4, <2>1, StillSmooth DEF vars, queueVars, workVars, history
<1> QED BY <1>1, <1>3, <1>4

\* A worker that goes on with what it has.
LEMMA GoingOnSmooth ==
    ASSUME IInv, Smooth, faults = 0, NEW w \in Workers,
           Guard(w) \/ Register(w) \/ Finish(w) \/ Suspend(w)
    PROVE  Smooth'
<1>1. PICK j \in Jobs : j = Job(wentry[w]) /\ wentry[w] \in Ids /\ wpc[w] # "idle"
    BY Typed DEF IInv, Guard, Register, Finish, Suspend
<1>2. /\ UNCHANGED <<stream, up, wentry, disturbed>>
      /\ wpc' \in {[wpc EXCEPT ![w] = place] : place \in {"passed", "running", "ran"}}
    BY DEF Guard, Register, Finish, Suspend, Goto, queueVars, history
<1>3. /\ wpc'[w] # "idle" /\ \A v \in Workers \ {w} : wpc'[v] = wpc[v]
    BY <1>2 DEF IInv, TypeOK
<1>4. Ids' = Ids /\ \A e : Job(e)' = Job(e)
    BY <1>2 DEF Ids, Job
<1>5. \A e \in Ids : Calm(Job(e)) /\ stream[e].place = "pending" =>
          \E v \in Workers : wpc'[v] # "idle" /\ wentry[v] = e
    BY <1>3 DEF Smooth
<1>6. CASE Guard(w) \/ Register(w)
    <2>1. row' = row /\ wpc[w] \in {"taken", "passed"}
        BY <1>6 DEF Guard, Register
    <2>2. \A v \in Workers :
              wpc'[v] \in {"taken", "passed", "running"} /\ Calm(Job(wentry[v])) =>
                  row[Job(wentry[v])] = "running"
        BY <1>3, <2>1 DEF Smooth
    <2> QED BY <1>2, <1>4, <1>5, <2>1, <2>2 DEF Smooth, Calm
<1>7. CASE Finish(w) \/ Suspend(w)
    <2>1. PICK x \in {"settled", "waiting"} : row' = [row EXCEPT ![j] = x]
        BY <1>1, <1>7 DEF Finish, Suspend
    <2>2. wpc' = [wpc EXCEPT ![w] = "ran"] /\ wpc'[w] = "ran"
        BY <1>7 DEF Finish, Suspend, Goto, IInv, TypeOK
    <2>3. \A l \in Jobs \ {j} : row'[l] = row[l]
        BY <2>1 DEF IInv, TypeOK
    <2>4. Calm(j) => stream[wentry[w]].place = "pending"
        BY <1>1, Typed DEF IInv, Worked, Held
    <2>5. ASSUME NEW e \in Ids, Calm(Job(e)), stream[e].place = "new"
          PROVE  row'[Job(e)] = "running"
        <3>1. Job(e) # j
            BY <1>1, <2>4, <2>5 DEF IInv, OneEntry, Present
        <3> QED BY <2>3, <2>5, <3>1, Typed DEF Smooth, IInv
    <2>6. ASSUME NEW v \in Workers, wpc'[v] \in {"taken", "passed", "running"},
                 Calm(Job(wentry[v]))
          PROVE  row'[Job(wentry[v])] = "running"
        <3>1. v # w /\ wpc[v] = wpc'[v]
            BY <1>3, <2>2, <2>6
        <3>2. Job(wentry[v]) # j
            BY <1>1, <2>6, <3>1, OneWorker
        <3>3. Job(wentry[v]) \in Jobs
            BY <2>6, <3>1, Typed DEF IInv
        <3> QED BY <2>3, <2>6, <3>1, <3>2, <3>3 DEF Smooth
    <2> QED BY <1>2, <1>4, <1>5, <2>5, <2>6 DEF Smooth, Calm
<1> QED BY <1>6, <1>7

LEMMA DequeueSmooth ==
    ASSUME IInv, Smooth, faults = 0, NEW w \in Workers, Dequeue(w)
    PROVE  Smooth'
<1>1. PICK e \in Ids : /\ wpc[w] = "idle" /\ stream[e].place = "new"
                       /\ stream' = Deliver(stream, e, Home[w])
                       /\ wpc' = [wpc EXCEPT ![w] = "taken"]
                       /\ wentry' = [wentry EXCEPT ![w] = e]
                       /\ UNCHANGED <<row, up, disturbed>>
    BY DEF Dequeue, history
<1>2. /\ Ids' = Ids /\ stream'[e].job = stream[e].job /\ stream'[e].place = "pending"
      /\ \A f \in Ids : f # e => stream'[f] = stream[f]
    <2>1. stream \in Seq(Entries) /\ Ids = DOMAIN stream /\ Ids' = DOMAIN stream'
          /\ Home[w] \in Instances
        BY Typed DEF IInv, Ids
    <2>2. /\ DOMAIN Deliver(stream, e, Home[w]) = DOMAIN stream
          /\ Deliver(stream, e, Home[w])[e].job = stream[e].job
          /\ Deliver(stream, e, Home[w])[e].place = "pending"
          /\ \A f \in DOMAIN stream : f # e => Deliver(stream, e, Home[w])[f] = stream[f]
        BY <2>1, DeliverEffect
    <2> QED BY <1>1, <2>1, <2>2
<1>3. \A f \in Ids : Job(f)' = Job(f)
    BY <1>2 DEF Job
<1>4. /\ wpc'[w] = "taken" /\ wentry'[w] = e
      /\ \A v \in Workers \ {w} : wpc'[v] = wpc[v] /\ wentry'[v] = wentry[v]
      /\ \A v \in Workers : wpc[v] # "idle" => wentry[v] \in Ids
    BY <1>1, Typed DEF IInv, TypeOK
<1>5. ASSUME NEW f \in Ids, Calm(Job(f))
      PROVE  /\ stream'[f].place = "new" => row[Job(f)] = "running"
             /\ stream'[f].place = "pending" =>
                   \E v \in Workers : wpc'[v] # "idle" /\ wentry'[v] = f
    <2>1. CASE f = e
        BY <1>2, <1>4, <2>1
    <2>2. CASE f # e
        BY <1>1, <1>2, <1>4, <1>5, <2>2 DEF Smooth
    <2> QED BY <2>1, <2>2
<1>6. ASSUME NEW v \in Workers, wpc'[v] \in {"taken", "passed", "running"},
             Calm(Job(wentry'[v]))
      PROVE  row[Job(wentry'[v])] = "running" /\ wentry'[v] \in Ids
    <2>1. CASE v = w
        BY <1>1, <1>4, <1>6, <2>1 DEF Smooth
    <2>2. CASE v # w
        BY <1>4, <1>6, <2>2 DEF Smooth
    <2> QED BY <2>1, <2>2
<1>7. \A v \in Workers : wpc'[v] # "idle" => wentry'[v] \in Ids
    BY <1>4
<1>8. \A v \in Workers : wpc'[v] # "idle" => stream'[wentry'[v]].job = stream[wentry'[v]].job
    BY <1>2, <1>7
<1> QED BY <1>1, <1>2, <1>3, <1>5, <1>6, <1>8 DEF Smooth, Calm, Job

LEMMA AcknowledgeSmooth ==
    ASSUME IInv, Smooth, faults = 0, NEW w \in Workers, Acknowledge(w)
    PROVE  Smooth'
<1>1. PICK j \in Jobs : j = Job(wentry[w]) /\ wentry[w] \in Ids /\ wpc[w] # "idle"
                        /\ Home[w] \in Instances
    BY Typed DEF IInv, Acknowledge
<1>2. PICK e \in Ids \cup {0} : e = active[Home[w]][j]
    BY <1>1 DEF IInv, TypeOK
<1>3. /\ stream' = IF e = 0 THEN stream ELSE Delete(stream, e)
      /\ wpc' = [wpc EXCEPT ![w] = "idle"] /\ wentry' = [wentry EXCEPT ![w] = 0]
      /\ UNCHANGED <<row, up, disturbed>>
    BY <1>1, <1>2 DEF Acknowledge, Idle, history
<1>4. /\ Ids' = Ids /\ \A f \in Ids : stream'[f].job = stream[f].job
      /\ e # 0 => stream'[e].place = "gone"
      /\ \A f \in Ids \ {e} : stream'[f] = stream[f]
    <2>1. stream \in Seq(Entries) /\ Ids = DOMAIN stream /\ Ids' = DOMAIN stream'
        BY Typed DEF IInv, Ids
    <2>2. CASE e = 0
        BY <1>3, <2>1, <2>2
    <2>3. CASE e # 0
        <3>1. /\ DOMAIN Delete(stream, e) = DOMAIN stream
              /\ Delete(stream, e)[e].job = stream[e].job /\ Delete(stream, e)[e].place = "gone"
              /\ \A f \in DOMAIN stream : f # e => Delete(stream, e)[f] = stream[f]
            BY <2>1, <2>3, DeleteEffect
        <3> QED BY <1>3, <2>1, <2>3, <3>1
    <2> QED BY <2>2, <2>3
<1>5. Calm(j) => e = wentry[w]
    BY <1>1, <1>2 DEF IInv, Worked
<1>6. /\ wpc'[w] = "idle"
      /\ \A v \in Workers \ {w} : wpc'[v] = wpc[v] /\ wentry'[v] = wentry[v]
      /\ \A v \in Workers : wpc[v] # "idle" => wentry[v] \in Ids
    BY <1>3, Typed DEF IInv, TypeOK
<1>7. ASSUME NEW f \in Ids, Calm(Job(f))
      PROVE  /\ stream'[f].place = "new" => row[Job(f)] = "running"
             /\ stream'[f].place = "pending" =>
                   \E v \in Workers : wpc'[v] # "idle" /\ wentry'[v] = f
    <2>1. CASE f = e
        BY <1>4, <2>1, Typed DEF IInv
    <2>2. CASE f # e
        <3>1. stream'[f] = stream[f]
            BY <1>4, <2>2
        <3>2. wentry[w] # f
            BY <1>1, <1>5, <1>7, <2>2
        <3> QED BY <1>6, <1>7, <3>1, <3>2 DEF Smooth
    <2> QED BY <2>1, <2>2
<1>8. ASSUME NEW v \in Workers, wpc'[v] \in {"taken", "passed", "running"},
             Calm(Job(wentry'[v]))
      PROVE  row[Job(wentry'[v])] = "running"
    BY <1>6, <1>8 DEF Smooth
<1>9. \A v \in Workers : wpc'[v] # "idle" => stream'[wentry'[v]].job = stream[wentry'[v]].job
    BY <1>4, <1>6
<1> QED BY <1>3, <1>4, <1>7, <1>8, <1>9 DEF Smooth, Calm, Job

\* One entry more: Submit, Resume and Recover.
LEMMA AddSmooth ==
    ASSUME IInv, Smooth, faults = 0, NEW j \in Jobs,
           NEW n, n \notin Ids, Ids' = Ids \cup {n},
           stream'[n].job = j, stream'[n].place = "new",
           \A e \in Ids : /\ stream'[e].job = stream[e].job
                          /\ Calm(Job(e)) => stream'[e].place = stream[e].place,
           \/ row[j] = "absent" /\ row' = [row EXCEPT ![j] = "running"] /\ UNCHANGED disturbed
           \/ j \in disturbed' /\ disturbed \subseteq disturbed' /\ UNCHANGED row,
           UNCHANGED <<up, wpc, wentry>>
    PROVE  Smooth'
<1>1. /\ \A e \in Ids : Job(e)' = Job(e) /\ Job(e) \in Jobs
      /\ Job(n)' = j
    BY Typed DEF Job, IInv
<1>2. \A v \in Workers : wpc[v] # "idle" =>
          wentry[v] \in Ids /\ Job(wentry[v])' = Job(wentry[v])
    BY Typed DEF IInv, Job
<1>3. \A l : Calm(l)' => Calm(l)
    BY DEF Calm
<1>4. \A e \in Ids : row[Job(e)] # "absent"
    BY DEF IInv, Shape
<1>5. \A l \in Jobs : row[l] # "absent" => row'[l] = row[l]
    BY DEF IInv, TypeOK
<1>6. Calm(j)' => row'[j] = "running"
    BY DEF Calm, IInv, TypeOK
<1>7. ASSUME NEW e \in Ids', Job(e)' \notin disturbed'
      PROVE  /\ stream'[e].place = "new" => row'[Job(e)'] = "running"
             /\ stream'[e].place = "pending" =>
                   \E v \in Workers : wpc'[v] # "idle" /\ wentry'[v] = e
    <2>1. CASE e = n
        BY <1>1, <1>6, <1>7, <2>1 DEF Calm
    <2>2. CASE e \in Ids
        BY <1>1, <1>3, <1>4, <1>5, <1>7, <2>2 DEF Smooth, Calm
    <2> QED BY <2>1, <2>2
<1>8. ASSUME NEW v \in Workers, wpc'[v] \in {"taken", "passed", "running"},
             Calm(Job(wentry[v]))
      PROVE  row'[Job(wentry[v])] = "running"
    BY <1>1, <1>2, <1>4, <1>5, <1>8 DEF Smooth
<1> QED BY <1>2, <1>3, <1>7, <1>8 DEF Smooth, Calm

LEMMA SubmitSmooth ==
    ASSUME IInv, Smooth, faults = 0, faults' = 0, NEW j \in Jobs, Submit(j) \/ Resume(j)
    PROVE  Smooth'
<1>0. ~AddTwice(stream, j)
    BY NoFailure DEF AddTwice
<1>1. /\ CanAdd /\ stream' = Append(stream, Entry(j)) /\ UNCHANGED <<up, wpc, wentry>>
      /\ \/ row[j] = "absent" /\ row' = [row EXCEPT ![j] = "running"] /\ UNCHANGED disturbed
         \/ j \in disturbed' /\ disturbed \subseteq disturbed' /\ UNCHANGED row
    BY <1>0 DEF Submit, Resume, Add, AddOnce, workVars
<1>2. PICK n : n = Len(stream) + 1
    OBVIOUS
<1>3. /\ Ids' = Ids \cup {n} /\ n \notin Ids
      /\ stream'[n].job = j /\ stream'[n].place = "new"
      /\ \A f \in Ids : stream'[f] = stream[f]
    BY <1>1, <1>2, AppendHands
<1> QED BY <1>1, <1>3, AddSmooth

LEMMA RecoverSmooth ==
    ASSUME IInv, Smooth, faults = 0, faults' = 0, NEW i \in Instances, Recover(i)
    PROVE  Smooth'
<1>1. PICK e \in claimed[i] :
          /\ stream' = Append(Delete(stream, e), Entry(Job(e)))
          /\ UNCHANGED <<row, up, wpc, wentry, disturbed>>
    BY NoFailure DEF Recover, Add, AddOnce, AddTwice, workVars
<1>2. /\ e \in Ids /\ stream \in Seq(Entries) /\ Ids = DOMAIN stream /\ Ids' = DOMAIN stream'
    BY Typed DEF IInv, TypeOK, Ids
<1>3. PICK j \in Jobs : j = Job(e) /\ j \in disturbed
    BY <1>2, NoFailure, Typed DEF IInv, Calm
<1>4. PICK n : n = Len(stream) + 1
    OBVIOUS
<1>5. PICK s : s = Delete(stream, e)
    OBVIOUS
<1>6. /\ s \in Seq(Entries) /\ Len(s) = Len(stream) /\ DOMAIN s = Ids
      /\ s[e].job = stream[e].job
      /\ \A f \in Ids : f # e => s[f] = stream[f]
    BY <1>2, <1>5, DeleteEffect
<1>7. /\ DOMAIN Append(s, Entry(j)) = DOMAIN s \cup {Len(s) + 1}
      /\ Append(s, Entry(j))[Len(s) + 1] = Entry(j) /\ Len(s) + 1 \notin DOMAIN s
      /\ \A f \in DOMAIN s : Append(s, Entry(j))[f] = s[f]
    BY <1>3, <1>6, AppendEffect
<1>8. /\ Ids' = Ids \cup {n} /\ n \notin Ids
      /\ stream'[n].job = j /\ stream'[n].place = "new"
      /\ \A f \in Ids : /\ stream'[f].job = stream[f].job
                        /\ Calm(Job(f)) => stream'[f].place = stream[f].place
    BY <1>1, <1>2, <1>3, <1>4, <1>5, <1>6, <1>7 DEF Entry, Calm
<1> QED BY <1>1, <1>3, <1>8, AddSmooth

LEMMA StepSmooth == IInv /\ Smooth /\ [Next]_vars => Smooth'
<1> SUFFICES ASSUME IInv, Smooth, [Next]_vars, faults' = 0
             PROVE  Smooth'
    BY DEF Smooth
<1>1. faults = 0
    BY FaultsGrow DEF Fault, IInv, TypeOK
<1>2. CASE \E j \in Jobs : Submit(j) \/ SubmitFails(j) \/ Resume(j)
    BY <1>1, <1>2, NoFailure, SubmitSmooth
<1>3. ASSUME NEW w \in Workers,
             \/ Dequeue(w) \/ DequeueLost(w) \/ Guard(w) \/ GuardUnread(w) \/ Register(w)
             \/ Refuse(w) \/ Finish(w) \/ Suspend(w) \/ StoreFails(w) \/ Acknowledge(w)
             \/ AcknowledgeFails(w) \/ Nack(w)
      PROVE  Smooth'
    BY <1>1, <1>3, NoFailure, DequeueSmooth, GoingOnSmooth, AcknowledgeSmooth
<1>4. ASSUME NEW e \in Ids, GoIdle(e) \/ Stall(e)
      PROVE  Smooth'
    BY <1>1, <1>4, NoFailure, StandingSmooth
<1>5. ASSUME NEW i \in Instances,
             \/ Keepalive(i) \/ AutoClaim(i) \/ Recover(i) \/ RecoverFails(i)
             \/ Close(i) \/ Die(i) \/ Restart(i)
      PROVE  Smooth'
    BY <1>1, <1>5, NoFailure, StandingSmooth, RecoverSmooth
<1>6. CASE UNCHANGED vars
    BY <1>1, <1>6, StandingSmooth
<1> QED BY <1>2, <1>3, <1>4, <1>5, <1>6 DEF Next

\* While nothing fails, no job is delivered a second time: what waits in the
\* stream or is with a worker before its run is of an execution that runs.
THEOREM SmoothHolds == Spec => []Smooth
<1>1. Init => Smooth
    <2> SUFFICES ASSUME Init PROVE Smooth
        OBVIOUS
    <2>1. Ids = {}
        BY DEF Init, Ids
    <2> QED BY <2>1 DEF Init, Smooth
<1> QED BY <1>1, StepSmooth, RedisInductive, PTL DEF Spec

-----------------------------------------------------------------------------
(***************************************************************************)
(* RedisDispatch implements JobService: every step moves one job on, or is *)
(* a disruption, or changes nothing it speaks of.                          *)
(***************************************************************************)

\* An entry is of one job for ever.
LEMMA EntriesKept ==
    ASSUME IInv, [Next]_vars
    PROVE  Ids \subseteq Ids' /\ \A e \in Ids : Job(e)' = Job(e) /\ Job(e) \in Jobs
<1>0. /\ stream \in Seq(Entries) /\ Ids = DOMAIN stream /\ Ids' = DOMAIN stream'
      /\ \A e \in Ids : Job(e) \in Jobs
    BY Typed DEF IInv, Ids
<1> SUFFICES Ids \subseteq Ids' /\ \A e \in Ids : stream'[e].job = stream[e].job
    BY <1>0 DEF Job
<1>1. CASE UNCHANGED stream
    BY <1>0, <1>1
<1>a. ASSUME NEW s \in Seq(Entries), NEW j \in Jobs, DOMAIN s = Ids,
             \A e \in Ids : s[e].job = stream[e].job,
             AddOnce(s, j) \/ AddTwice(s, j)
      PROVE  Ids \subseteq Ids' /\ \A e \in Ids : stream'[e].job = stream[e].job
    <2>1. CASE AddOnce(s, j)
        <3>1. /\ DOMAIN Append(s, Entry(j)) = DOMAIN s \cup {Len(s) + 1}
              /\ \A f \in DOMAIN s : Append(s, Entry(j))[f] = s[f]
            BY AppendEffect
        <3>2. stream' = Append(s, Entry(j))
            BY <2>1 DEF AddOnce
        <3> QED BY <1>0, <1>a, <3>1, <3>2
    <2>2. CASE AddTwice(s, j)
        <3>1. /\ DOMAIN Twice(s, j) = DOMAIN s \cup {Len(s) + 1, Len(s) + 2}
              /\ \A f \in DOMAIN s : Twice(s, j)[f] = s[f]
            BY AppendTwiceEffect
        <3>2. stream' = Twice(s, j)
            BY <2>2 DEF AddTwice, Twice
        <3> QED BY <1>0, <1>a, <3>1, <3>2
    <2> QED BY <1>a, <2>1, <2>2
<1>2. ASSUME NEW j \in Jobs, Submit(j) \/ Resume(j)
      PROVE  Ids \subseteq Ids' /\ \A e \in Ids : stream'[e].job = stream[e].job
    <2>1. AddOnce(stream, j) \/ AddTwice(stream, j)
        BY <1>2 DEF Submit, Resume, Add
    <2> QED BY <1>0, <1>a, <2>1
<1>3. ASSUME NEW w \in Workers, Dequeue(w) \/ DequeueLost(w)
      PROVE  Ids \subseteq Ids' /\ \A e \in Ids : stream'[e].job = stream[e].job
    <2>1. PICK e \in Ids : stream' = Deliver(stream, e, Home[w])
        BY <1>3 DEF Dequeue, DequeueLost
    <2>2. Home[w] \in Instances
        BY RedisAssumption
    <2>3. /\ DOMAIN Deliver(stream, e, Home[w]) = DOMAIN stream
          /\ Deliver(stream, e, Home[w])[e].job = stream[e].job
          /\ \A f \in DOMAIN stream : f # e => Deliver(stream, e, Home[w])[f] = stream[f]
        BY <1>0, <2>2, DeliverEffect
    <2> QED BY <1>0, <2>1, <2>3
<1>4. ASSUME NEW e \in Ids, stream' = Delete(stream, e)
      PROVE  Ids \subseteq Ids' /\ \A f \in Ids : stream'[f].job = stream[f].job
    <2>1. /\ DOMAIN Delete(stream, e) = DOMAIN stream
          /\ Delete(stream, e)[e].job = stream[e].job
          /\ \A f \in DOMAIN stream : f # e => Delete(stream, e)[f] = stream[f]
        BY <1>0, DeleteEffect
    <2> QED BY <1>0, <1>4, <2>1
<1>5. ASSUME NEW w \in Workers, Acknowledge(w)
      PROVE  Ids \subseteq Ids' /\ \A e \in Ids : stream'[e].job = stream[e].job
    <2>1. PICK j \in Jobs, i \in Instances : j = Job(wentry[w]) /\ i = Home[w]
        BY <1>5, Typed DEF IInv, Acknowledge
    <2>2. PICK e \in Ids \cup {0} : e = active[i][j]
        BY DEF IInv, TypeOK
    <2>3. stream' = IF e = 0 THEN stream ELSE Delete(stream, e)
        BY <1>5, <2>1, <2>2 DEF Acknowledge
    <2> QED BY <1>1, <1>4, <2>2, <2>3
<1>6. ASSUME NEW e \in Ids, GoIdle(e) \/ Stall(e)
      PROVE  Ids \subseteq Ids' /\ \A f \in Ids : stream'[f].job = stream[f].job
    <2>1. stream[e].place = "pending" /\ stream' = [stream EXCEPT ![e].idle = TRUE]
        BY <1>6 DEF GoIdle, Stall
    <2> QED BY <2>1, IdleEffect
<1>7. ASSUME NEW i \in Instances, NEW es, stream' = Claim(stream, es, i)
      PROVE  Ids \subseteq Ids' /\ \A f \in Ids : stream'[f].job = stream[f].job
    <2>1. /\ DOMAIN Claim(stream, es, i) = DOMAIN stream
          /\ \A e \in DOMAIN stream : Claim(stream, es, i)[e].job = stream[e].job
        BY <1>0, ClaimEffect
    <2> QED BY <1>0, <1>7, <2>1
<1>8. ASSUME NEW i \in Instances, Keepalive(i) \/ AutoClaim(i)
      PROVE  Ids \subseteq Ids' /\ \A e \in Ids : stream'[e].job = stream[e].job
    BY <1>7, <1>8 DEF Keepalive, AutoClaim
<1>9. ASSUME NEW i \in Instances, Recover(i)
      PROVE  Ids \subseteq Ids' /\ \A e \in Ids : stream'[e].job = stream[e].job
    <2>1. PICK e \in Ids : AddOnce(Delete(stream, e), Job(e)) \/ AddTwice(Delete(stream, e), Job(e))
        BY <1>9 DEF Recover, Add, IInv, TypeOK
    <2>2. PICK s : s = Delete(stream, e)
        OBVIOUS
    <2>3. /\ s \in Seq(Entries) /\ DOMAIN s = DOMAIN stream /\ s[e].job = stream[e].job
          /\ \A f \in DOMAIN stream : f # e => s[f] = stream[f]
        BY <1>0, <2>2, DeleteEffect
    <2>4. PICK j \in Jobs : j = Job(e)
        BY <1>0
    <2>5. AddOnce(s, j) \/ AddTwice(s, j)
        BY <2>1, <2>2, <2>4
    <2>6. DOMAIN s = Ids /\ \A f \in Ids : s[f].job = stream[f].job
        BY <1>0, <2>3
    <2> QED BY <1>a, <2>3, <2>5, <2>6
<1>10. CASE \E w \in Workers :
                \/ Guard(w) \/ GuardUnread(w) \/ Register(w) \/ Refuse(w) \/ Finish(w)
                \/ Suspend(w) \/ StoreFails(w) \/ AcknowledgeFails(w) \/ Nack(w)
    BY <1>1, <1>10 DEF Guard, GuardUnread, Register, Refuse, Finish, Suspend, StoreFails,
       EndUnrecorded, AcknowledgeFails, Nack, queueVars
<1>13. CASE \E j \in Jobs : SubmitFails(j)
    BY <1>1, <1>13 DEF SubmitFails, queueVars
<1>11. CASE \E i \in Instances : RecoverFails(i) \/ Close(i) \/ Die(i) \/ Restart(i)
    BY <1>1, <1>11 DEF RecoverFails, Close, Die, Restart, queueVars
<1>12. CASE UNCHANGED vars
    BY <1>1, <1>12 DEF vars, queueVars
<1> QED BY <1>2, <1>3, <1>5, <1>6, <1>8, <1>9, <1>10, <1>11, <1>12, <1>13 DEF Next

\* What is recorded of an execution although nobody may be there for it: a row
\* that waits has had an entry, and without a failure no job is abandoned.
Accounted ==
    /\ faults = 0 => abandoned = {}
    /\ \A j \in Jobs : row[j] = "waiting" => Listed(j)

LEMMA AbandonedByFailure ==
    ASSUME IInv, [Next]_vars
    PROVE  abandoned' = abandoned \/ faults' # 0
<1>0. Fault => faults' # 0
    BY DEF Fault, IInv, TypeOK
<1>1. CASE \E j \in Jobs : Submit(j) \/ SubmitFails(j) \/ Resume(j)
    BY <1>0, <1>1 DEF Submit, SubmitFails, Resume
<1>2. ASSUME NEW w \in Workers,
             \/ Dequeue(w) \/ DequeueLost(w) \/ Guard(w) \/ GuardUnread(w) \/ Register(w)
             \/ Refuse(w) \/ Finish(w) \/ Suspend(w) \/ StoreFails(w) \/ Acknowledge(w)
             \/ AcknowledgeFails(w) \/ Nack(w)
      PROVE  abandoned' = abandoned \/ faults' # 0
    BY <1>0, <1>2 DEF Dequeue, DequeueLost, Guard, GuardUnread, Register, Refuse, Finish, Suspend,
       StoreFails, EndUnrecorded, FaultAt, Acknowledge, AcknowledgeFails, Nack, history
<1>3. CASE \E e \in Ids : GoIdle(e) \/ Stall(e)
    BY <1>3 DEF GoIdle, Stall, history
<1>4. ASSUME NEW i \in Instances,
             \/ Keepalive(i) \/ AutoClaim(i) \/ Recover(i) \/ RecoverFails(i)
             \/ Close(i) \/ Die(i) \/ Restart(i)
      PROVE  abandoned' = abandoned
    BY <1>4 DEF Keepalive, AutoClaim, Recover, RecoverFails, Close, Die, Restart, history
<1>5. CASE UNCHANGED vars
    BY <1>5 DEF vars, history
<1> QED BY <1>1, <1>2, <1>3, <1>4, <1>5 DEF Next

LEMMA RowsWait ==
    ASSUME IInv, [Next]_vars, NEW j \in Jobs, row'[j] = "waiting"
    PROVE  row[j] = "waiting" \/ Listed(j)
<1>1. CASE \E l \in Jobs : Submit(l) \/ SubmitFails(l) \/ Resume(l)
    BY <1>1 DEF Submit, SubmitFails, Resume, IInv, TypeOK
<1>2. ASSUME NEW w \in Workers, Finish(w) \/ Suspend(w)
      PROVE  row[j] = "waiting" \/ Listed(j)
    <2>1. wentry[w] \in Ids
        BY <1>2, Typed DEF IInv, Finish, Suspend
    <2>2. Job(wentry[w]) = j \/ row'[j] = row[j]
        BY <1>2 DEF Finish, Suspend, IInv, TypeOK
    <2> QED BY <2>1, <2>2 DEF Listed
<1>3. CASE \E w \in Workers :
             \/ Dequeue(w) \/ DequeueLost(w) \/ Guard(w) \/ GuardUnread(w) \/ Register(w)
             \/ Refuse(w) \/ StoreFails(w) \/ Acknowledge(w) \/ AcknowledgeFails(w) \/ Nack(w)
    BY <1>3 DEF Dequeue, DequeueLost, Guard, GuardUnread, Register, Refuse,
       StoreFails, EndUnrecorded, Acknowledge, AcknowledgeFails, Nack
<1>4. CASE \E e \in Ids : GoIdle(e) \/ Stall(e)
    BY <1>4 DEF GoIdle, Stall
<1>5. CASE \E i \in Instances :
             \/ Keepalive(i) \/ AutoClaim(i) \/ Recover(i) \/ RecoverFails(i)
             \/ Close(i) \/ Die(i) \/ Restart(i)
    BY <1>5 DEF Keepalive, AutoClaim, Recover, RecoverFails, Close, Die, Restart
<1>6. CASE UNCHANGED vars
    BY <1>6 DEF vars
<1> QED BY <1>1, <1>2, <1>3, <1>4, <1>5, <1>6 DEF Next

LEMMA StaysListed ==
    ASSUME IInv, [Next]_vars, NEW j \in Jobs, Listed(j)
    PROVE  Listed(j)'
<1>1. PICK e \in Ids : Job(e) = j
    BY DEF Listed
<1>2. e \in Ids' /\ Job(e)' = j
    BY <1>1, EntriesKept
<1> QED BY <1>2 DEF Listed

LEMMA StepAccounted == IInv /\ Accounted /\ [Next]_vars => Accounted'
<1> SUFFICES ASSUME IInv, Accounted, [Next]_vars
             PROVE  Accounted'
    OBVIOUS
<1>1. faults' = 0 => abandoned' = {}
    <2>1. faults' = 0 => faults = 0
        BY FaultsGrow DEF Fault, IInv, TypeOK
    <2> QED BY <2>1, AbandonedByFailure DEF Accounted
<1>2. ASSUME NEW j \in Jobs, row'[j] = "waiting"
      PROVE  Listed(j)'
    BY <1>2, RowsWait, StaysListed DEF Accounted
<1> QED BY <1>1, <1>2 DEF Accounted

LEMMA AccountedHolds == Spec => []Accounted
<1>1. Init => Accounted
    BY DEF Init, Accounted
<1> QED BY <1>1, StepAccounted, RedisInductive, PTL DEF Spec

-----------------------------------------------------------------------------
LEMMA StatusTyped ==
    Status \in [Jobs -> Service!Statuses] /\ Status' \in [Jobs -> Service!Statuses]
BY DEF Status, Service!Statuses

\* Of these jobs nothing is promised any more.
Exempt(j) == j \in disturbed \cup unread

LEMMA FaultsPositive ==
    ASSUME IInv, [Next]_vars
    PROVE  /\ faults' = faults \/ faults' > 0
           /\ faults # 0 => faults > 0 /\ faults' > 0
           /\ Fault => faults' > 0
BY FaultsGrow DEF Fault, IInv, TypeOK

\* A step after which everything is as it was for the submitters.
LEMMA NothingSeen ==
    ASSUME IInv, [Next]_vars, Status' = Status
    PROVE  UNCHANGED <<Status, faults > 0>> \/ Service!Disrupt
<1>1. Status' \in [Jobs -> Service!Statuses]
    BY StatusTyped
<1>2. CASE faults' > 0
    BY <1>1, <1>2 DEF Service!Disrupt
<1>3. CASE faults' = faults
    BY <1>3
<1> QED BY <1>2, <1>3, FaultsPositive

LEMMA StatusSame ==
    ASSUME \A j \in Jobs : ~Exempt(j) =>
               /\ AtWork(j)' <=> AtWork(j)
               /\ Kept(j)' <=> Kept(j)
               /\ Listed(j)' <=> Listed(j),
           UNCHANGED <<row, disturbed, unread>>
    PROVE  Status' = Status
BY DEF Status, Exempt

\* Commands that leave every entry where it is, but for who has it and since when.
LEMMA SameEntries ==
    ASSUME Ids' = Ids,
           \A e \in Ids : /\ stream'[e].job = stream[e].job
                          /\ stream'[e].place = "gone" <=> stream[e].place = "gone"
    PROVE  \A j \in Jobs : (Kept(j)' <=> Kept(j)) /\ (Listed(j)' <=> Listed(j))
BY DEF Kept, Listed, Job, Present

LEMMA InPlace ==
    ASSUME IInv,
           \/ \E w \in Workers : Dequeue(w) \/ DequeueLost(w)
           \/ \E e \in Ids : GoIdle(e) \/ Stall(e)
           \/ \E i \in Instances : Keepalive(i) \/ AutoClaim(i)
           \/ UNCHANGED stream
    PROVE  \A j \in Jobs : (Kept(j)' <=> Kept(j)) /\ (Listed(j)' <=> Listed(j))
<1>0. stream \in Seq(Entries) /\ Ids = DOMAIN stream /\ Ids' = DOMAIN stream'
    BY Typed DEF IInv, Ids
<1> DEFINE Same == /\ Ids' = Ids
                   /\ \A e \in Ids : /\ stream'[e].job = stream[e].job
                                     /\ stream'[e].place = "gone" <=> stream[e].place = "gone"
<1> SUFFICES Same
    BY SameEntries
<1>1. ASSUME NEW w \in Workers, Dequeue(w) \/ DequeueLost(w)
      PROVE  Same
    <2>1. PICK e \in Ids : stream[e].place = "new" /\ stream' = Deliver(stream, e, Home[w])
        BY <1>1 DEF Dequeue, DequeueLost
    <2>2. Home[w] \in Instances
        BY RedisAssumption
    <2>3. /\ DOMAIN Deliver(stream, e, Home[w]) = DOMAIN stream
          /\ Deliver(stream, e, Home[w])[e].job = stream[e].job
          /\ Deliver(stream, e, Home[w])[e].place = "pending"
          /\ \A f \in DOMAIN stream : f # e => Deliver(stream, e, Home[w])[f] = stream[f]
        BY <1>0, <2>2, DeliverEffect
    <2> QED BY <1>0, <2>1, <2>3
<1>2. ASSUME NEW e \in Ids, GoIdle(e) \/ Stall(e)
      PROVE  Same
    <2>1. stream[e].place = "pending" /\ stream' = [stream EXCEPT ![e].idle = TRUE]
        BY <1>2 DEF GoIdle, Stall
    <2> QED BY <2>1, IdleEffect
<1>3. ASSUME NEW i \in Instances, NEW es, stream' = Claim(stream, es, i)
      PROVE  Same
    <2>1. /\ DOMAIN Claim(stream, es, i) = DOMAIN stream
          /\ \A e \in DOMAIN stream : /\ Claim(stream, es, i)[e].job = stream[e].job
                                      /\ Claim(stream, es, i)[e].place = stream[e].place
        BY <1>0, ClaimEffect
    <2> QED BY <1>0, <1>3, <2>1
<1>4. ASSUME NEW i \in Instances, Keepalive(i) \/ AutoClaim(i)
      PROVE  Same
    BY <1>3, <1>4 DEF Keepalive, AutoClaim
<1>5. CASE UNCHANGED stream
    BY <1>0, <1>5
<1> QED BY <1>1, <1>2, <1>4, <1>5

\* Steps that add entries of one job, and may delete one of it.
LEMMA OthersKept ==
    ASSUME IInv, [Next]_vars, NEW d \in Jobs,
           \/ Submit(d) \/ Resume(d)
           \/ \E i \in Instances : \E e \in claimed[i] :
                 d = Job(e) /\ (AddOnce(Delete(stream, e), d) \/ AddTwice(Delete(stream, e), d))
    PROVE  /\ \A j \in Jobs \ {d} : (Kept(j)' <=> Kept(j)) /\ (Listed(j)' <=> Listed(j))
           /\ Kept(d)' /\ Listed(d)'
<1>0. stream \in Seq(Entries) /\ Ids = DOMAIN stream /\ Ids' = DOMAIN stream'
      /\ \A e \in Ids : Job(e) \in Jobs
    BY Typed DEF IInv, Ids
<1>1. ASSUME NEW s \in Seq(Entries), DOMAIN s = Ids,
             \A e \in Ids : s[e].job = stream[e].job,
             \A e \in Ids : Job(e) # d => s[e] = stream[e],
             AddOnce(s, d) \/ AddTwice(s, d)
      PROVE  /\ \A j \in Jobs \ {d} : (Kept(j)' <=> Kept(j)) /\ (Listed(j)' <=> Listed(j))
             /\ Kept(d)' /\ Listed(d)'
    <2>1. PICK new : /\ Ids' = Ids \cup new /\ new # {} /\ new \cap Ids = {}
                     /\ \A f \in new : stream'[f] = Entry(d)
                     /\ \A f \in Ids : stream'[f] = s[f]
        <3>1. CASE AddOnce(s, d)
            <4>1. PICK new : new = {Len(s) + 1}
                OBVIOUS
            <4>2. /\ DOMAIN Append(s, Entry(d)) = DOMAIN s \cup new /\ new \cap DOMAIN s = {}
                  /\ \A f \in new : Append(s, Entry(d))[f] = Entry(d)
                  /\ \A f \in DOMAIN s : Append(s, Entry(d))[f] = s[f]
                BY <4>1, AppendEffect
            <4>3. stream' = Append(s, Entry(d))
                BY <3>1 DEF AddOnce
            <4> QED BY <1>0, <1>1, <4>1, <4>2, <4>3
        <3>2. CASE AddTwice(s, d)
            <4>1. PICK new : new = {Len(s) + 1, Len(s) + 2}
                OBVIOUS
            <4>2. /\ DOMAIN Twice(s, d) = DOMAIN s \cup new /\ new \cap DOMAIN s = {}
                  /\ \A f \in new : Twice(s, d)[f] = Entry(d)
                  /\ \A f \in DOMAIN s : Twice(s, d)[f] = s[f]
                BY <4>1, AppendTwiceEffect
            <4>3. stream' = Twice(s, d)
                BY <3>2 DEF AddTwice, Twice
            <4> QED BY <1>0, <1>1, <4>1, <4>2, <4>3
        <3> QED BY <1>1, <3>1, <3>2
    <2>2. \A f \in new : stream'[f].job = d /\ stream'[f].place = "new"
        BY <2>1 DEF Entry
    <2>3. \A e \in Ids : /\ stream'[e].job = stream[e].job
                         /\ stream[e].job # d => stream'[e].place = stream[e].place
        BY <1>1, <2>1 DEF Job
    <2>4. ASSUME NEW j \in Jobs \ {d}
          PROVE  (Kept(j)' <=> Kept(j)) /\ (Listed(j)' <=> Listed(j))
        <3>1. \A e \in Ids' : stream'[e].job = j => e \in Ids
            BY <2>1, <2>2
        <3>2. (\E e \in Ids' : stream'[e].job = j) <=> (\E e \in Ids : stream[e].job = j)
            BY <2>1, <2>3, <3>1
        <3>3. (\E e \in Ids' : stream'[e].place # "gone" /\ stream'[e].job = j)
              <=> (\E e \in Ids : stream[e].place # "gone" /\ stream[e].job = j)
            BY <2>1, <2>3, <3>1
        <3> QED BY <3>2, <3>3 DEF Kept, Listed, Job, Present
    <2>5. Kept(d)' /\ Listed(d)'
        BY <2>1, <2>2 DEF Kept, Listed, Job, Present
    <2> QED BY <2>4, <2>5
<1>2. CASE Submit(d) \/ Resume(d)
    <2>1. AddOnce(stream, d) \/ AddTwice(stream, d)
        BY <1>2 DEF Submit, Resume, Add
    <2> QED BY <1>0, <1>1, <2>1
<1>3. ASSUME NEW i \in Instances, NEW e \in claimed[i], d = Job(e),
             AddOnce(Delete(stream, e), d) \/ AddTwice(Delete(stream, e), d)
      PROVE  /\ \A j \in Jobs \ {d} : (Kept(j)' <=> Kept(j)) /\ (Listed(j)' <=> Listed(j))
             /\ Kept(d)' /\ Listed(d)'
    <2>1. e \in Ids
        BY <1>3 DEF IInv, TypeOK
    <2>2. PICK s : s = Delete(stream, e)
        OBVIOUS
    <2>3. /\ s \in Seq(Entries) /\ DOMAIN s = Ids /\ s[e].job = stream[e].job
          /\ \A f \in Ids : f # e => s[f] = stream[f]
        BY <1>0, <2>1, <2>2, DeleteEffect
    <2>4. AddOnce(s, d) \/ AddTwice(s, d)
        BY <1>3, <2>2
    <2>5. /\ \A f \in Ids : s[f].job = stream[f].job
          /\ \A f \in Ids : Job(f) # d => s[f] = stream[f]
        BY <1>3, <2>3
    <2> QED BY <1>1, <2>3, <2>4, <2>5
<1> QED BY <1>2, <1>3

\* Who is at work when only one worker moves.
LEMMA OthersAtWork ==
    ASSUME IInv, [Next]_vars, NEW w \in Workers,
           \A v \in Workers \ {w} : wpc'[v] = wpc[v] /\ wentry'[v] = wentry[v]
    PROVE  \A v \in Workers \ {w}, j \in Jobs :
               wpc'[v] \in {"passed", "running"} /\ Job(wentry[v])' = j
               <=> wpc[v] \in {"passed", "running"} /\ Job(wentry[v]) = j
<1> SUFFICES ASSUME NEW v \in Workers \ {w}, wpc[v] \in {"passed", "running"}
             PROVE  Job(wentry[v])' = Job(wentry[v])
    OBVIOUS
<1>1. wentry[v] \in Ids /\ wentry'[v] = wentry[v]
    BY Typed DEF IInv
<1>2. stream'[wentry[v]].job = stream[wentry[v]].job
    BY <1>1, EntriesKept DEF Job
<1> QED BY <1>1, <1>2 DEF Job

\* The jobs of the workers' entries do not change.
LEMMA WorkersStand ==
    ASSUME IInv, [Next]_vars, UNCHANGED <<wpc, wentry>>
    PROVE  \A j \in Jobs : AtWork(j)' <=> AtWork(j)
<1>1. \A v \in Workers : wpc[v] # "idle" => Job(wentry[v])' = Job(wentry[v])
    <2> SUFFICES ASSUME NEW v \in Workers, wpc[v] # "idle"
                 PROVE  stream'[wentry[v]].job = stream[wentry[v]].job
        BY DEF Job
    <2>1. wentry[v] \in Ids
        BY Typed DEF IInv
    <2> QED BY <2>1, EntriesKept DEF Job
<1> QED BY <1>1 DEF AtWork

\* Steps of Redis, and of instances that fail to do something.
LEMMA RedisUnseen ==
    ASSUME IInv, [Next]_vars, UNCHANGED <<row, disturbed, unread, wpc, wentry>>,
           \/ \E w \in Workers : DequeueLost(w)
           \/ \E e \in Ids : GoIdle(e)
           \/ \E i \in Instances : Keepalive(i) \/ AutoClaim(i)
           \/ UNCHANGED stream
    PROVE  Status' = Status
BY WorkersStand, InPlace, StatusSame

\* A worker that takes a job, or lets go of one without a word to Redis.
LEMMA HandlingUnseen ==
    ASSUME IInv, [Next]_vars, NEW w \in Workers,
           Dequeue(w) \/ AcknowledgeFails(w) \/ Nack(w)
    PROVE  Status' = Status
<1>1. /\ wpc[w] \notin {"passed", "running"} /\ wpc'[w] \notin {"passed", "running"}
      /\ \A v \in Workers \ {w} : wpc'[v] = wpc[v] /\ wentry'[v] = wentry[v]
      /\ UNCHANGED <<row, disturbed, unread>>
    BY DEF Dequeue, AcknowledgeFails, Nack, Idle, history, IInv, TypeOK
<1>2. \A j \in Jobs : AtWork(j)' <=> AtWork(j)
    BY <1>1, OthersAtWork DEF AtWork
<1>3. \A j \in Jobs : (Kept(j)' <=> Kept(j)) /\ (Listed(j)' <=> Listed(j))
    BY InPlace DEF AcknowledgeFails, Nack
<1> QED BY <1>1, <1>2, <1>3, StatusSame

\* The entry that is with a worker is kept until it is acknowledged.
LEMMA HasEntry ==
    ASSUME IInv, NEW w \in Workers, wpc[w] # "idle"
    PROVE  /\ Listed(Job(wentry[w])) /\ row[Job(wentry[w])] # "absent"
           /\ Calm(Job(wentry[w])) => Kept(Job(wentry[w]))
<1>1. wentry[w] \in Ids /\ Job(wentry[w]) \in Jobs /\ Home[w] \in Instances /\ wentry[w] # 0
    BY Typed DEF IInv
<1>2. Calm(Job(wentry[w])) => stream[wentry[w]].place = "pending"
    BY <1>1 DEF IInv, Worked, Held
<1> QED BY <1>1, <1>2 DEF Kept, Listed, Present, IInv, Shape

\* Of an undisturbed job no other worker has an entry.
LEMMA AtWorkAlone ==
    ASSUME IInv, NEW w \in Workers, wpc[w] # "idle", Calm(Job(wentry[w]))
    PROVE  AtWork(Job(wentry[w])) <=> wpc[w] \in {"passed", "running"}
BY OneWorker DEF AtWork

\* A worker goes from one place to another with its entry.
LEMMA WorkerMoves ==
    ASSUME IInv, NEW w \in Workers, wpc[w] # "idle", NEW place, place # "idle",
           wpc' = [wpc EXCEPT ![w] = place], UNCHANGED <<stream, wentry>>
    PROVE  \A j \in Jobs \ disturbed :
               AtWork(j)' <=> IF j = Job(wentry[w]) THEN place \in {"passed", "running"}
                              ELSE AtWork(j)
<1>1. wpc'[w] = place /\ \A v \in Workers \ {w} : wpc'[v] = wpc[v]
    BY DEF IInv, TypeOK
<1>2. \A e : Job(e)' = Job(e)
    BY DEF Job
<1>3. ASSUME NEW j \in Jobs \ disturbed
      PROVE  AtWork(j)' <=> IF j = Job(wentry[w]) THEN place \in {"passed", "running"}
                            ELSE AtWork(j)
    <2>1. CASE j = Job(wentry[w])
        <3>1. \A v \in Workers \ {w} : wpc[v] # "idle" => Job(wentry[v]) # j
            BY <1>3, <2>1, OneWorker DEF Calm
        <3> QED BY <1>1, <1>2, <2>1, <3>1 DEF AtWork
    <2>2. CASE j # Job(wentry[w])
        BY <1>1, <1>2, <2>2 DEF AtWork
    <2> QED BY <2>1, <2>2
<1> QED BY <1>3

\* An acknowledged job whose row says that it runs is one that was not recorded.
LEMMA AcknowledgeUnseen ==
    ASSUME IInv, Smooth, Accounted, [Next]_vars, NEW w \in Workers, Acknowledge(w)
    PROVE  Status' = Status \/ Service!Disrupt
<1>0. stream \in Seq(Entries) /\ Ids = DOMAIN stream /\ Ids' = DOMAIN stream'
    BY Typed DEF IInv, Ids
<1>1. PICK j \in Jobs : j = Job(wentry[w]) /\ wpc[w] = "ran" /\ Home[w] \in Instances
                        /\ up[Home[w]] = "up"
    BY Typed DEF IInv, Acknowledge
<1>2. PICK e \in Ids \cup {0} : e = active[Home[w]][j] /\ (e # 0 => Job(e) = j)
    BY <1>1 DEF IInv, TypeOK, Shape
<1>3. /\ stream' = IF e = 0 THEN stream ELSE Delete(stream, e)
      /\ UNCHANGED <<row, disturbed, unread, faults>>
      /\ wpc'[w] = "idle" /\ \A v \in Workers \ {w} : wpc'[v] = wpc[v] /\ wentry'[v] = wentry[v]
    BY <1>1, <1>2 DEF Acknowledge, Idle, history, IInv, TypeOK
<1>4. \A l \in Jobs : AtWork(l)' <=> AtWork(l)
    BY <1>1, <1>3, OthersAtWork DEF AtWork
<1>5. Ids' = Ids /\ \A f \in Ids : /\ stream'[f].job = stream[f].job
                                   /\ stream[f].job # j => stream'[f].place = stream[f].place
    <2>1. CASE e = 0
        BY <1>0, <1>3, <2>1
    <2>2. CASE e # 0
        <3>1. /\ DOMAIN Delete(stream, e) = DOMAIN stream
              /\ Delete(stream, e)[e].job = stream[e].job
              /\ \A f \in DOMAIN stream : f # e => Delete(stream, e)[f] = stream[f]
            BY <1>0, <2>2, DeleteEffect
        <3> QED BY <1>0, <1>2, <1>3, <2>2, <3>1 DEF Job
    <2> QED BY <2>1, <2>2
<1>6. /\ \A l \in Jobs : Listed(l)' <=> Listed(l)
      /\ \A l \in Jobs \ {j} : Kept(l)' <=> Kept(l)
    BY <1>5 DEF Kept, Listed, Job, Present
<1>7. \A l \in Jobs \ {j} : Status'[l] = Status[l]
    BY <1>3, <1>4, <1>6 DEF Status
<1>8. CASE Exempt(j) \/ row[j] # "running"
    <2>1. Status'[j] = Status[j]
        BY <1>3, <1>4, <1>6, <1>8 DEF Status, Exempt
    <2> QED BY <1>7, <2>1 DEF Status
<1>9. CASE ~Exempt(j) /\ row[j] = "running"
    <2>1. j \in abandoned
        BY <1>1, <1>9 DEF IInv, Recorded, Calm, Exempt
    <2>2. faults' > 0
        BY <1>3, <2>1, FaultsPositive DEF Accounted
    <2>3. ~AtWork(j) /\ Listed(j) /\ Kept(j)
        BY <1>1, <1>9, AtWorkAlone, HasEntry DEF Exempt, Calm
    <2>4. Status[j] = "accepted" /\ Status'[j] \in {"accepted", "abandoned"}
        BY <1>3, <1>4, <1>6, <1>9, <2>3 DEF Status, Exempt
    <2>5. Status' \in [Jobs -> Service!Statuses]
        BY StatusTyped
    <2> QED BY <1>7, <2>2, <2>4, <2>5 DEF Service!Disrupt, Service!Setback
<1> QED BY <1>8, <1>9

\* The guard starts a job, again if it was suspended, or finds it done.
LEMMA GuardStarts ==
    ASSUME IInv, Smooth, [Next]_vars, NEW w \in Workers, Guard(w) \/ GuardUnread(w)
    PROVE  \/ Status' = Status
           \/ \E j \in Jobs : Service!Start(j) \/ Service!StartAgain(j)
           \/ Service!Disrupt
<1>1. PICK j \in Jobs : j = Job(wentry[w]) /\ row[j] # "absent"
    BY Typed DEF IInv, Guard, GuardUnread, Shape
<1>2. PICK place \in {"ran", "passed"} :
          /\ place = "passed" \/ row[j] \in Terminal
          /\ wpc[w] = "taken" /\ wpc' = [wpc EXCEPT ![w] = place]
          /\ UNCHANGED <<stream, wentry, row, disturbed>>
          /\ \/ UNCHANGED <<unread, faults>> /\ (place = "passed" => row[j] \notin Terminal)
             \/ /\ faults' > 0
                /\ unread' = IF row[j] \in Terminal THEN unread \cup {j} ELSE unread
    <2>1. CASE Guard(w)
        <3>1. PICK place \in {"ran", "passed"} :
                  place = IF row[j] \in Terminal THEN "ran" ELSE "passed"
            OBVIOUS
        <3> QED BY <1>1, <2>1, <3>1 DEF Guard, Goto, queueVars, history
    <2>2. CASE GuardUnread(w)
        <3>1. faults' > 0
            <4>1. Home[w] \in Instances
                BY RedisAssumption
            <4>2. up[Home[w]] = "closing" => faults # 0
                BY <4>1 DEF Smooth
            <4> QED BY <2>2, <4>2, FaultsPositive DEF GuardUnread, FaultAt
        <3> QED BY <1>1, <2>2, <3>1 DEF GuardUnread, Goto, queueVars
    <2> QED BY <2>1, <2>2
<1>3. \A l \in Jobs \ disturbed :
          AtWork(l)' <=> IF l = j THEN place \in {"passed", "running"} ELSE AtWork(l)
    BY <1>1, <1>2, WorkerMoves
<1>4. j \notin disturbed => ~AtWork(j) /\ Kept(j)
    BY <1>1, <1>2, AtWorkAlone, HasEntry DEF Calm
<1>5. \A l \in Jobs : (Kept(l)' <=> Kept(l)) /\ (Listed(l)' <=> Listed(l))
    BY <1>2, InPlace
<1>l. Listed(j)
    BY <1>1, <1>2, HasEntry
<1>6. \A l \in Jobs \ {j} : Status'[l] = Status[l]
    BY <1>2, <1>3, <1>5 DEF Status
<1>7. Status' \in [Jobs -> Service!Statuses]
    BY StatusTyped
<1>8. CASE Exempt(j) \/ place = "ran"
    <2>1. CASE Exempt(j)
        <3>1. Status'[j] = Status[j]
            BY <1>2, <2>1 DEF Status, Exempt
        <3> QED BY <1>6, <3>1 DEF Status
    <2>2. CASE ~Exempt(j) /\ unread' = unread
        <3>1. Status'[j] = Status[j]
            BY <1>2, <1>3, <1>4, <1>5, <1>8, <2>2 DEF Status, Exempt
        <3> QED BY <1>6, <3>1 DEF Status
    <2>3. CASE ~Exempt(j) /\ unread' # unread
        <3>1. Status'[j] = "exempt" /\ faults' > 0
            BY <1>2, <2>3 DEF Status
        <3> QED BY <1>6, <1>7, <3>1 DEF Service!Disrupt, Service!Setback
    <2> QED BY <2>1, <2>2, <2>3
<1>9. CASE ~Exempt(j) /\ place = "passed" /\ row[j] \in Terminal
    <2>1. Status'[j] = "exempt" /\ faults' > 0
        BY <1>2, <1>9 DEF Status
    <2> QED BY <1>6, <1>7, <2>1 DEF Service!Disrupt, Service!Setback
<1>10. CASE ~Exempt(j) /\ place = "passed" /\ row[j] \notin Terminal
    <2>1. row[j] \in {"running", "waiting"} /\ unread' = unread
        BY <1>1, <1>2, <1>10 DEF IInv, TypeOK, Terminal
    <2>2. Status' = [Status EXCEPT ![j] = "running"]
        <3>1. Status'[j] = "running"
            BY <1>2, <1>3, <1>10, <2>1 DEF Status, Exempt
        <3> QED BY <1>6, <3>1 DEF Status
    <2>3. CASE row[j] = "running"
        <3>1. Status[j] = "accepted"
            BY <1>4, <1>l, <1>10, <2>3 DEF Status, Exempt
        <3>2. CASE faults' = faults
            BY <2>2, <3>1, <3>2 DEF Service!Start, Service!Move
        <3>3. CASE faults' > 0
            BY <1>6, <1>7, <2>2, <3>1, <3>3 DEF Service!Disrupt, Service!Setback, Status
        <3> QED BY <3>2, <3>3, FaultsPositive
    <2>4. CASE row[j] = "waiting"
        <3>1. Status[j] = "suspended"
            BY <1>4, <1>l, <1>10, <2>4 DEF Status, Exempt
        <3>2. faults # 0
            BY <1>1, <1>2, <1>10, <2>4 DEF Smooth, Calm, Exempt
        <3>3. faults > 0 /\ faults' > 0
            BY <3>2, FaultsPositive
        <3> QED BY <2>2, <3>1, <3>3 DEF Service!StartAgain, Service!Move
    <2> QED BY <2>1, <2>3, <2>4
<1> QED BY <1>2, <1>8, <1>9, <1>10

\* A job that gets no permit, or whose outcome is not stored, is back in its
\* entry.
LEMMA UnrecordedDisrupts ==
    ASSUME IInv, Smooth, [Next]_vars, NEW w \in Workers, Refuse(w) \/ StoreFails(w)
    PROVE  Service!Disrupt
<1>1. PICK j \in Jobs : j = Job(wentry[w])
    BY Typed DEF IInv, Refuse, StoreFails
<1>2. PICK place \in {"ran"} :
          /\ wpc[w] \in {"passed", "running"} /\ wpc' = [wpc EXCEPT ![w] = place]
          /\ UNCHANGED <<stream, wentry, row, disturbed, unread>>
    BY DEF Refuse, StoreFails, EndUnrecorded, Goto, queueVars
<1>3. faults' > 0
    <2>1. Home[w] \in Instances
        BY RedisAssumption
    <2>2. up[Home[w]] = "closing" => faults # 0
        BY <2>1 DEF Smooth
    <2> QED BY <2>2, FaultsPositive DEF Refuse, StoreFails, EndUnrecorded, FaultAt
<1>4. \A l \in Jobs \ disturbed :
          AtWork(l)' <=> IF l = j THEN place \in {"passed", "running"} ELSE AtWork(l)
    BY <1>1, <1>2, WorkerMoves
<1>5. \A l \in Jobs : (Kept(l)' <=> Kept(l)) /\ (Listed(l)' <=> Listed(l))
    BY <1>2, InPlace
<1>6. \A l \in Jobs \ {j} : Status'[l] = Status[l]
    BY <1>2, <1>4, <1>5 DEF Status
<1>7. CASE Exempt(j)
    <2>1. Status'[j] = Status[j]
        BY <1>2, <1>7 DEF Status, Exempt
    <2> QED BY <1>3, <1>6, <2>1, StatusTyped DEF Service!Disrupt
<1>8. CASE ~Exempt(j)
    <2>1. Status[j] = "running"
        BY <1>1, <1>2, <1>8 DEF Status, AtWork, Exempt
    <2>2. row[j] # "settled" /\ row[j] # "absent" /\ Kept(j) /\ Listed(j)
        BY <1>1, <1>2, <1>8, HasEntry DEF IInv, Recorded, Calm, Exempt
    <2>3. Status'[j] \in {"accepted", "suspended", "abandoned"}
        BY <1>2, <1>4, <1>5, <1>8, <2>2 DEF Status, Exempt
    <2> QED BY <1>3, <1>6, <2>1, <2>3, StatusTyped DEF Service!Disrupt, Service!Setback
<1> QED BY <1>7, <1>8

\* A job that passed the guard is at work, registered or not: the register
\* refuses no undisturbed one.
LEMMA RegisterUnseen ==
    ASSUME IInv, [Next]_vars, NEW w \in Workers, Register(w)
    PROVE  Status' = Status
<1>1. PICK j \in Jobs : j = Job(wentry[w])
    BY Typed DEF IInv, Register
<1>2. PICK place \in {"ran", "running"} :
          /\ place = "ran" => RunningAt(Home[w], j)
          /\ wpc[w] = "passed" /\ wpc' = [wpc EXCEPT ![w] = place]
          /\ UNCHANGED <<stream, wentry, row, disturbed, unread, faults>>
    BY <1>1 DEF Register, Goto, queueVars, history
<1>3. \A l \in Jobs \ disturbed :
          AtWork(l)' <=> IF l = j THEN place \in {"passed", "running"} ELSE AtWork(l)
    BY <1>1, <1>2, WorkerMoves
<1>4. j \notin disturbed => AtWork(j) /\ ~RunningAt(Home[w], j)
    <2>1. AtWork(j)
        BY <1>1, <1>2 DEF AtWork
    <2>2. ASSUME j \notin disturbed, NEW v \in Workers, wpc[v] = "running", Job(wentry[v]) = j
          PROVE  FALSE
        <3>1. v = w
            BY <1>1, <1>2, <2>2, OneWorker DEF Calm
        <3> QED BY <1>2, <2>2, <3>1
    <2> QED BY <2>1, <2>2 DEF RunningAt, Working
<1>5. \A l \in Jobs : l \notin disturbed => (AtWork(l)' <=> AtWork(l))
    BY <1>2, <1>3, <1>4
<1> QED BY <1>2, <1>5, InPlace, StatusSame DEF Exempt

\* A run ends: the job is completed, or suspended.
LEMMA EndingCompletes ==
    ASSUME IInv, [Next]_vars, NEW w \in Workers, Finish(w) \/ Suspend(w)
    PROVE  \/ Status' = Status
           \/ \E j \in Jobs : Service!Complete(j) \/ Service!Suspend(j)
<1>1. PICK j \in Jobs : j = Job(wentry[w])
    BY Typed DEF IInv, Finish, Suspend
<1>2. PICK place \in {"ran"} :
          /\ wpc[w] = "running" /\ wpc' = [wpc EXCEPT ![w] = place]
          /\ UNCHANGED <<stream, wentry, disturbed, unread, faults>>
    BY DEF Finish, Suspend, Goto, queueVars, history
<1>3. PICK x \in {"settled", "waiting"} : row' = [row EXCEPT ![j] = x]
    BY <1>1 DEF Finish, Suspend
<1>a. \A l \in Jobs \ disturbed :
          AtWork(l)' <=> IF l = j THEN place \in {"passed", "running"} ELSE AtWork(l)
    BY <1>1, <1>2, WorkerMoves
<1>4. \A l \in Jobs \ disturbed : AtWork(l)' <=> l # j /\ AtWork(l)
    BY <1>a
<1>5. row'[j] = x /\ \A l \in Jobs \ {j} : row'[l] = row[l]
    BY <1>3 DEF IInv, TypeOK
<1>k. \A l \in Jobs : (Kept(l)' <=> Kept(l)) /\ (Listed(l)' <=> Listed(l))
    BY <1>2, InPlace
<1>o. \A l \in Jobs \ {j} : Status'[l] = Status[l]
    BY <1>2, <1>4, <1>5, <1>k DEF Status
<1>6. CASE Exempt(j)
    <2>1. Status'[j] = Status[j]
        BY <1>2, <1>6 DEF Status, Exempt
    <2> QED BY <1>o, <2>1 DEF Status
<1>7. CASE ~Exempt(j)
    <2>1. Status[j] = "running"
        BY <1>1, <1>2, <1>7 DEF Status, AtWork, Exempt
    <2>2. Listed(j)
        BY <1>1, <1>2, HasEntry
    <2>3. Status'[j] = IF x = "settled" THEN "completed" ELSE "suspended"
        BY <1>2, <1>4, <1>5, <1>7, <1>k, <2>2 DEF Status, Exempt
    <2>4. Status' = [Status EXCEPT ![j] = IF x = "settled" THEN "completed" ELSE "suspended"]
        BY <1>o, <2>3 DEF Status
    <2> QED BY <1>2, <2>1, <2>4 DEF Service!Complete, Service!Suspend, Service!Move
<1> QED BY <1>6, <1>7

\* Who is at work is the same after a job is submitted, and it is nobody with
\* that job.
LEMMA SubmitWork ==
    ASSUME IInv, [Next]_vars, NEW j \in Jobs, row[j] = "absent", UNCHANGED <<wpc, wentry>>
    PROVE  ~AtWork(j) /\ ~Listed(j) /\ \A l \in Jobs : AtWork(l)' <=> AtWork(l)
<1>1. ~Listed(j)
    BY DEF IInv, Shape, Listed
<1>2. \A v \in Workers : wpc[v] # "idle" => Job(wentry[v]) # j
    BY Typed DEF IInv, Shape
<1>3. ~AtWork(j)
    BY <1>2 DEF AtWork
<1> QED BY <1>1, <1>3, WorkersStand

LEMMA SubmitAccepts ==
    ASSUME IInv, [Next]_vars, NEW j \in Jobs, Submit(j)
    PROVE  Status' = Status \/ Service!Accept(j) \/ Service!Disrupt
<1>1. /\ row[j] = "absent" /\ row' = [row EXCEPT ![j] = "running"]
      /\ UNCHANGED <<wpc, wentry, unread>>
      /\ \/ UNCHANGED <<disturbed, faults>>
         \/ disturbed' = disturbed \cup {j} /\ Fault
    BY DEF Submit, Add, AddOnce, AddTwice, workVars
<1>2. ~AtWork(j) /\ ~Listed(j) /\ \A l \in Jobs : AtWork(l)' <=> AtWork(l)
    BY <1>1, SubmitWork
<1>3. row'[j] = "running" /\ \A l \in Jobs \ {j} : row'[l] = row[l]
    BY <1>1 DEF IInv, TypeOK
<1>4. /\ \A l \in Jobs \ {j} : (Kept(l)' <=> Kept(l)) /\ (Listed(l)' <=> Listed(l))
      /\ Kept(j)' /\ Listed(j)'
    BY OthersKept
<1>5. \A l \in Jobs \ {j} : Status'[l] = Status[l]
    BY <1>1, <1>2, <1>3, <1>4 DEF Status
<1>6. CASE Exempt(j)
    <2>1. Status'[j] = Status[j]
        BY <1>1, <1>6 DEF Status, Exempt
    <2> QED BY <1>5, <2>1 DEF Status
<1>7. CASE ~Exempt(j) /\ UNCHANGED <<disturbed, faults>>
    <2>1. Status[j] = "none" /\ Status'[j] = "accepted"
        BY <1>1, <1>2, <1>3, <1>4, <1>7 DEF Status, Exempt
    <2>2. Status' = [Status EXCEPT ![j] = "accepted"]
        BY <1>5, <2>1 DEF Status
    <2> QED BY <1>7, <2>1, <2>2 DEF Service!Accept, Service!Move
<1>8. CASE ~Exempt(j) /\ disturbed' = disturbed \cup {j} /\ Fault
    <2>1. Status'[j] = "exempt" /\ faults' > 0
        BY <1>8, FaultsPositive DEF Status
    <2> QED BY <1>5, <2>1, StatusTyped DEF Service!Disrupt, Service!Setback
<1> QED BY <1>1, <1>6, <1>7, <1>8

\* A job that is not added is not accepted.
LEMMA SubmitFailsUnseen ==
    ASSUME IInv, [Next]_vars, NEW j \in Jobs, SubmitFails(j)
    PROVE  Status' = Status
<1>1. /\ row[j] = "absent" /\ row' = [row EXCEPT ![j] = "running"]
      /\ UNCHANGED <<stream, wpc, wentry, disturbed, unread>>
    BY DEF SubmitFails, queueVars, workVars
<1>2. ~AtWork(j) /\ ~Listed(j) /\ \A l \in Jobs : AtWork(l)' <=> AtWork(l)
    BY <1>1, SubmitWork
<1>3. \A l \in Jobs \ {j} : row'[l] = row[l]
    BY <1>1 DEF IInv, TypeOK
<1>4. \A l \in Jobs : (Kept(l)' <=> Kept(l)) /\ (Listed(l)' <=> Listed(l))
    BY <1>1, InPlace
<1> QED BY <1>1, <1>2, <1>3, <1>4 DEF Status

\* A job is promised nothing from now on.
LEMMA Exempting ==
    ASSUME IInv, [Next]_vars, UNCHANGED <<row, wpc, wentry, unread>>,
           NEW d \in Jobs, disturbed' = disturbed \cup {d},
           \A j \in Jobs \ {d} : (Kept(j)' <=> Kept(j)) /\ (Listed(j)' <=> Listed(j))
    PROVE  /\ \A j \in Jobs : Status'[j] = IF j = d THEN "exempt" ELSE Status[j]
           /\ faults' > 0 => Service!Disrupt
<1>1. \A j \in Jobs : Status'[j] = IF j = d THEN "exempt" ELSE Status[j]
    BY WorkersStand DEF Status
<1> QED BY <1>1, StatusTyped DEF Service!Disrupt, Service!Setback

\* Resuming an execution whose job is at work is possible only after a failure.
LEMMA ResumeExempts ==
    ASSUME IInv, Smooth, Accounted, [Next]_vars, NEW j \in Jobs, Resume(j)
    PROVE  Status' = Status \/ Service!Resume(j) \/ Service!Disrupt
<1>1. /\ row[j] = "waiting" /\ j \notin disturbed /\ disturbed' = disturbed \cup {j}
      /\ UNCHANGED <<row, wpc, wentry, unread>>
    BY DEF Resume, workVars
<1>2. /\ \A l \in Jobs : Status'[l] = IF l = j THEN "exempt" ELSE Status[l]
      /\ faults' > 0 => Service!Disrupt
    BY <1>1, OthersKept, Exempting
<1>3. CASE faults' > 0
    BY <1>2, <1>3
<1>4. CASE faults' = faults /\ j \in unread
    BY <1>2, <1>4 DEF Status
<1>5. CASE faults' = faults /\ AtWork(j)
    <2>1. faults # 0
        BY <1>1, <1>5 DEF AtWork, Smooth, Calm
    <2> QED BY <1>2, <2>1, FaultsPositive
<1>6. CASE faults' = faults /\ j \notin unread /\ ~AtWork(j)
    <2>1. Status[j] = "suspended"
        BY <1>1, <1>6 DEF Status, Accounted
    <2>2. Status' = [Status EXCEPT ![j] = "exempt"]
        BY <1>2 DEF Status
    <2> QED BY <1>6, <2>1, <2>2 DEF Service!Resume, Service!Move
<1> QED BY <1>3, <1>4, <1>5, <1>6, FaultsPositive

LEMMA StallDisrupts ==
    ASSUME IInv, [Next]_vars, NEW e \in Ids, Stall(e)
    PROVE  Service!Disrupt
<1>1. disturbed' = disturbed \cup {Job(e)} /\ UNCHANGED <<row, wpc, wentry, unread>> /\ Fault
    BY DEF Stall, workVars
<1>2. Job(e) \in Jobs
    BY Typed DEF IInv
<1> QED BY <1>1, <1>2, InPlace, Exempting, FaultsPositive

\* A reaper puts one entry in the place of another, or two.
LEMMA RecoverReplaces ==
    ASSUME IInv, [Next]_vars, NEW i \in Instances, Recover(i)
    PROVE  Status' = Status \/ Service!Disrupt
<1>1. PICK e \in claimed[i] :
          /\ \/ AddOnce(Delete(stream, e), Job(e)) /\ UNCHANGED <<disturbed, faults>>
             \/ AddTwice(Delete(stream, e), Job(e)) /\ Fault
                /\ disturbed' = disturbed \cup {Job(e)}
          /\ UNCHANGED <<row, wpc, wentry, unread>>
    BY DEF Recover, Add, AddOnce, AddTwice, workVars
<1>2. PICK d \in Jobs : d = Job(e) /\ e \in Ids
    BY Typed DEF IInv, TypeOK
<1>3. /\ \A j \in Jobs \ {d} : (Kept(j)' <=> Kept(j)) /\ (Listed(j)' <=> Listed(j))
      /\ Kept(d)' /\ Listed(d)'
    BY <1>1, <1>2, OthersKept
<1>4. Calm(d) => Kept(d) /\ Listed(d)
    BY <1>2 DEF IInv, Reaped, Kept, Listed, Present
<1>5. CASE UNCHANGED disturbed
    BY <1>1, <1>3, <1>4, <1>5, WorkersStand, StatusSame DEF Exempt, Calm
<1>6. CASE Fault /\ disturbed' = disturbed \cup {d}
    BY <1>1, <1>3, <1>6, Exempting, FaultsPositive
<1> QED BY <1>1, <1>2, <1>5, <1>6

\* The jobs of a process that ends are no longer at work.
LEMMA DieDisrupts ==
    ASSUME IInv, Smooth, [Next]_vars, NEW i \in Instances, Die(i)
    PROVE  Service!Disrupt
<1>1. /\ wpc' = [w \in Workers |-> IF Home[w] = i THEN "idle" ELSE wpc[w]]
      /\ wentry' = [w \in Workers |-> IF Home[w] = i THEN 0 ELSE wentry[w]]
      /\ UNCHANGED <<stream, row, disturbed, unread>>
      /\ Fault \/ (up[i] = "closing" /\ UNCHANGED faults)
    BY DEF Die
<1>2. faults' > 0
    <2>1. up[i] = "closing" => faults # 0
        BY DEF Smooth
    <2> QED BY <1>1, <2>1, FaultsPositive
<1>3. \A j \in Jobs : AtWork(j)' => AtWork(j)
    BY <1>1 DEF AtWork, Job
<1>4. \A j \in Jobs : AtWork(j) /\ ~Exempt(j) =>
          row[j] \notin {"absent", "settled"} /\ Listed(j) /\ Kept(j)
    <2> SUFFICES ASSUME NEW w \in Workers, wpc[w] \in {"passed", "running"},
                        ~Exempt(Job(wentry[w]))
                 PROVE  /\ row[Job(wentry[w])] \notin {"absent", "settled"}
                        /\ Listed(Job(wentry[w])) /\ Kept(Job(wentry[w]))
        BY DEF AtWork
    <2>1. row[Job(wentry[w])] # "settled"
        BY DEF IInv, Recorded, Calm, Exempt
    <2> QED BY <2>1, HasEntry DEF Calm, Exempt
<1>k. \A j \in Jobs : (Kept(j)' <=> Kept(j)) /\ (Listed(j)' <=> Listed(j))
    BY <1>1, InPlace
<1>5. ASSUME NEW j \in Jobs
      PROVE  Status'[j] = Status[j] \/ Service!Setback(Status[j], Status'[j])
    <2>1. CASE Exempt(j) \/ (AtWork(j)' <=> AtWork(j))
        BY <1>1, <1>k, <2>1 DEF Status, Exempt
    <2>2. CASE ~Exempt(j) /\ AtWork(j) /\ ~AtWork(j)'
        <3>1. Status[j] = "running"
            BY <2>2 DEF Status, Exempt
        <3>2. row'[j] \in {"running", "waiting", "orphaned"} /\ Listed(j)' /\ Kept(j)'
            BY <1>1, <1>4, <1>k, <2>2 DEF IInv, TypeOK, Terminal
        <3>3. Status'[j] \in {"accepted", "suspended", "abandoned"}
            BY <1>1, <2>2, <3>2 DEF Status, Exempt
        <3> QED BY <3>1, <3>3 DEF Service!Setback
    <2> QED BY <1>3, <2>1, <2>2
<1> QED BY <1>2, <1>5, StatusTyped DEF Service!Disrupt

\* An instance that starts abandons what waits to be run.
LEMMA RestartDisrupts ==
    ASSUME IInv, Smooth, [Next]_vars, NEW i \in Instances, Restart(i)
    PROVE  Service!Disrupt
<1>1. /\ row' = [j \in Jobs |-> IF row[j] = "running" THEN "orphaned" ELSE row[j]]
      /\ UNCHANGED <<stream, wpc, wentry, disturbed, unread, faults>> /\ up[i] = "down"
    BY DEF Restart, queueVars, workVars, history
<1>2. faults' > 0
    <2>1. faults # 0
        BY <1>1 DEF Smooth
    <2> QED BY <2>1, FaultsPositive
<1>3. \A j \in Jobs : /\ AtWork(j)' <=> AtWork(j)
                      /\ Kept(j)' <=> Kept(j)
                      /\ Listed(j)' <=> Listed(j)
    BY <1>1, WorkersStand, InPlace
<1>4. ASSUME NEW j \in Jobs
      PROVE  Status'[j] = Status[j] \/ Service!Setback(Status[j], Status'[j])
    <2>1. CASE Exempt(j) \/ AtWork(j) \/ ~Listed(j) \/ row[j] # "running"
        BY <1>1, <1>3, <2>1 DEF Status, Exempt
    <2>2. CASE ~Exempt(j) /\ ~AtWork(j) /\ Listed(j) /\ row[j] = "running"
        <3>1. row'[j] = "orphaned"
            BY <1>1, <2>2
        <3>2. Status[j] \in {"accepted", "abandoned"} /\ Status'[j] = "abandoned"
            BY <1>1, <1>3, <2>2, <3>1 DEF Status, Exempt
        <3> QED BY <3>2 DEF Service!Setback
    <2> QED BY <2>1, <2>2
<1> QED BY <1>2, <1>4, StatusTyped DEF Service!Disrupt

LEMMA StepImplements ==
    ASSUME IInv, Smooth, Accounted, [Next]_vars
    PROVE  Service!Next \/ UNCHANGED <<Status, faults > 0>>
<1>1. ASSUME NEW j \in Jobs, Submit(j) \/ SubmitFails(j) \/ Resume(j)
      PROVE  Service!Next \/ UNCHANGED <<Status, faults > 0>>
    BY <1>1, SubmitAccepts, SubmitFailsUnseen, ResumeExempts, NothingSeen DEF Service!Next
<1>2. ASSUME NEW w \in Workers, Dequeue(w) \/ AcknowledgeFails(w) \/ Nack(w)
      PROVE  Service!Next \/ UNCHANGED <<Status, faults > 0>>
    BY <1>2, HandlingUnseen, NothingSeen DEF Service!Next
<1>3. ASSUME NEW w \in Workers, Acknowledge(w)
      PROVE  Service!Next \/ UNCHANGED <<Status, faults > 0>>
    BY <1>3, AcknowledgeUnseen, NothingSeen DEF Service!Next
<1>4. ASSUME NEW w \in Workers, Guard(w) \/ GuardUnread(w)
      PROVE  Service!Next \/ UNCHANGED <<Status, faults > 0>>
    BY <1>4, GuardStarts, NothingSeen DEF Service!Next
<1>5. ASSUME NEW w \in Workers, Register(w)
      PROVE  Service!Next \/ UNCHANGED <<Status, faults > 0>>
    BY <1>5, RegisterUnseen, NothingSeen DEF Service!Next
<1>6. ASSUME NEW w \in Workers, Finish(w) \/ Suspend(w)
      PROVE  Service!Next \/ UNCHANGED <<Status, faults > 0>>
    BY <1>6, EndingCompletes, NothingSeen DEF Service!Next
<1>a. ASSUME NEW w \in Workers, Refuse(w) \/ StoreFails(w)
      PROVE  Service!Next
    BY <1>a, UnrecordedDisrupts DEF Service!Next
<1>7. ASSUME UNCHANGED <<row, disturbed, unread, wpc, wentry>>,
             \/ \E w \in Workers : DequeueLost(w)
             \/ \E e \in Ids : GoIdle(e)
             \/ \E i \in Instances : Keepalive(i) \/ AutoClaim(i)
             \/ UNCHANGED stream
      PROVE  Service!Next \/ UNCHANGED <<Status, faults > 0>>
    BY <1>7, RedisUnseen, NothingSeen DEF Service!Next
<1>8. CASE \E w \in Workers : DequeueLost(w)
    BY <1>7, <1>8 DEF DequeueLost, workVars
<1>9. CASE \E e \in Ids : GoIdle(e)
    BY <1>7, <1>9 DEF GoIdle, workVars, history
<1>10. CASE \E e \in Ids : Stall(e)
    BY <1>10, StallDisrupts DEF Service!Next
<1>11. CASE \E i \in Instances : Keepalive(i) \/ AutoClaim(i)
    BY <1>7, <1>11 DEF Keepalive, AutoClaim, workVars, history
<1>b. CASE \E i \in Instances : RecoverFails(i) \/ Close(i)
    BY <1>7, <1>b DEF RecoverFails, Close, workVars
<1>c. ASSUME NEW i \in Instances, Recover(i)
      PROVE  Service!Next \/ UNCHANGED <<Status, faults > 0>>
    BY <1>c, RecoverReplaces, NothingSeen DEF Service!Next
<1>12. CASE \E i \in Instances : Die(i) \/ Restart(i)
    BY <1>12, DieDisrupts, RestartDisrupts DEF Service!Next
<1>13. CASE UNCHANGED vars
    BY <1>7, <1>13 DEF vars, queueVars, workVars, history
<1> QED BY <1>1, <1>2, <1>3, <1>4, <1>5, <1>6, <1>a, <1>8, <1>9, <1>10, <1>11, <1>b, <1>c,
           <1>12, <1>13 DEF Next

\* The dispatch over Redis implements JobService with redelivery, for any
\* number of instances and failures: undisturbed, a job that is accepted is run
\* once; a failure may have it run again or abandoned, but not once it is
\* settled or abandoned.  Promised nothing is one that is resumed, added twice,
\* neglected by a stalled instance or let pass by a guard that could not read
\* that it was over; one that is refused or not recorded counts as abandoned
\* once its entry is acknowledged.
THEOREM RedisImplementation == Spec => ImplementsService
<1> DEFINE disrupted == faults > 0
<1>1. Init => Service!Init
    <2> SUFFICES ASSUME Init PROVE Service!Init
        OBVIOUS
    <2>1. \A j \in Jobs : ~AtWork(j)
        BY DEF Init, AtWork
    <2>2. Status = [j \in Jobs |-> "none"]
        BY <2>1 DEF Init, Status, Listed, Ids
    <2>3. (faults > 0) = FALSE
        BY DEF Init
    <2> QED BY <2>2, <2>3 DEF Service!Init
<1>2. IInv /\ Smooth /\ Accounted /\ [Next]_vars => [Service!Next]_<<Status, disrupted>>
    BY StepImplements
<1> HIDE DEF disrupted
<1>3. [][Service!Next]_<<Status, disrupted>> /\ Service!Init => ImplementsService
    BY DEF ImplementsService, Service!Spec, disrupted
<1> QED BY <1>1, <1>2, <1>3, RedisInductive, SmoothHolds, AccountedHolds, PTL DEF Spec
=============================================================================
