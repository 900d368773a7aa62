-------------------------- MODULE ActivationProofs --------------------------
(***************************************************************************)
(* Theorems about Activation: whatever handlers, the loop and pulls do to  *)
(* rows, jobs and index, requests for webhooks are routed right, and what  *)
(* reconciles the index forgets no workflow that stayed as it was.  The    *)
(* heart is the scan by pages, which passes no row that stays as it was.   *)
(***************************************************************************)
EXTENDS Activation, FiniteSetTheorems, WellFoundedInduction, TLAPS

Reqs == [stage : {"free", "set", "read", "stopped", "deleted"},
         wf : Workflows \cup {None}, active : BOOLEAN,
         node : Nodes \cup {None}, version : Nat]
Stages == {"off", "list", "apply", "scan", "refresh", "fill", "prune"}

-----------------------------------------------------------------------------
(***************************************************************************)
(* The inductive invariant: types, of the rest of the variables too, and   *)
(* what is known of a request for a webhook on its way.                    *)
(***************************************************************************)
RowsOK ==
    /\ scene \in Scenes
    /\ row \in [Workflows -> {Absent} \cup Row]
    /\ changes \in 0..scene.changes

JobsOK ==
    jobs \in [Schedules -> {NoJob} \cup
                 [version : 1..scene.changes, ctx : {"server", "request"}]]

\* Of a handler.
ReqOK(r) ==
    /\ req[r] \in Reqs
    /\ req[r].stage # "free" => req[r].wf \in Workflows
    /\ req[r].stage = "read" => req[r].version \in 1..scene.changes

ReqsOK ==
    /\ req = [r \in Requests |-> req[r]]
    /\ \A r \in Requests : ReqOK(r)

\* Of what the loop or a pull is at.
Sound(s) ==
    /\ s = [stage |-> s.stage, desired |-> s.desired, cursor |-> s.cursor,
            todo |-> s.todo, now |-> s.now, steady |-> s.steady]
    /\ s.stage \in Stages
    /\ s.cursor \in Nat
    /\ DOMAIN s.desired \subseteq IF s.stage = "apply" THEN Schedules ELSE Workflows
    /\ s.stage = "apply" => \A x \in DOMAIN s.desired : s.desired[x] \in 1..scene.changes
    /\ s.stage = "fill" => s.now \in DOMAIN s.desired
    /\ s.stage \in {"refresh", "fill"} => s.todo \subseteq DOMAIN s.desired
    /\ s.todo \subseteq Workflows
    /\ s.steady \subseteq Workflows

SyncOK ==
    /\ sync = [a \in Actors |-> sync[a]]
    /\ \A a \in Actors : Sound(sync[a])

IndexOK == index \in [Paths -> Workflows \cup {None}]

AskOK ==
    /\ ask \in [stage : {"none", "validate", "scan", "answered"},
                path : Paths \cup {None}, hit : Workflows \cup {None}, cursor : Nat,
                steady : SUBSET Workflows, offered : SUBSET Workflows]
    /\ ask.steady \subseteq ask.offered
    /\ ask.path = None => ask.steady = {} /\ ask.stage = "none"
    /\ ask.path # None => ask.stage # "none"

\* Whoever counts as steady offers the path now, and whoever offers it now is
\* known to have done so.
Known ==
    /\ \A w \in ask.steady : Offers(row[w], ask.path)
    /\ ask.path # None => \A w \in Workflows : Offers(row[w], ask.path) => w \in ask.offered

\* The scan has not passed a steady workflow.
Ahead ==
    /\ ask.stage = "validate" => ask.hit # None /\ ask.cursor = 0
    /\ ask.stage = "scan" =>
          /\ ask.hit = None
          /\ \A w \in ask.steady : ask.cursor = 0 \/ row[w].changed < ask.cursor

Asked == AskOK /\ Known /\ Ahead /\ RoutedRight

IInv == RowsOK /\ JobsOK /\ ReqsOK /\ SyncOK /\ IndexOK /\ pulls \in 0..scene.pulls /\ Asked

-----------------------------------------------------------------------------
\* A set of natural numbers has a least member.
LEMMA Least ==
    ASSUME NEW S \in SUBSET Nat, S # {}
    PROVE  \E m \in S : \A n \in S : m <= n
<1> DEFINE R == {ss \in Nat \X Nat : ss[1] < ss[2]}
<1>1. IsWellFoundedOn(R, Nat)
    BY NatLessThanWellFounded DEF OpToRel
<1> HIDE DEF R
<1>2. PICK m \in S : \A n \in S : ~(<<n, m>> \in R)
    BY <1>1, WFMin
<1>3. \A n \in S : ~(n < m)
    BY <1>2 DEF R
<1> QED BY <1>3

\* One with an upper bound has a greatest.
LEMMA Greatest ==
    ASSUME NEW S \in SUBSET Nat, S # {}, NEW b \in Nat, \A n \in S : n <= b
    PROVE  \E m \in S : \A n \in S : n <= m
<1> DEFINE T == {b - n : n \in S}
<1>0. \A n \in S : n \in Nat /\ b - n \in Nat
    OBVIOUS
<1>1. T \in SUBSET Nat /\ T # {}
    <2>1. T \subseteq Nat
        BY <1>0
    <2>2. PICK n \in S : TRUE
        OBVIOUS
    <2>3. b - n \in T
        BY <2>2
    <2> QED BY <2>1, <2>3
<1>2. PICK t \in T : \A u \in T : t <= u
    BY <1>1, Least
<1>3. PICK m \in S : t = b - m
    BY <1>2
<1>4. \A n \in S : b - m <= b - n
    BY <1>2, <1>3
<1> QED BY <1>0, <1>3, <1>4

LEMMA SceneTyped ==
    ASSUME scene \in Scenes
    PROVE  /\ scene.changes \in Nat /\ scene.pulls \in Nat
           /\ scene.contents \subseteq Contents /\ scene.requests \subseteq Requests
BY ActivationAssumption

\* What a page leaves of the rows comes after its last one.
LEMMA CursorPasses ==
    ASSUME RowsOK, NEW cursor \in Nat, ~IsLast(cursor)
    PROVE  /\ NextCursor(cursor) \in Nat
           /\ \A w \in After(cursor) \ Page(cursor) : row[w].changed < NextCursor(cursor)
<1> DEFINE A == After(cursor)
           P == Page(cursor)
           C == {row[w].changed : w \in P}
           Beyond(w) == {v \in A : row[v].changed > row[w].changed}
<1>1. /\ A \subseteq Workflows /\ P \subseteq A /\ A # P
      /\ \A w \in A : row[w] \in Row
    BY DEF After, Page, Newest, IsLast, Exists, RowsOK
<1>2. \A w \in A : row[w].changed \in Nat /\ row[w].changed <= scene.changes
    BY <1>1, SceneTyped DEF Row, RowsOK
<1>3. \A w \in A : w \in P <=> Cardinality(Beyond(w)) < PageSize
    BY DEF Page, Newest
<1>4. \A w \in A : IsFiniteSet(Beyond(w)) /\ Cardinality(Beyond(w)) \in Nat
    BY <1>1, ActivationAssumption, FS_Subset, FS_CardinalityType
<1>5. P # {}
    <2> DEFINE S == {row[w].changed : w \in A}
    <2>1. S \in SUBSET Nat /\ S # {} /\ \A n \in S : n <= scene.changes
        BY <1>1, <1>2
    <2>2. PICK m \in S : \A n \in S : n <= m
        BY <2>1, SceneTyped, Greatest DEF RowsOK
    <2>3. PICK w \in A : m = row[w].changed
        BY <2>2
    <2>4. Beyond(w) = {}
        BY <2>2, <2>3, <1>2
    <2>5. Cardinality(Beyond(w)) = 0
        BY <2>4, FS_EmptySet
    <2> QED BY <2>3, <2>5, <1>3, ActivationAssumption
<1>6. C \in SUBSET Nat /\ C # {}
    BY <1>1, <1>2, <1>5
<1>7. \E c \in C : \A w \in P : c <= row[w].changed
    <2>1. PICK c \in C : \A d \in C : c <= d
        BY <1>6, Least
    <2> QED BY <2>1
<1>8. PICK p \in P : NextCursor(cursor) = row[p].changed
    BY <1>7 DEF NextCursor
<1>9. ASSUME NEW w \in A \ P
      PROVE  row[w].changed < row[p].changed
    <2>1. p \in A /\ w \in A
        BY <1>1
    <2>2. SUFFICES ASSUME row[p].changed <= row[w].changed PROVE FALSE
        BY <2>1, <1>2
    <2>3. Beyond(w) \subseteq Beyond(p)
        BY <2>1, <2>2, <1>2
    <2>4. Cardinality(Beyond(w)) <= Cardinality(Beyond(p))
        BY <2>1, <2>3, <1>4, FS_Subset
    <2>5. Cardinality(Beyond(p)) < PageSize /\ ~(Cardinality(Beyond(w)) < PageSize)
        BY <1>3, <1>9, <2>1
    <2> QED BY <2>1, <2>4, <2>5, <1>4, ActivationAssumption
<1> QED BY <1>1, <1>2, <1>8, <1>9

\* Whatever is written, what is known of a request stays true.
LEMMA WriteKeeps ==
    ASSUME RowsOK, Asked, NEW w \in Workflows, NEW new \in {Absent} \cup Row, Write(w, new)
    PROVE  Asked'
<1>1. /\ row' = [row EXCEPT ![w] = new]
      /\ row'[w] = new /\ \A v \in Workflows \ {w} : row'[v] = row[v]
    BY DEF Write, RowsOK
<1>2. CASE ask.path = None
    <2>1. ask' = ask
        BY <1>2 DEF Write, Observed
    <2> QED BY <1>2, <2>1 DEF Asked, AskOK, Known, Ahead, RoutedRight
<1>3. CASE ask.path # None
    <2> DEFINE more == IF Offers(new, ask.path) THEN ask.offered \cup {w} ELSE ask.offered
    <2>1. ask' = [ask EXCEPT !.steady = ask.steady \ {w}, !.offered = more]
        BY <1>3 DEF Write, Observed
    <2>2. /\ ask'.stage = ask.stage /\ ask'.path = ask.path /\ ask'.hit = ask.hit
          /\ ask'.cursor = ask.cursor /\ ask'.steady = ask.steady \ {w}
          /\ ask'.offered = more
          /\ ask' \in [stage : {"none", "validate", "scan", "answered"},
                path : Paths \cup {None}, hit : Workflows \cup {None}, cursor : Nat,
                steady : SUBSET Workflows, offered : SUBSET Workflows]
        BY <2>1 DEF Asked, AskOK
    <2>3. AskOK'
        BY <1>3, <2>2 DEF Asked, AskOK
    <2>4. Known'
        BY <1>1, <1>3, <2>2 DEF Asked, AskOK, Known, Offers
    <2>5. Ahead' /\ RoutedRight'
        BY <1>1, <1>3, <2>2 DEF Asked, AskOK, Ahead, RoutedRight
    <2> QED BY <2>3, <2>4, <2>5 DEF Asked
<1> QED BY <1>2, <1>3

\* Of what a step leaves alone.
LEMMA PartsKept ==
    ASSUME IInv, UNCHANGED scene
    PROVE  /\ UNCHANGED <<row, changes>> => RowsOK'
           /\ UNCHANGED jobs => JobsOK'
           /\ UNCHANGED req => ReqsOK'
           /\ UNCHANGED sync => SyncOK'
           /\ UNCHANGED index => IndexOK'
           /\ UNCHANGED pulls => (pulls \in 0..scene.pulls)'
           /\ UNCHANGED <<row, ask>> => Asked'
<1>1. UNCHANGED <<row, changes>> => RowsOK'
    BY DEF IInv, RowsOK, Row
<1>2. UNCHANGED jobs => JobsOK'
    BY DEF IInv, JobsOK
<1>3. UNCHANGED req => ReqsOK'
    BY DEF IInv, ReqsOK, ReqOK, Reqs
<1>4. UNCHANGED sync => SyncOK'
    BY DEF IInv, SyncOK, Sound
<1>5. UNCHANGED index => IndexOK'
    BY DEF IInv, IndexOK
<1>6. UNCHANGED pulls => (pulls \in 0..scene.pulls)'
    BY DEF IInv
<1>7. UNCHANGED <<row, ask>> => Asked'
    BY DEF IInv, Asked, AskOK, Known, Ahead, RoutedRight
<1> QED BY <1>1, <1>2, <1>3, <1>4, <1>5, <1>6, <1>7

\* Updates of the record that says how far the loop or the pull is.
LEMMA Unsteadied ==
    ASSUME NEW r, Sound(r), NEW w
    PROVE  Sound([r EXCEPT !.steady = r.steady \ {w}])
<1> DEFINE x == [r EXCEPT !.steady = r.steady \ {w}]
<1>1. x = [stage |-> r.stage, desired |-> r.desired, cursor |-> r.cursor,
           todo |-> r.todo, now |-> r.now, steady |-> r.steady \ {w}]
    BY DEF Sound
<1> HIDE DEF x
<1>2. Sound(x)
    BY <1>1 DEF Sound
<1> QED BY <1>2 DEF x

LEMMA WriteTyped ==
    ASSUME IInv, UNCHANGED scene, NEW w \in Workflows, NEW new \in {Absent} \cup Row, Write(w, new),
           changes' \in 0..scene.changes
    PROVE  RowsOK' /\ Asked' /\ SyncOK'
<1>1. Asked'
    BY WriteKeeps DEF IInv
<1>2. RowsOK'
    BY DEF IInv, RowsOK, Row, Write
<1>3. SyncOK'
    <2>1. sync' = [a \in Actors |-> [sync[a] EXCEPT !.steady = sync[a].steady \ {w}]]
        BY DEF Write, IInv, SyncOK, Sound
    <2>2. \A a \in Actors : Sound(sync'[a])
        BY <2>1, Unsteadied DEF IInv, SyncOK
    <2>3. \A a \in Actors : Sound(sync[a])'
        BY <2>2 DEF Sound
    <2> QED BY <2>1, <2>3 DEF SyncOK
<1> QED BY <1>1, <1>2, <1>3

\* A step of one handler.
LEMMA ReqTyped ==
    ASSUME IInv, UNCHANGED scene, NEW r \in Requests, NEW x \in Reqs,
           x.stage # "free" => x.wf \in Workflows,
           x.stage = "read" => x.version \in 1..scene.changes,
           req' = [req EXCEPT ![r] = x]
    PROVE  ReqsOK'
<1>1. /\ req' = [q \in Requests |-> req'[q]]
      /\ req'[r] = x /\ \A q \in Requests \ {r} : req'[q] = req[q]
    BY DEF IInv, ReqsOK
<1>2. \A q \in Requests : ReqOK(q)'
    BY <1>1 DEF IInv, ReqsOK, ReqOK, Reqs
<1> QED BY <1>1, <1>2 DEF ReqsOK

\* A step of the loop or of the pull.
LEMMA SyncTyped ==
    ASSUME IInv, UNCHANGED scene, NEW a \in Actors, NEW x, Sound(x), Step(a, x)
    PROVE  SyncOK'
<1>1. /\ sync' = [b \in Actors |-> sync'[b]]
      /\ sync'[a] = x /\ \A b \in Actors \ {a} : sync'[b] = sync[b]
    BY DEF IInv, SyncOK, Step
<1>2. \A b \in Actors : Sound(sync'[b])
    BY <1>1 DEF IInv, SyncOK
<1>3. \A b \in Actors : Sound(sync[b])'
    BY <1>2 DEF Sound
<1> QED BY <1>1, <1>3 DEF SyncOK

LEMMA FreeTyped == Free \in Reqs /\ Free.stage = "free"
BY DEF Free, Reqs

-----------------------------------------------------------------------------
LEMMA SaveKeeps ==
    ASSUME IInv, NEW w \in Workflows, Save(w)
    PROVE  IInv'
<1>1. PICK content \in scene.contents, active \in BOOLEAN :
          /\ changes < scene.changes
          /\ changes' = changes + 1
          /\ Write(w, [active |-> active, content |-> content,
                       version |-> changes + 1, changed |-> changes + 1])
          /\ UNCHANGED <<scene, jobs, index, req, pulls>>
    BY DEF Save
<1>2. scene.changes \in Nat /\ content \in Contents /\ changes \in 0..scene.changes
    BY SceneTyped DEF IInv, RowsOK
<1>3. changes + 1 \in 1..scene.changes
    BY <1>1, <1>2
<1>4. RowsOK' /\ Asked' /\ SyncOK'
    BY <1>1, <1>2, <1>3, WriteTyped DEF Row
<1> QED BY <1>1, <1>4, PartsKept DEF IInv

LEMMA SetActiveKeeps ==
    ASSUME IInv, NEW r \in Requests, SetActive(r)
    PROVE  IInv'
<1>1. PICK w \in Workflows, active \in BOOLEAN :
          /\ req[r] = Free
          /\ Exists(w)
          /\ changes < scene.changes
          /\ changes' = changes + 1
          /\ Write(w, [row[w] EXCEPT !.active = active, !.changed = changes + 1])
          /\ req' = [req EXCEPT ![r] = [Free EXCEPT !.stage = "set", !.wf = w, !.active = active]]
          /\ UNCHANGED <<scene, jobs, index, pulls>>
    BY DEF SetActive
<1>2. scene.changes \in Nat /\ changes \in 0..scene.changes /\ row[w] \in Row
    BY <1>1, SceneTyped DEF IInv, RowsOK, Exists
<1>3. changes + 1 \in 1..scene.changes
    BY <1>1, <1>2
<1>4. [row[w] EXCEPT !.active = active, !.changed = changes + 1] \in Row
    BY <1>2, <1>3 DEF Row
<1>5. RowsOK' /\ Asked' /\ SyncOK'
    BY <1>1, <1>2, <1>3, <1>4, WriteTyped
<1>6. [Free EXCEPT !.stage = "set", !.wf = w, !.active = active] \in Reqs
    BY <1>2 DEF Free, Reqs
<1>7. ReqsOK'
    BY <1>1, <1>6, ReqTyped DEF Free
<1> QED BY <1>1, <1>5, <1>7, PartsKept DEF IInv

LEMMA ReadBackKeeps ==
    ASSUME IInv, NEW r \in Requests, ReadBack(r)
    PROVE  IInv'
<1> DEFINE w == req[r].wf
           x == IF Exists(w)
                THEN [req[r] EXCEPT !.stage = "read", !.version = row[w].version,
                                    !.node = NodeOf[row[w].content]]
                ELSE Free
<1>1. /\ req[r].stage = "set" /\ req' = [req EXCEPT ![r] = x]
      /\ UNCHANGED <<scene, row, changes, jobs, index, sync, pulls, ask>>
    BY DEF ReadBack, IInv, ReqsOK
<1>2. req[r] \in Reqs /\ w \in Workflows /\ scene.changes \in Nat
    BY <1>1, SceneTyped DEF IInv, ReqsOK, ReqOK, RowsOK
<1>3. Exists(w) => row[w] \in Row
    BY <1>2 DEF IInv, RowsOK, Exists
<1>4. Exists(w) => /\ row[w].version \in 1..scene.changes
                   /\ NodeOf[row[w].content] \in Nodes \cup {None}
    BY <1>3, ActivationAssumption DEF Row
<1>5. CASE Exists(w)
    <2>1. x = [req[r] EXCEPT !.stage = "read", !.version = row[w].version,
                             !.node = NodeOf[row[w].content]]
        BY <1>5
    <2>2. row[w].version \in Nat
        BY <1>2, <1>4, <1>5
    <2>3. x \in Reqs /\ x.wf = w /\ x.version = row[w].version
        BY <1>2, <1>4, <1>5, <2>1, <2>2 DEF Reqs
    <2> HIDE DEF x
    <2> QED BY <1>1, <1>2, <1>4, <1>5, <2>3, ReqTyped, PartsKept DEF IInv
<1>6. CASE ~Exists(w)
    <2>1. x = Free
        BY <1>6
    <2>2. ReqsOK'
        BY <1>1, <2>1, FreeTyped, ReqTyped
    <2> QED BY <1>1, <2>2, PartsKept DEF IInv
<1> QED BY <1>5, <1>6

LEMMA StopTyped ==
    ASSUME IInv, UNCHANGED scene, NEW w, Stop(w)
    PROVE  JobsOK'
BY DEF IInv, JobsOK, Stop

LEMMA RescheduleKeeps ==
    ASSUME IInv, NEW r \in Requests, Reschedule(r)
    PROVE  IInv'
<1>1. /\ req[r].stage = "read" /\ req' = [req EXCEPT ![r] = Free]
      /\ UNCHANGED <<scene, row, changes, index, sync, pulls, ask>>
    BY DEF Reschedule
<1>2. req[r].version \in 1..scene.changes
    BY <1>1 DEF IInv, ReqsOK, ReqOK
<1>3. ASSUME Start(req[r].wf, req[r].node, req[r].version)
      PROVE  JobsOK'
    BY <1>1, <1>2, <1>3 DEF IInv, JobsOK, Start
<1>4. JobsOK'
    BY <1>1, <1>3, StopTyped DEF Reschedule
<1>5. ReqsOK'
    BY <1>1, FreeTyped, ReqTyped
<1> QED BY <1>1, <1>4, <1>5, PartsKept DEF IInv

LEMMA DeleteScheduleKeeps ==
    ASSUME IInv, NEW r \in Requests, DeleteSchedule(r)
    PROVE  IInv'
<1>1. PICK w \in Workflows :
          /\ changes < scene.changes
          /\ changes' = changes + 1
          /\ Stop(w)
          /\ req' = [req EXCEPT ![r] = [Free EXCEPT !.stage = "stopped", !.wf = w]]
          /\ UNCHANGED <<scene, row, index, sync, pulls, ask>>
    BY DEF DeleteSchedule
<1>2. scene.changes \in Nat /\ changes \in 0..scene.changes
    BY SceneTyped DEF IInv, RowsOK
<1>3. RowsOK'
    BY <1>1, <1>2 DEF IInv, RowsOK, Row
<1>4. [Free EXCEPT !.stage = "stopped", !.wf = w] \in Reqs
    BY <1>2 DEF Free, Reqs
<1>5. ReqsOK'
    BY <1>1, <1>4, ReqTyped DEF Free
<1> QED BY <1>1, <1>3, <1>5, StopTyped, PartsKept DEF IInv

LEMMA DeleteRowKeeps ==
    ASSUME IInv, NEW r \in Requests, DeleteRow(r)
    PROVE  IInv'
<1> DEFINE x == IF Exists(req[r].wf) THEN [req[r] EXCEPT !.stage = "deleted"] ELSE Free
<1>1. /\ req[r].stage = "stopped" /\ Write(req[r].wf, Absent)
      /\ req' = [req EXCEPT ![r] = x]
      /\ UNCHANGED <<scene, changes, jobs, index, pulls>>
    BY DEF DeleteRow, IInv, ReqsOK
<1>2. req[r] \in Reqs /\ req[r].wf \in Workflows /\ scene.changes \in Nat
    BY <1>1, SceneTyped DEF IInv, ReqsOK, ReqOK, RowsOK
<1>3. x \in Reqs /\ (x.stage # "free" => x.wf \in Workflows) /\ x.stage # "read"
    BY <1>2, FreeTyped DEF Reqs, Free
<1>4. ReqsOK'
    BY <1>1, <1>3, ReqTyped
<1>5. RowsOK' /\ Asked' /\ SyncOK'
    BY <1>1, <1>2, WriteTyped DEF IInv, RowsOK
<1> QED BY <1>1, <1>4, <1>5, PartsKept DEF IInv

LEMMA UnregisterTyped ==
    ASSUME IInv, NEW w, Unregister(w)
    PROVE  IndexOK'
BY DEF IInv, IndexOK, Unregister

LEMMA DeleteHooksKeeps ==
    ASSUME IInv, NEW r \in Requests, DeleteHooks(r)
    PROVE  IInv'
<1>1. ReqsOK'
    BY FreeTyped, ReqTyped DEF DeleteHooks
<1>2. IndexOK'
    BY UnregisterTyped DEF DeleteHooks
<1> QED BY <1>1, <1>2, PartsKept DEF IInv, DeleteHooks

-----------------------------------------------------------------------------
Shaped(r) ==
    r = [stage |-> r.stage, desired |-> r.desired, cursor |-> r.cursor,
         todo |-> r.todo, now |-> r.now, steady |-> r.steady]

LEMMA AtFields ==
    ASSUME NEW stage
    PROVE  /\ Shaped(At(stage))
           /\ At(stage).stage = stage /\ At(stage).desired = <<>> /\ At(stage).cursor = 0
           /\ At(stage).todo = {} /\ At(stage).now = None /\ At(stage).steady = {}
BY DEF At, Shaped

LEMMA Updates ==
    ASSUME NEW r, NEW d, NEW S, Shaped(r)
    PROVE  /\ [r EXCEPT !.desired = d] =
                  [stage |-> r.stage, desired |-> d, cursor |-> r.cursor,
                   todo |-> r.todo, now |-> r.now, steady |-> r.steady]
           /\ [r EXCEPT !.steady = S] =
                  [stage |-> r.stage, desired |-> r.desired, cursor |-> r.cursor,
                   todo |-> r.todo, now |-> r.now, steady |-> S]
<1>1. DOMAIN r = {"stage", "desired", "cursor", "todo", "now", "steady"}
    BY DEF Shaped
<1>2. [r EXCEPT !.desired = d] = [f \in DOMAIN r |-> IF f = "desired" THEN d ELSE r[f]]
    OBVIOUS
<1>3. [r EXCEPT !.steady = S] = [f \in DOMAIN r |-> IF f = "steady" THEN S ELSE r[f]]
    OBVIOUS
<1>4. [r EXCEPT !.desired = d] =
          [stage |-> r.stage, desired |-> d, cursor |-> r.cursor,
           todo |-> r.todo, now |-> r.now, steady |-> r.steady]
    BY <1>1, <1>2
<1>5. [r EXCEPT !.steady = S] =
          [stage |-> r.stage, desired |-> r.desired, cursor |-> r.cursor,
           todo |-> r.todo, now |-> r.now, steady |-> S]
    BY <1>1, <1>3
<1> QED BY <1>4, <1>5

LEMMA AtSound ==
    ASSUME NEW stage \in Stages, stage # "fill"
    PROVE  Sound(At(stage))
BY DEF At, Sound

LEMMA BeginIs ==
    Begin = [stage |-> "scan", desired |-> <<>>, cursor |-> 0, todo |-> {}, now |-> None,
             steady |-> Hooked(Workflows)]
<1> DEFINE r == At("scan")
<1>1. Begin = [r EXCEPT !.steady = Hooked(Workflows)]
    BY DEF Begin
<1>2. /\ Shaped(r) /\ r.stage = "scan" /\ r.desired = <<>> /\ r.cursor = 0
      /\ r.todo = {} /\ r.now = None
    BY AtFields
<1> HIDE DEF r
<1>3. [r EXCEPT !.steady = Hooked(Workflows)] =
          [stage |-> r.stage, desired |-> r.desired, cursor |-> r.cursor,
           todo |-> r.todo, now |-> r.now, steady |-> Hooked(Workflows)]
    BY <1>2, Updates
<1> QED BY <1>1, <1>2, <1>3

LEMMA BeginSound == Sound(Begin)
<1>1. Begin = [stage |-> "scan", desired |-> <<>>, cursor |-> 0, todo |-> {}, now |-> None,
               steady |-> Hooked(Workflows)]
    BY BeginIs
<1>2. Hooked(Workflows) \subseteq Workflows
    BY DEF Hooked
<1> QED BY <1>1, <1>2 DEF Sound, Stages

LEMMA PullKeeps ==
    ASSUME IInv, Pull
    PROVE  IInv'
<1>1. SyncOK'
    BY BeginSound, SyncTyped DEF Pull, Actors
<1>2. (pulls \in 0..scene.pulls)'
    BY SceneTyped DEF Pull, IInv, RowsOK
<1> QED BY <1>1, <1>2, PartsKept DEF IInv, Pull

LEMMA AbortKeeps ==
    ASSUME IInv, Abort
    PROVE  IInv'
<1>1. SyncOK'
    BY AtSound, SyncTyped DEF Abort, Stages, Actors
<1> QED BY <1>1, PartsKept DEF IInv, Abort

LEMMA ListKeeps ==
    ASSUME IInv, NEW a \in Actors, List(a)
    PROVE  IInv'
<1> DEFINE listed == Newest({w \in Workflows : Exists(w)}, ListCap)
           d == [s \in Wanted(listed) |-> row[s[1]].version]
           x == [At("apply") EXCEPT !.desired = d]
<1>1. /\ Step(a, x)
      /\ UNCHANGED <<scene, row, changes, jobs, index, req, pulls, ask>>
    BY DEF List
<1>2. \A s \in Wanted(listed) : s \in Schedules /\ row[s[1]] \in Row
    BY DEF Wanted, Newest, Schedules, Exists, IInv, RowsOK
<1>3. \A s \in DOMAIN d : d[s] \in 1..scene.changes
    BY <1>2 DEF Row
<1>4. DOMAIN d \subseteq Schedules
    BY <1>2
<1> HIDE DEF d
<1>5. Sound(x)
    <2>1. x = [stage |-> "apply", desired |-> d, cursor |-> 0, todo |-> {}, now |-> None,
               steady |-> {}]
        <3> DEFINE r == At("apply")
        <3>1. x = [r EXCEPT !.desired = d]
            OBVIOUS
        <3>2. /\ Shaped(r) /\ r.stage = "apply" /\ r.cursor = 0
              /\ r.todo = {} /\ r.now = None /\ r.steady = {}
            BY AtFields
        <3> HIDE DEF r, x
        <3>3. [r EXCEPT !.desired = d] =
                  [stage |-> r.stage, desired |-> d, cursor |-> r.cursor,
                   todo |-> r.todo, now |-> r.now, steady |-> r.steady]
            BY <3>2, Updates
        <3> QED BY <3>1, <3>2, <3>3
    <2> QED BY <1>3, <1>4, <2>1 DEF Sound, Stages
<1>6. SyncOK'
    BY <1>1, <1>5, SyncTyped
<1> QED BY <1>1, <1>6, PartsKept DEF IInv

LEMMA ApplyKeeps ==
    ASSUME IInv, NEW a \in Actors, Apply(a)
    PROVE  IInv'
<1> DEFINE d == sync[a].desired
<1>1. /\ sync[a].stage = "apply"
      /\ Step(a, IF a = "loop" THEN Begin ELSE At("off"))
      /\ UNCHANGED <<scene, row, changes, index, req, pulls, ask>>
    BY DEF Apply
<1>2. \A s \in DOMAIN d : d[s] \in 1..scene.changes
    BY <1>1 DEF IInv, SyncOK, Sound
<1>3. JobsOK'
    <2>1. PICK new :
              /\ jobs' = [s \in Schedules |-> new[s]]
              /\ \A s \in Schedules :
                    \/ new[s] = jobs[s]
                    \/ s \in DOMAIN d /\ new[s] = [version |-> d[s], ctx |-> Ctx(a)]
                    \/ new[s] = NoJob
        <3> DEFINE Current(s) == IF s \in DOMAIN d THEN jobs[s].version = d[s]
                                                   ELSE jobs[s] = NoJob
                   f == [s \in Schedules |->
                            IF Current(s) THEN jobs[s]
                            ELSE IF s \in DOMAIN d
                                 THEN [version |-> d[s], ctx |-> Ctx(a)]
                                 ELSE NoJob]
        <3>1. jobs' = f
            BY DEF Apply
        <3>2. \A s \in Schedules : \/ f[s] = jobs[s]
                                   \/ s \in DOMAIN d /\ f[s] = [version |-> d[s], ctx |-> Ctx(a)]
                                   \/ f[s] = NoJob
            OBVIOUS
        <3>3. f = [s \in Schedules |-> f[s]]
            OBVIOUS
        <3> HIDE DEF f
        <3> QED BY <3>1, <3>2, <3>3
    <2>2. Ctx(a) \in {"server", "request"}
        BY DEF Ctx
    <2>3. \A s \in Schedules :
              new[s] \in {NoJob} \cup [version : 1..scene.changes, ctx : {"server", "request"}]
        <3> SUFFICES ASSUME NEW s \in Schedules
                     PROVE  new[s] \in {NoJob} \cup [version : 1..scene.changes,
                                                   ctx : {"server", "request"}]
            OBVIOUS
        <3>1. jobs[s] \in {NoJob} \cup [version : 1..scene.changes, ctx : {"server", "request"}]
            BY DEF IInv, JobsOK
        <3>2. s \in DOMAIN d => [version |-> d[s], ctx |-> Ctx(a)]
                                \in [version : 1..scene.changes, ctx : {"server", "request"}]
            BY <1>2, <2>2
        <3> QED BY <2>1, <3>1, <3>2
    <2> QED BY <1>1, <2>1, <2>3 DEF JobsOK, Schedules
<1>4. SyncOK'
    BY <1>1, AtSound, BeginSound, SyncTyped DEF Stages
<1> QED BY <1>1, <1>3, <1>4, PartsKept DEF IInv

LEMMA ScanKeeps ==
    ASSUME IInv, NEW a \in Actors, Scan(a)
    PROVE  IInv'
<1> DEFINE cursor == sync[a].cursor
           page == [w \in Hooked(Page(cursor)) |-> PathOf[row[w].content]]
           d == Join(sync[a].desired, page)
           x == IF IsLast(cursor)
                THEN [sync[a] EXCEPT !.stage = "refresh", !.desired = d, !.cursor = 0,
                                     !.todo = DOMAIN d]
                ELSE [sync[a] EXCEPT !.desired = d, !.cursor = NextCursor(cursor)]
<1>1. /\ sync[a].stage = "scan" /\ Step(a, x)
      /\ UNCHANGED <<scene, row, changes, jobs, index, req, pulls, ask>>
    BY DEF Scan
<1>2. Sound(sync[a])
    BY DEF IInv, SyncOK
<1>3. DOMAIN d \subseteq Workflows
    <2>1. DOMAIN d = DOMAIN sync[a].desired \cup DOMAIN page
        BY DEF Join
    <2>2. DOMAIN page \subseteq Workflows
        BY DEF Hooked, Page, Newest, After
    <2>3. DOMAIN sync[a].desired \subseteq Workflows
        BY <1>1, <1>2 DEF Sound
    <2> QED BY <2>1, <2>2, <2>3
<1> HIDE DEF d
<1>4. CASE IsLast(cursor)
    <2>1. x = [stage |-> "refresh", desired |-> d, cursor |-> 0, todo |-> DOMAIN d,
               now |-> sync[a].now, steady |-> sync[a].steady]
        BY <1>2, <1>4 DEF Sound
    <2>2. sync[a].steady \subseteq Workflows
        BY <1>2 DEF Sound
    <2> QED BY <1>1, <1>3, <2>1, <2>2, SyncTyped, PartsKept DEF IInv, Sound, Stages
<1>5. CASE ~IsLast(cursor)
    <2>1. x = [stage |-> "scan", desired |-> d, cursor |-> NextCursor(cursor),
               todo |-> sync[a].todo, now |-> sync[a].now, steady |-> sync[a].steady]
        BY <1>1, <1>2, <1>5 DEF Sound
    <2>2. /\ sync[a].todo \subseteq Workflows /\ sync[a].steady \subseteq Workflows
          /\ NextCursor(cursor) \in Nat
        BY <1>2, <1>5, CursorPasses DEF Sound, IInv
    <2> QED BY <1>1, <1>3, <2>1, <2>2, SyncTyped, PartsKept DEF IInv, Sound, Stages
<1> QED BY <1>4, <1>5

LEMMA Cleared ==
    ASSUME NEW r, Sound(r), r.stage = "refresh", NEW w \in r.todo
    PROVE  Sound([r EXCEPT !.stage = "fill", !.todo = r.todo \ {w}, !.now = w])
<1> DEFINE x == [r EXCEPT !.stage = "fill", !.todo = r.todo \ {w}, !.now = w]
<1>1. DOMAIN r = {"stage", "desired", "cursor", "todo", "now", "steady"}
    BY DEF Sound
<1>2. x = [f \in DOMAIN r |-> IF f = "now" THEN w ELSE IF f = "todo" THEN r.todo \ {w}
                              ELSE IF f = "stage" THEN "fill" ELSE r[f]]
    OBVIOUS
<1>3. x = [stage |-> "fill", desired |-> r.desired, cursor |-> r.cursor,
           todo |-> r.todo \ {w}, now |-> w, steady |-> r.steady]
    BY <1>1, <1>2
<1> HIDE DEF x
<1>4. Sound(x)
    BY <1>3 DEF Sound, Stages
<1> QED BY <1>4 DEF x

LEMMA Filled ==
    ASSUME NEW r, Sound(r), r.stage = "fill"
    PROVE  Sound([r EXCEPT !.stage = "refresh", !.now = None])
<1> DEFINE x == [r EXCEPT !.stage = "refresh", !.now = None]
<1>1. DOMAIN r = {"stage", "desired", "cursor", "todo", "now", "steady"}
    BY DEF Sound
<1>2. x = [f \in DOMAIN r |-> IF f = "now" THEN None ELSE IF f = "stage" THEN "refresh"
                              ELSE r[f]]
    OBVIOUS
<1>3. x = [stage |-> "refresh", desired |-> r.desired, cursor |-> r.cursor,
           todo |-> r.todo, now |-> None, steady |-> r.steady]
    BY <1>1, <1>2
<1> HIDE DEF x
<1>4. Sound(x)
    BY <1>3 DEF Sound, Stages
<1> QED BY <1>4 DEF x

LEMMA ClearKeeps ==
    ASSUME IInv, NEW a \in Actors, Clear(a)
    PROVE  IInv'
<1>1. PICK w \in sync[a].todo :
          /\ sync[a].stage = "refresh"
          /\ Unregister(w)
          /\ Step(a, [sync[a] EXCEPT !.stage = "fill", !.todo = sync[a].todo \ {w}, !.now = w])
          /\ UNCHANGED <<scene, row, changes, jobs, req, pulls, ask>>
    BY DEF Clear, IInv, SyncOK, Sound
<1> DEFINE x == [sync[a] EXCEPT !.stage = "fill", !.todo = sync[a].todo \ {w}, !.now = w]
<1>2. Sound(x)
    BY <1>1, Cleared DEF IInv, SyncOK
<1>3. SyncOK' /\ IndexOK'
    BY <1>1, <1>2, SyncTyped, UnregisterTyped
<1> QED BY <1>1, <1>3, PartsKept DEF IInv

LEMMA FillKeeps ==
    ASSUME IInv, NEW a \in Actors, Fill(a)
    PROVE  IInv'
<1> DEFINE x == [sync[a] EXCEPT !.stage = "refresh", !.now = None]
<1>1. /\ sync[a].stage = "fill" /\ Step(a, x)
      /\ index' = [index EXCEPT ![sync[a].desired[sync[a].now]] = sync[a].now]
      /\ UNCHANGED <<scene, row, changes, jobs, req, pulls, ask>>
    BY DEF Fill
<1>2. Sound(x)
    BY <1>1, Filled DEF IInv, SyncOK
<1>3. sync[a].now \in Workflows
    BY <1>1 DEF IInv, SyncOK, Sound
<1>4. SyncOK' /\ IndexOK'
    BY <1>1, <1>2, <1>3, SyncTyped DEF IInv, IndexOK
<1> QED BY <1>1, <1>4, PartsKept DEF IInv

LEMMA GetAllKeeps ==
    ASSUME IInv, NEW a \in Actors, GetAll(a)
    PROVE  IInv'
<1> DEFINE x == IF Prunable(a) = {} THEN At("list")
                                    ELSE [At("prune") EXCEPT !.todo = Prunable(a),
                                                             !.steady = sync[a].steady]
<1>1. /\ Step(a, x)
      /\ UNCHANGED <<scene, row, changes, jobs, index, req, pulls, ask>>
    BY DEF GetAll
<1>2. Prunable(a) \subseteq Workflows
    BY DEF Prunable, IInv, IndexOK
<1>3. Sound(At("list"))
    BY AtSound DEF Stages
<1>4. Sound([At("prune") EXCEPT !.todo = Prunable(a), !.steady = sync[a].steady])
    <2> DEFINE y == [At("prune") EXCEPT !.todo = Prunable(a), !.steady = sync[a].steady]
    <2>1. sync[a].steady \subseteq Workflows
        BY DEF IInv, SyncOK, Sound
    <2>2. y = [stage |-> "prune", desired |-> <<>>, cursor |-> 0, todo |-> Prunable(a),
               now |-> None, steady |-> sync[a].steady]
        <3> DEFINE r == At("prune")
        <3>1. y = [r EXCEPT !.todo = Prunable(a), !.steady = sync[a].steady]
            OBVIOUS
        <3>2. /\ Shaped(r) /\ r.stage = "prune" /\ r.desired = <<>> /\ r.cursor = 0
              /\ r.now = None
            BY AtFields
        <3> HIDE DEF r, y
        <3> DEFINE T == Prunable(a)
                   S == sync[a].steady
        <3> HIDE DEF T, S
        <3>3. [r EXCEPT !.todo = T, !.steady = S] =
                  [stage |-> r.stage, desired |-> r.desired, cursor |-> r.cursor,
                   todo |-> T, now |-> r.now, steady |-> S]
            <4>1. DOMAIN r = {"stage", "desired", "cursor", "todo", "now", "steady"}
                BY <3>2 DEF Shaped
            <4>2. [r EXCEPT !.todo = T, !.steady = S] =
                      [f \in DOMAIN r |-> IF f = "steady" THEN S ELSE IF f = "todo" THEN T ELSE r[f]]
                OBVIOUS
            <4> QED BY <4>1, <4>2
        <3> QED BY <3>1, <3>2, <3>3 DEF T, S
    <2> HIDE DEF y
    <2>3. Sound(y)
        BY <1>2, <2>1, <2>2 DEF Sound, Stages
    <2> QED BY <2>3 DEF y
<1>5. SyncOK'
    BY <1>1, <1>3, <1>4, SyncTyped
<1> QED BY <1>1, <1>5, PartsKept DEF IInv

LEMMA PruneKeeps ==
    ASSUME IInv, NEW a \in Actors, Prune(a)
    PROVE  IInv'
<1>1. PICK w \in sync[a].todo :
          /\ sync[a].stage = "prune"
          /\ Unregister(w)
          /\ Step(a, IF sync[a].todo = {w} THEN At("list")
                                           ELSE [sync[a] EXCEPT !.todo = sync[a].todo \ {w}])
          /\ UNCHANGED <<scene, row, changes, jobs, req, pulls, ask>>
    BY DEF Prune, IInv, SyncOK, Sound
<1> DEFINE x == [sync[a] EXCEPT !.todo = sync[a].todo \ {w}]
<1>2. Sound(sync[a])
    BY DEF IInv, SyncOK
<1>3. x = [stage |-> "prune", desired |-> sync[a].desired, cursor |-> sync[a].cursor,
           todo |-> sync[a].todo \ {w}, now |-> sync[a].now, steady |-> sync[a].steady]
    BY <1>1, <1>2 DEF Sound
<1>4. Sound(x)
    BY <1>1, <1>2, <1>3 DEF Sound, Stages
<1>5. Sound(At("list"))
    BY AtSound DEF Stages
<1>6. SyncOK' /\ IndexOK'
    BY <1>1, <1>4, <1>5, SyncTyped, UnregisterTyped
<1> QED BY <1>1, <1>6, PartsKept DEF IInv

-----------------------------------------------------------------------------
LEMMA LookUpKeeps ==
    ASSUME IInv, NEW p \in Paths, LookUp(p)
    PROVE  IInv'
<1> DEFINE here == {w \in Workflows : Offers(row[w], p)}
<1>1. /\ ask' = [stage |-> IF index[p] = None THEN "scan" ELSE "validate", path |-> p,
                 hit |-> index[p], cursor |-> 0, steady |-> here, offered |-> here]
      /\ UNCHANGED <<scene, row, changes, jobs, index, req, sync, pulls>>
    BY DEF LookUp, NoAsk
<1>2. p # None /\ index[p] \in Workflows \cup {None}
    BY ActivationAssumption DEF IInv, IndexOK
<1>3. AskOK'
    BY <1>1, <1>2 DEF AskOK
<1>4. Known' /\ Ahead' /\ RoutedRight'
    BY <1>1, <1>2 DEF Known, Ahead, RoutedRight, Offers
<1> QED BY <1>1, <1>3, <1>4, PartsKept DEF IInv, Asked

LEMMA ValidateKeeps ==
    ASSUME IInv, Validate
    PROVE  IInv'
<1>1. /\ ask.stage = "validate"
      /\ ask' = IF Offers(row[ask.hit], ask.path)
                THEN [ask EXCEPT !.stage = "answered"]
                ELSE [ask EXCEPT !.stage = "scan", !.hit = None]
      /\ UNCHANGED <<scene, row, changes, jobs, index, req, sync, pulls>>
    BY DEF Validate
<1>2. AskOK /\ Known /\ ask.hit \in Workflows /\ ask.cursor = 0 /\ ask.path # None
    BY <1>1 DEF IInv, Asked, AskOK, Ahead
<1>3. CASE Offers(row[ask.hit], ask.path)
    <2>1. ask' = [ask EXCEPT !.stage = "answered"]
        BY <1>1, <1>3
    <2>2. ask.hit \in ask.offered /\ ask.hit # None
        BY <1>2, <1>3, ActivationAssumption DEF Known
    <2> QED BY <1>1, <1>2, <2>1, <2>2, PartsKept
            DEF IInv, Asked, AskOK, Known, Ahead, RoutedRight, Offers
<1>4. CASE ~Offers(row[ask.hit], ask.path)
    <2>1. ask' = [ask EXCEPT !.stage = "scan", !.hit = None]
        BY <1>1, <1>4
    <2> QED BY <1>1, <1>2, <2>1, PartsKept
            DEF IInv, Asked, AskOK, Known, Ahead, RoutedRight, Offers
<1> QED BY <1>3, <1>4

LEMMA ScanRowsKeeps ==
    ASSUME IInv, ScanRows
    PROVE  IInv'
<1> DEFINE found == {w \in Page(ask.cursor) : Offers(row[w], ask.path)}
<1>1. /\ ask.stage = "scan"
      /\ \/ \E w \in Newest(found, 1) : ask' = [ask EXCEPT !.stage = "answered", !.hit = w]
         \/ /\ found = {}
            /\ ask' = IF IsLast(ask.cursor)
                      THEN [ask EXCEPT !.stage = "answered"]
                      ELSE [ask EXCEPT !.cursor = NextCursor(ask.cursor)]
      /\ UNCHANGED <<scene, row, changes, jobs, index, req, sync, pulls>>
    BY DEF ScanRows
<1>2. AskOK /\ Known /\ ask.hit = None /\ ask.path # None /\ ask.cursor \in Nat
    BY <1>1 DEF IInv, Asked, AskOK, Ahead
<1>3. /\ \A w \in Newest(found, 1) : w \in Workflows /\ w \in ask.offered
      /\ Page(ask.cursor) \subseteq After(ask.cursor)
    BY <1>2 DEF Newest, Page, After, Known
<1>4. ask.steady \subseteq After(ask.cursor)
    <2>1. \A w \in ask.steady : w \in Workflows /\ Exists(w)
        BY <1>2 DEF AskOK, Known, Exists, Absent, Offers
    <2> QED BY <1>1, <2>1 DEF IInv, Asked, Ahead, After
<1>5. ASSUME NEW w \in Newest(found, 1), ask' = [ask EXCEPT !.stage = "answered", !.hit = w]
      PROVE  IInv'
    <2>1. w \in Workflows /\ w \in ask.offered /\ w # None
        BY <1>3, <1>5, ActivationAssumption
    <2> QED BY <1>1, <1>2, <1>5, <2>1, PartsKept
            DEF IInv, Asked, AskOK, Known, Ahead, RoutedRight, Offers
<1>6. ASSUME found = {}
      PROVE  ask.steady \cap Page(ask.cursor) = {}
    BY <1>2, <1>6 DEF Known
<1>7. ASSUME found = {}, IsLast(ask.cursor), ask' = [ask EXCEPT !.stage = "answered"]
      PROVE  IInv'
    <2>1. ask.steady = {}
        BY <1>4, <1>6, <1>7 DEF IsLast
    <2> QED BY <1>1, <1>2, <1>7, <2>1, PartsKept
            DEF IInv, Asked, AskOK, Known, Ahead, RoutedRight, Offers
<1>8. ASSUME found = {}, ~IsLast(ask.cursor), ask' = [ask EXCEPT !.cursor = NextCursor(ask.cursor)]
      PROVE  IInv'
    <2>1. /\ NextCursor(ask.cursor) \in Nat
          /\ \A w \in ask.steady : row[w].changed < NextCursor(ask.cursor)
        BY <1>2, <1>4, <1>6, <1>8, CursorPasses DEF IInv
    <2> QED BY <1>1, <1>2, <1>8, <2>1, PartsKept
            DEF IInv, Asked, AskOK, Known, Ahead, RoutedRight, Offers
<1> QED BY <1>1, <1>5, <1>7, <1>8

LEMMA AnsweredKeeps ==
    ASSUME IInv, Answered
    PROVE  IInv'
<1>1. AskOK' /\ Known' /\ Ahead' /\ RoutedRight'
    BY DEF Answered, NoAsk, AskOK, Known, Ahead, RoutedRight
<1> QED BY <1>1, PartsKept DEF IInv, Asked, Answered

-----------------------------------------------------------------------------
LEMMA InitInductive == Init => IInv
<1> SUFFICES ASSUME Init PROVE IInv
    OBVIOUS
<1>1. RowsOK /\ JobsOK /\ IndexOK /\ pulls \in 0..scene.pulls
    BY SceneTyped DEF Init, RowsOK, JobsOK, IndexOK
<1>2. ReqsOK
    BY FreeTyped DEF Init, ReqsOK, ReqOK, Free
<1>3. Sound(At("list")) /\ Sound(At("off"))
    BY AtSound DEF Stages
<1>4. SyncOK
    BY <1>3 DEF Init, SyncOK
<1>5. Asked
    BY DEF Init, NoAsk, Asked, AskOK, Known, Ahead, RoutedRight
<1> QED BY <1>1, <1>2, <1>4, <1>5 DEF IInv

LEMMA StepInductive == IInv /\ [Next]_vars => IInv'
<1> SUFFICES ASSUME IInv, [Next]_vars PROVE IInv'
    OBVIOUS
<1>1. ASSUME NEW w \in Workflows, Save(w) PROVE IInv'
    BY <1>1, SaveKeeps
<1>2. ASSUME NEW r \in scene.requests, SetActive(r) \/ DeleteSchedule(r) \/ Handle(r)
      PROVE  IInv'
    <2>1. r \in Requests
        BY SceneTyped DEF IInv, RowsOK
    <2> QED BY <1>2, <2>1, SetActiveKeeps, DeleteScheduleKeeps, ReadBackKeeps,
               RescheduleKeeps, DeleteRowKeeps, DeleteHooksKeeps DEF Handle
<1>3. ASSUME NEW a \in Actors, Synchronise(a) PROVE IInv'
    BY <1>3, ListKeeps, ApplyKeeps, ScanKeeps, ClearKeeps, FillKeeps, GetAllKeeps,
       PruneKeeps DEF Synchronise
<1>4. CASE Pull \/ Abort
    BY <1>4, PullKeeps, AbortKeeps
<1>5. CASE (\E p \in Paths : LookUp(p)) \/ Validate \/ ScanRows \/ Answered
    BY <1>5, LookUpKeeps, ValidateKeeps, ScanRowsKeeps, AnsweredKeeps
<1>6. CASE UNCHANGED vars
    BY <1>6, PartsKept DEF IInv, vars
<1> QED BY <1>1, <1>2, <1>3, <1>4, <1>5, <1>6 DEF Next

\* The invariant holds in every behaviour, whatever the workflows, what they
\* may be saved with, the handlers, the sizes of a list and of a page, and the
\* numbers of changes and of pulls.
THEOREM ActivationInductive == Spec => []IInv
<1>1. Init => IInv
    BY InitInductive
<1>2. IInv /\ [Next]_vars => IInv'
    BY StepInductive
<1> QED BY <1>1, <1>2, PTL DEF Spec

\* Every variable keeps its type: what the loop and a pull hold between their
\* steps is about workflows or about schedules as their stage says, and a
\* handler starts the schedule of a version there has been.
THEOREM ActivationTypeCorrect == Spec => []TypeOK
<1>1. IInv => TypeOK
    <2> SUFFICES ASSUME IInv PROVE TypeOK
        OBVIOUS
    <2>1. \A r \in Requests :
            /\ req[r].stage \in {"free", "set", "read", "stopped", "deleted"}
            /\ req[r].stage = "read" => req[r].version \in 1..scene.changes
        BY DEF IInv, ReqsOK, ReqOK, Reqs
    <2>2. \A a \in Actors :
            /\ sync[a].stage \in {"off", "list", "apply", "scan", "refresh", "fill", "prune"}
            /\ DOMAIN sync[a].desired \subseteq IF sync[a].stage = "apply" THEN Schedules ELSE Workflows
            /\ sync[a].stage = "fill" => sync[a].now \in DOMAIN sync[a].desired
            /\ sync[a].todo \subseteq Workflows
        BY DEF IInv, SyncOK, Sound, Stages
    <2>3. /\ ask.stage \in {"none", "validate", "scan", "answered"}
          /\ ask.hit \in Workflows \cup {None}
          /\ ask.steady \subseteq ask.offered
        BY DEF IInv, Asked, AskOK
    <2> QED BY <2>1, <2>2, <2>3 DEF TypeOK, IInv, RowsOK, JobsOK, IndexOK
<1> QED BY <1>1, ActivationInductive, PTL

\* A request for a webhook finds a workflow that offered its path meanwhile,
\* and does find one if some workflow offered the path all along, for an index
\* of any staleness, pages of any size and any number of rows that move among
\* them.
THEOREM RoutedRightHolds == Spec => []RoutedRight
<1>1. IInv => RoutedRight
    BY DEF IInv, Asked
<1> QED BY <1>1, ActivationInductive, PTL

-----------------------------------------------------------------------------
(***************************************************************************)
(* A reconciliation and what stays as it is while it reads the rows.       *)
(***************************************************************************)

\* What stayed as it was has been collected once the cursor has passed it, is
\* among what is registered, and not among what is pruned.
Gathers(s) ==
    /\ s.steady \subseteq Hooked(Workflows)
    /\ \A w \in s.steady :
          /\ \/ s.stage = "scan" /\ s.cursor # 0 /\ row[w].changed >= s.cursor
             \/ s.stage \in {"refresh", "fill"}
             => w \in DOMAIN s.desired /\ s.desired[w] = PathOf[row[w].content]
          /\ s.stage = "prune" => w \notin s.todo

Gathered == \A a \in Actors : Gathers(sync[a])

\* A step of the loop or of the pull.
LEMMA StepGathers ==
    ASSUME IInv, Gathered, UNCHANGED row, NEW a \in Actors, NEW x, Gathers(x), Step(a, x)
    PROVE  Gathered'
<1>1. \A b \in Actors : Gathers(sync'[b])
    BY DEF Gathered, Step, IInv, SyncOK
<1>2. \A b \in Actors : Gathers(sync[b])'
    BY <1>1 DEF Gathers, Hooked
<1> QED BY <1>2 DEF Gathered

\* A step of something else.
LEMMA OthersGather ==
    ASSUME Gathered, UNCHANGED <<row, sync>>
    PROVE  Gathered'
BY DEF Gathered, Gathers, Hooked

LEMMA WriteGathers ==
    ASSUME IInv, Gathered, NEW w \in Workflows, NEW new, Write(w, new)
    PROVE  Gathered'
<1> SUFFICES ASSUME NEW a \in Actors PROVE Gathers(sync[a])'
    BY DEF Gathered
<1>1. \A v \in Workflows \ {w} : row'[v] = row[v]
    BY DEF Write, IInv, RowsOK
<1>2. /\ Shaped(sync[a]) /\ sync'[a] = [sync[a] EXCEPT !.steady = sync[a].steady \ {w}]
      /\ Gathers(sync[a])
    BY DEF Write, IInv, SyncOK, Sound, Shaped, Gathered
<1>3. sync'[a] = [stage |-> sync[a].stage, desired |-> sync[a].desired, cursor |-> sync[a].cursor,
                  todo |-> sync[a].todo, now |-> sync[a].now, steady |-> sync[a].steady \ {w}]
    BY <1>2, Updates
<1>4. sync'[a].steady \subseteq Hooked(Workflows)'
    BY <1>1, <1>2, <1>3 DEF Gathers, Hooked
<1>5. \A v \in sync'[a].steady : v \in sync[a].steady /\ row'[v] = row[v]
    BY <1>1, <1>2, <1>3 DEF Gathers, Hooked
<1> QED BY <1>2, <1>3, <1>4, <1>5 DEF Gathers

\* With nothing steady there is nothing to show.
LEMMA NoneSteady ==
    ASSUME NEW s, s.steady = {}
    PROVE  Gathers(s)
BY DEF Gathers

LEMMA BeginGathers == Gathers(Begin)
<1>1. Begin.steady = Hooked(Workflows) /\ Begin.stage = "scan" /\ Begin.cursor = 0
    BY BeginIs
<1> QED BY <1>1 DEF Gathers

LEMMA ScanGathers ==
    ASSUME IInv, Gathered, NEW a \in Actors, Scan(a)
    PROVE  Gathered'
<1> DEFINE s == sync[a]
           page == [w \in Hooked(Page(s.cursor)) |-> PathOf[row[w].content]]
           d == Join(s.desired, page)
<1>1. /\ s.stage = "scan" /\ UNCHANGED row
      /\ Step(a, IF IsLast(s.cursor)
                 THEN [s EXCEPT !.stage = "refresh", !.desired = d, !.cursor = 0, !.todo = DOMAIN d]
                 ELSE [s EXCEPT !.desired = d, !.cursor = NextCursor(s.cursor)])
    BY DEF Scan
<1>2. Shaped(s) /\ s.cursor \in Nat /\ Gathers(s)
    BY DEF IInv, SyncOK, Sound, Shaped, Gathered
<1>3. ASSUME NEW w \in s.steady, w \in Page(s.cursor) \/ (s.cursor # 0 /\ row[w].changed >= s.cursor)
      PROVE  w \in DOMAIN d /\ d[w] = PathOf[row[w].content]
    <2>1. w \in Page(s.cursor) => w \in DOMAIN page
        BY <1>2 DEF Gathers, Hooked
    <2>2. w \in DOMAIN page => page[w] = PathOf[row[w].content]
        OBVIOUS
    <2>3. w \notin Page(s.cursor) => w \in DOMAIN s.desired /\ s.desired[w] = PathOf[row[w].content]
        BY <1>1, <1>2, <1>3 DEF Gathers
    <2> HIDE DEF page
    <2> QED BY <2>1, <2>2, <2>3 DEF Join
<1>4. \A w \in s.steady : /\ row[w].changed \in Nat
                          /\ w \in After(s.cursor) \/ (s.cursor # 0 /\ row[w].changed >= s.cursor)
    <2>1. \A w \in s.steady : w \in Workflows /\ row[w].active
        BY <1>2 DEF Gathers, Hooked
    <2>2. \A w \in s.steady : row[w] \in Row /\ Exists(w)
        BY <2>1 DEF IInv, RowsOK, Exists, Absent
    <2> QED BY <1>2, <2>1, <2>2, SceneTyped DEF After, Row, IInv, RowsOK
<1> HIDE DEF s, d
<1>5. CASE IsLast(s.cursor)
    <2>1. Step(a, [stage |-> "refresh", desired |-> d, cursor |-> 0, todo |-> DOMAIN d,
                   now |-> s.now, steady |-> s.steady])
        <3> DEFINE t == DOMAIN d
        <3> DEFINE x == [s EXCEPT !.stage = "refresh", !.desired = d, !.cursor = 0, !.todo = t]
        <3>1. Step(a, x)
            BY <1>1, <1>2, <1>5
        <3> HIDE DEF t
        <3>2. DOMAIN s = {"stage", "desired", "cursor", "todo", "now", "steady"}
            BY <1>1, <1>2, <1>5 DEF Shaped
        <3>3. x = [f \in DOMAIN s |-> IF f = "todo" THEN t ELSE IF f = "cursor" THEN 0
                                    ELSE IF f = "desired" THEN d ELSE IF f = "stage" THEN "refresh" ELSE s[f]]
            OBVIOUS
        <3>4. x = [stage |-> "refresh", desired |-> d, cursor |-> 0,
                 todo |-> t, now |-> s.now, steady |-> s.steady]
            BY <1>1, <1>2, <1>5, <3>2, <3>3
        <3> HIDE DEF x
        <3> QED BY <3>1, <3>4 DEF t
    <2>2. Gathers([stage |-> "refresh", desired |-> d, cursor |-> 0, todo |-> DOMAIN d,
                   now |-> s.now, steady |-> s.steady])
        BY <1>2, <1>3, <1>4, <1>5 DEF Gathers, IsLast
    <2> QED BY <1>1, <2>1, <2>2, StepGathers
<1>6. CASE ~IsLast(s.cursor)
    <2>1. Step(a, [stage |-> "scan", desired |-> d, cursor |-> NextCursor(s.cursor),
                   todo |-> s.todo, now |-> s.now, steady |-> s.steady])
        <3> DEFINE c == NextCursor(s.cursor)
        <3> DEFINE x == [s EXCEPT !.desired = d, !.cursor = c]
        <3>1. Step(a, x)
            BY <1>1, <1>2, <1>6
        <3> HIDE DEF c
        <3>2. DOMAIN s = {"stage", "desired", "cursor", "todo", "now", "steady"}
            BY <1>1, <1>2, <1>6 DEF Shaped
        <3>3. x = [f \in DOMAIN s |-> IF f = "cursor" THEN c
                                    ELSE IF f = "desired" THEN d ELSE s[f]]
            OBVIOUS
        <3>4. x = [stage |-> "scan", desired |-> d, cursor |-> c,
                 todo |-> s.todo, now |-> s.now, steady |-> s.steady]
            BY <1>1, <1>2, <1>6, <3>2, <3>3
        <3> HIDE DEF x
        <3> QED BY <3>1, <3>4 DEF c
    <2>2. /\ NextCursor(s.cursor) \in Nat
          /\ \A w \in After(s.cursor) \ Page(s.cursor) : row[w].changed < NextCursor(s.cursor)
        BY <1>2, <1>6, CursorPasses DEF IInv
    <2>3. ASSUME NEW w \in s.steady, row[w].changed >= NextCursor(s.cursor)
          PROVE  w \in DOMAIN d /\ d[w] = PathOf[row[w].content]
        BY <1>3, <1>4, <2>2, <2>3
    <2>4. Gathers([stage |-> "scan", desired |-> d, cursor |-> NextCursor(s.cursor),
                   todo |-> s.todo, now |-> s.now, steady |-> s.steady])
        BY <1>2, <2>3 DEF Gathers
    <2> QED BY <1>1, <2>1, <2>4, StepGathers
<1> QED BY <1>5, <1>6

\* A step that begins something else.
LEMMA AfreshGathers ==
    ASSUME IInv, Gathered, UNCHANGED row, NEW a \in Actors, NEW x, x.steady = {}, Step(a, x)
    PROVE  Gathered'
BY NoneSteady, StepGathers

LEMMA ListGathers ==
    ASSUME IInv, Gathered, NEW a \in Actors, List(a)
    PROVE  Gathered'
<1> DEFINE d == [s \in Wanted(Newest({w \in Workflows : Exists(w)}, ListCap)) |-> row[s[1]].version]
           r == At("apply")
<1>1. UNCHANGED row /\ Step(a, [r EXCEPT !.desired = d])
    BY DEF List
<1>2. Shaped(r) /\ r.steady = {}
    BY AtFields
<1> HIDE DEF d, r
<1> DEFINE x == [r EXCEPT !.desired = d]
<1>3. x.steady = {}
    BY <1>2, Updates
<1> HIDE DEF x
<1>4. Step(a, x)
    BY <1>1 DEF x
<1> QED BY <1>1, <1>3, <1>4, AfreshGathers

LEMMA ApplyGathers ==
    ASSUME IInv, Gathered, NEW a \in Actors, Apply(a)
    PROVE  Gathered'
<1>1. UNCHANGED row /\ Step(a, IF a = "loop" THEN Begin ELSE At("off"))
    BY DEF Apply
<1>2. Gathers(Begin) /\ Gathers(At("off"))
    BY BeginGathers, NoneSteady, AtFields
<1> QED BY <1>1, <1>2, StepGathers

LEMMA PullGathers ==
    ASSUME IInv, Gathered, Pull
    PROVE  Gathered'
BY BeginGathers, StepGathers DEF Pull, Actors

LEMMA AbortGathers ==
    ASSUME IInv, Gathered, Abort
    PROVE  Gathered'
BY AtFields, NoneSteady, StepGathers DEF Abort, Actors

LEMMA ClearGathers ==
    ASSUME IInv, Gathered, NEW a \in Actors, Clear(a)
    PROVE  Gathered'
<1> DEFINE s == sync[a]
<1>1. PICK w \in s.todo :
          /\ s.stage = "refresh" /\ UNCHANGED row
          /\ Step(a, [s EXCEPT !.stage = "fill", !.todo = s.todo \ {w}, !.now = w])
    BY DEF Clear, IInv, SyncOK, Sound
<1>2. Shaped(s) /\ Gathers(s)
    BY DEF IInv, SyncOK, Sound, Shaped, Gathered
<1> HIDE DEF s
<1>3. Step(a, [stage |-> "fill", desired |-> s.desired, cursor |-> s.cursor,
               todo |-> s.todo \ {w}, now |-> w, steady |-> s.steady])
    <2> DEFINE t == s.todo \ {w}
    <2> DEFINE x == [s EXCEPT !.stage = "fill", !.todo = t, !.now = w]
    <2>1. Step(a, x)
        BY <1>1, <1>2
    <2> HIDE DEF t
    <2>2. DOMAIN s = {"stage", "desired", "cursor", "todo", "now", "steady"}
        BY <1>1, <1>2 DEF Shaped
    <2>3. x = [f \in DOMAIN s |-> IF f = "now" THEN w ELSE IF f = "todo" THEN t
                                ELSE IF f = "stage" THEN "fill" ELSE s[f]]
        OBVIOUS
    <2>4. x = [stage |-> "fill", desired |-> s.desired, cursor |-> s.cursor,
             todo |-> t, now |-> w, steady |-> s.steady]
        BY <1>1, <1>2, <2>2, <2>3
    <2> HIDE DEF x
    <2> QED BY <2>1, <2>4 DEF t
<1>4. Gathers([stage |-> "fill", desired |-> s.desired, cursor |-> s.cursor,
               todo |-> s.todo \ {w}, now |-> w, steady |-> s.steady])
    BY <1>1, <1>2 DEF Gathers
<1> QED BY <1>1, <1>3, <1>4, StepGathers

LEMMA FillGathers ==
    ASSUME IInv, Gathered, NEW a \in Actors, Fill(a)
    PROVE  Gathered'
<1> DEFINE s == sync[a]
<1>1. /\ s.stage = "fill" /\ UNCHANGED row
      /\ Step(a, [s EXCEPT !.stage = "refresh", !.now = None])
    BY DEF Fill
<1>2. Shaped(s) /\ Gathers(s)
    BY DEF IInv, SyncOK, Sound, Shaped, Gathered
<1> HIDE DEF s
<1>3. Step(a, [stage |-> "refresh", desired |-> s.desired, cursor |-> s.cursor,
               todo |-> s.todo, now |-> None, steady |-> s.steady])
    <2> DEFINE x == [s EXCEPT !.stage = "refresh", !.now = None]
    <2>1. Step(a, x)
        BY <1>1, <1>2
    <2>2. DOMAIN s = {"stage", "desired", "cursor", "todo", "now", "steady"}
        BY <1>1, <1>2 DEF Shaped
    <2>3. x = [f \in DOMAIN s |-> IF f = "now" THEN None
                                ELSE IF f = "stage" THEN "refresh" ELSE s[f]]
        OBVIOUS
    <2>4. x = [stage |-> "refresh", desired |-> s.desired, cursor |-> s.cursor,
             todo |-> s.todo, now |-> None, steady |-> s.steady]
        BY <1>1, <1>2, <2>2, <2>3
    <2> HIDE DEF x
    <2> QED BY <2>1, <2>4
<1>4. Gathers([stage |-> "refresh", desired |-> s.desired, cursor |-> s.cursor,
               todo |-> s.todo, now |-> None, steady |-> s.steady])
    BY <1>1, <1>2 DEF Gathers
<1> QED BY <1>1, <1>3, <1>4, StepGathers

LEMMA GetAllGathers ==
    ASSUME IInv, Gathered, NEW a \in Actors, GetAll(a)
    PROVE  Gathered'
<1> DEFINE r == At("prune")
           T == Prunable(a)
           S == sync[a].steady
<1>1. /\ sync[a].stage = "refresh" /\ UNCHANGED row
      /\ Step(a, IF T = {} THEN At("list") ELSE [r EXCEPT !.todo = T, !.steady = S])
    BY DEF GetAll
<1>2. S \subseteq DOMAIN sync[a].desired /\ S \subseteq Hooked(Workflows)
    BY <1>1 DEF Gathered, Gathers
<1>3. S \cap T = {}
    BY <1>2 DEF Prunable
<1>4. Shaped(r) /\ r.stage = "prune"
    BY AtFields
<1>5. Gathers(At("list"))
    BY AtFields, NoneSteady
<1> HIDE DEF r, T, S
<1>6. CASE T = {}
    BY <1>1, <1>5, <1>6, StepGathers
<1>7. CASE T # {}
    <2>1. Step(a, [stage |-> "prune", desired |-> r.desired, cursor |-> r.cursor,
                   todo |-> T, now |-> r.now, steady |-> S])
        <3> DEFINE x == [r EXCEPT !.todo = T, !.steady = S]
        <3>1. Step(a, x)
            BY <1>1, <1>4, <1>7
        <3>2. DOMAIN r = {"stage", "desired", "cursor", "todo", "now", "steady"}
            BY <1>1, <1>4, <1>7 DEF Shaped
        <3>3. x = [f \in DOMAIN r |-> IF f = "steady" THEN S
                                    ELSE IF f = "todo" THEN T ELSE r[f]]
            OBVIOUS
        <3>4. x = [stage |-> "prune", desired |-> r.desired, cursor |-> r.cursor,
                 todo |-> T, now |-> r.now, steady |-> S]
            BY <1>1, <1>4, <1>7, <3>2, <3>3
        <3> HIDE DEF x
        <3> QED BY <3>1, <3>4
    <2>2. Gathers([stage |-> "prune", desired |-> r.desired, cursor |-> r.cursor,
                   todo |-> T, now |-> r.now, steady |-> S])
        BY <1>2, <1>3 DEF Gathers
    <2> QED BY <1>1, <2>1, <2>2, StepGathers
<1> QED BY <1>6, <1>7

LEMMA PruneGathers ==
    ASSUME IInv, Gathered, NEW a \in Actors, Prune(a)
    PROVE  Gathered'
<1> DEFINE s == sync[a]
<1>1. PICK w \in s.todo :
          /\ s.stage = "prune" /\ UNCHANGED row
          /\ Step(a, IF s.todo = {w} THEN At("list") ELSE [s EXCEPT !.todo = s.todo \ {w}])
    BY DEF Prune, IInv, SyncOK, Sound
<1>2. Shaped(s) /\ Gathers(s)
    BY DEF IInv, SyncOK, Sound, Shaped, Gathered
<1>3. Gathers(At("list"))
    BY AtFields, NoneSteady
<1> HIDE DEF s
<1>4. CASE s.todo = {w}
    BY <1>1, <1>3, <1>4, StepGathers
<1>5. CASE s.todo # {w}
    <2>1. Step(a, [stage |-> "prune", desired |-> s.desired, cursor |-> s.cursor,
                   todo |-> s.todo \ {w}, now |-> s.now, steady |-> s.steady])
        <3> DEFINE t == s.todo \ {w}
        <3> DEFINE x == [s EXCEPT !.todo = t]
        <3>1. Step(a, x)
            BY <1>1, <1>2, <1>5
        <3> HIDE DEF t
        <3>2. DOMAIN s = {"stage", "desired", "cursor", "todo", "now", "steady"}
            BY <1>1, <1>2, <1>5 DEF Shaped
        <3>3. x = [f \in DOMAIN s |-> IF f = "todo" THEN t ELSE s[f]]
            OBVIOUS
        <3>4. x = [stage |-> "prune", desired |-> s.desired, cursor |-> s.cursor,
                 todo |-> t, now |-> s.now, steady |-> s.steady]
            BY <1>1, <1>2, <1>5, <3>2, <3>3
        <3> HIDE DEF x
        <3> QED BY <3>1, <3>4 DEF t
    <2>2. Gathers([stage |-> "prune", desired |-> s.desired, cursor |-> s.cursor,
                   todo |-> s.todo \ {w}, now |-> s.now, steady |-> s.steady])
        BY <1>1, <1>2 DEF Gathers
    <2> QED BY <1>1, <2>1, <2>2, StepGathers
<1> QED BY <1>4, <1>5

LEMMA HandlersGather ==
    ASSUME IInv, Gathered, NEW r \in Requests,
           SetActive(r) \/ DeleteSchedule(r) \/ Handle(r)
    PROVE  Gathered'
<1>1. CASE SetActive(r)
    <2>1. PICK w \in Workflows, active \in BOOLEAN :
              Write(w, [row[w] EXCEPT !.active = active, !.changed = changes + 1])
        BY <1>1 DEF SetActive
    <2> QED BY <2>1, WriteGathers
<1>2. CASE DeleteRow(r)
    <2>1. req[r].wf \in Workflows
        BY <1>2 DEF DeleteRow, IInv, ReqsOK, ReqOK
    <2> QED BY <1>2, <2>1, WriteGathers DEF DeleteRow
<1>3. CASE DeleteSchedule(r) \/ ReadBack(r) \/ Reschedule(r) \/ DeleteHooks(r)
    BY <1>3, OthersGather DEF DeleteSchedule, ReadBack, Reschedule, DeleteHooks
<1> QED BY <1>1, <1>2, <1>3 DEF Handle

LEMMA NextGathers == IInv /\ Gathered /\ [Next]_vars => Gathered'
<1> SUFFICES ASSUME IInv, Gathered, [Next]_vars PROVE Gathered'
    OBVIOUS
<1>1. ASSUME NEW w \in Workflows, Save(w) PROVE Gathered'
    <2>1. PICK content \in scene.contents, active \in BOOLEAN :
              Write(w, [active |-> active, content |-> content,
                        version |-> changes + 1, changed |-> changes + 1])
        BY <1>1 DEF Save
    <2> QED BY <2>1, WriteGathers
<1>2. ASSUME NEW r \in scene.requests, SetActive(r) \/ DeleteSchedule(r) \/ Handle(r)
      PROVE  Gathered'
    <2>1. r \in Requests
        BY SceneTyped DEF IInv, RowsOK
    <2> QED BY <1>2, <2>1, HandlersGather
<1>3. ASSUME NEW a \in Actors, Synchronise(a) PROVE Gathered'
    BY <1>3, ListGathers, ApplyGathers, ScanGathers, ClearGathers, FillGathers,
       GetAllGathers, PruneGathers DEF Synchronise
<1>4. CASE Pull \/ Abort
    BY <1>4, PullGathers, AbortGathers
<1>5. CASE (\E p \in Paths : LookUp(p)) \/ Validate \/ ScanRows \/ Answered
    BY <1>5, OthersGather DEF LookUp, Validate, ScanRows, Answered
<1>6. CASE UNCHANGED vars
    BY <1>6, OthersGather DEF vars
<1> QED BY <1>1, <1>2, <1>3, <1>4, <1>5, <1>6 DEF Next

\* Whatever is written while the loop and a pull read the rows, page by page,
\* and whatever they do to the index of each other, neither forgets a workflow
\* that stayed active and as it was: it is registered under its path, and it is
\* not pruned, for pages of any size and any number of changes.
THEOREM ReconcilesRightHolds == Spec => []ReconcilesRight
<1>1. Init => Gathered
    <2>1. Gathers(At("list")) /\ Gathers(At("off"))
        BY AtFields, NoneSteady
    <2> QED BY <2>1 DEF Init, Gathered
<1>2. IInv /\ Gathered /\ [Next]_vars => Gathered'
    BY NextGathers
<1>3. Gathered => ReconcilesRight
    BY DEF Gathered, Gathers, ReconcilesRight
<1> QED BY <1>1, <1>2, <1>3, ActivationInductive, PTL DEF Spec

=============================================================================
