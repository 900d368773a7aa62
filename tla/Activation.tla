----------------------------- MODULE Activation -----------------------------
(***************************************************************************)
(* Which workflows may start by themselves.  The rows of the database say  *)
(* it; on every instance two copies follow them: the scheduler's jobs      *)
(* (scheduler.go) and the index of webhook paths (webhook_registry.go).    *)
(* The copies are changed by handlers, by the runtime loop, which brings   *)
(* them into line every 30 seconds, and by a pull from source control,     *)
(* which does the same under the context of its request.  Requests for     *)
(* webhooks look into the index and, failing that, at the rows.            *)
(*                                                                         *)
(* A statement of the database is one step, and so is what happens under   *)
(* the scheduler's lock.  Statements do not fail.  A workflow has at most  *)
(* one webhook and one schedule, which its content decides, and webhooks   *)
(* take every method.  Rows change on this instance or, in Save, anywhere. *)
(***************************************************************************)
EXTENDS Naturals, FiniteSets

CONSTANTS
    Workflows,
    Contents,   \* what a workflow may be saved with:
    PathOf,     \* the path of its webhook, or None,
    NodeOf,     \* and the schedule trigger among its nodes, or None
    Paths,
    Nodes,
    Scenes,     \* bounds, of which a behaviour has one: what contents are
                \* saved, which handlers run, how many changes and pulls
                \* there are at most, and whether webhooks are called
    None,
    Requests,   \* handlers that change workflows
    ListCap,    \* rows List returns at most (250)
    PageSize    \* rows of a page of ListPage (250)

ASSUME ActivationAssumption ==
    /\ PathOf \in [Contents -> Paths \cup {None}]
    /\ NodeOf \in [Contents -> Nodes \cup {None}]
    /\ Scenes \subseteq [contents : SUBSET Contents, requests : SUBSET Requests,
                         changes : Nat, pulls : Nat, calls : BOOLEAN]
    /\ IsFiniteSet(Workflows)
    /\ None \notin Paths \cup Nodes \cup Workflows \cup Contents
    /\ ListCap \in Nat \ {0} /\ PageSize \in Nat \ {0}

VARIABLES
    scene,   \* does not change
    row,     \* of each workflow, Absent or its row
    changes, \* changes so far, which number versions and times of change
    jobs,    \* of each schedule: the version it was started for, or 0, and
             \* whose context it has
    index,   \* of each path: the workflow registered for it, or None
    req,     \* of each handler: how far it is
    sync,    \* of the loop and of the pull: how far each is
    pulls,
    ask      \* a request for a webhook

vars == <<scene, row, changes, jobs, index, req, sync, pulls, ask>>

Absent == [active |-> FALSE, content |-> None, version |-> 0, changed |-> 0]
Row == [active : BOOLEAN, content : Contents, version : 1..scene.changes,
        changed : 1..scene.changes]
NoJob == [version |-> 0, ctx |-> None]
Schedules == Workflows \X Nodes
Actors == {"loop", "pull"}

Exists(w) == row[w] # Absent
Offers(r, p) == r.active /\ r.content # None /\ PathOf[r.content] = p
Scheduled(r, n) == r.active /\ r.content # None /\ NodeOf[r.content] = n

\* The most recently changed of a set of workflows.
Newest(ws, k) ==
    {w \in ws : Cardinality({v \in ws : row[v].changed > row[w].changed}) < k}

\* ListPage: what comes after a cursor, 0 for the first page.
After(cursor) == {w \in Workflows : Exists(w) /\ (cursor = 0 \/ row[w].changed < cursor)}
Page(cursor) == Newest(After(cursor), PageSize)

\* Mutant of IsLast: the first page is taken for all there is.
IsLastAlways(cursor) == Page(cursor) \subseteq After(cursor)

IsLast(cursor) == After(cursor) = Page(cursor)
NextCursor(cursor) ==
    CHOOSE c \in {row[w].changed : w \in Page(cursor)} :
        \A w \in Page(cursor) : c <= row[w].changed

-----------------------------------------------------------------------------
\* History: of a request for a webhook, the workflows that have offered its
\* path at some time since it arrived, and those that have done so all the
\* time without being changed.  Of a reconciliation, the active workflows with
\* a webhook that were not changed since it began to read the rows.

Observed(w, new) ==
    IF ask.path = None THEN ask
    ELSE [ask EXCEPT !.steady = @ \ {w},
                     !.offered = IF Offers(new, ask.path) THEN @ \cup {w} ELSE @]

Write(w, new) ==
    /\ row' = [row EXCEPT ![w] = new]
    /\ ask' = Observed(w, new)
    /\ sync' = [a \in Actors |-> [sync[a] EXCEPT !.steady = @ \ {w}]]

-----------------------------------------------------------------------------
\* Saving.  A handler may have read the row before, to fill in what the body of
\* its request left out, so it may write any content and either flag; it may
\* write a workflow that is being deleted.
Save(w) ==
    \E content \in scene.contents, active \in BOOLEAN :
        /\ changes < scene.changes
        /\ changes' = changes + 1
        /\ Write(w, [active |-> active, content |-> content,
                     version |-> changes + 1, changed |-> changes + 1])
        /\ UNCHANGED <<scene, jobs, index, req, pulls>>

-----------------------------------------------------------------------------
\* setWorkflowActive and handleDeleteWorkflow.

Free == [stage |-> "free", wf |-> None, active |-> FALSE,
         node |-> None, version |-> 0]

\* SetActive writes the row.
SetActive(r) ==
    \E w \in Workflows, active \in BOOLEAN :
        /\ req[r] = Free
        /\ Exists(w)
        /\ changes < scene.changes
        /\ changes' = changes + 1
        /\ Write(w, [row[w] EXCEPT !.active = active, !.changed = changes + 1])
        /\ req' = [req EXCEPT ![r] = [Free EXCEPT !.stage = "set", !.wf = w, !.active = active]]
        /\ UNCHANGED <<scene, jobs, index, pulls>>

\* GetByID reads it back.
ReadBack(r) ==
    LET w == req[r].wf IN
    /\ req[r].stage = "set"
    /\ req' = [req EXCEPT
           ![r] = IF Exists(w)
                  THEN [@ EXCEPT !.stage = "read", !.version = row[w].version,
                                 !.node = NodeOf[row[w].content]]
                  ELSE Free]
    /\ UNCHANGED <<scene, row, changes, jobs, index, sync, pulls, ask>>

\* startWorkflowSchedule, which replaces a job of another version but leaves
\* those of other nodes.
Start(w, node, version) ==
    jobs' = [s \in Schedules |->
        IF s = <<w, node>> /\ jobs[s].version # version
        THEN [version |-> version, ctx |-> "server"]
        ELSE jobs[s]]

\* stopWorkflowSchedule.
Stop(w) == jobs' = [s \in Schedules |-> IF s[1] = w THEN NoJob ELSE jobs[s]]

Reschedule(r) ==
    /\ req[r].stage = "read"
    /\ IF req[r].active THEN Start(req[r].wf, req[r].node, req[r].version)
                    ELSE Stop(req[r].wf)
    /\ req' = [req EXCEPT ![r] = Free]
    /\ UNCHANGED <<scene, row, changes, index, sync, pulls, ask>>

DeleteSchedule(r) ==
    \E w \in Workflows :
        /\ req[r] = Free
        /\ changes < scene.changes
        /\ changes' = changes + 1
        /\ Stop(w)
        /\ req' = [req EXCEPT ![r] = [Free EXCEPT !.stage = "stopped", !.wf = w]]
        /\ UNCHANGED <<scene, row, index, sync, pulls, ask>>

DeleteRow(r) ==
    /\ req[r].stage = "stopped"
    /\ Write(req[r].wf, Absent)
    /\ req' = [req EXCEPT ![r] = IF Exists(@.wf) THEN [@ EXCEPT !.stage = "deleted"] ELSE Free]
    /\ UNCHANGED <<scene, changes, jobs, index, pulls>>

\* The store's DeleteByWorkflow.
Unregister(w) == index' = [p \in Paths |-> IF index[p] = w THEN None ELSE index[p]]

DeleteHooks(r) ==
    /\ req[r].stage = "deleted"
    /\ Unregister(req[r].wf)
    /\ req' = [req EXCEPT ![r] = Free]
    /\ UNCHANGED <<scene, row, changes, jobs, sync, pulls, ask>>

-----------------------------------------------------------------------------
\* The loop and the pull.  The loop lists, applies the list to the jobs and
\* then reconciles the index; the pull does the same the other way round.

At(stage) == [stage |-> stage, desired |-> <<>>, cursor |-> 0, todo |-> {}, now |-> None,
              steady |-> {}]
Step(a, to) == sync' = [sync EXCEPT ![a] = to]
Ctx(a) == IF a = "loop" THEN "server" ELSE "request"

Join(f, g) == [x \in DOMAIN f \cup DOMAIN g |-> IF x \in DOMAIN g THEN g[x] ELSE f[x]]

Hooked(ws) == {w \in ws : row[w].active /\ PathOf[row[w].content] # None}

\* reconcileWebhookRegistry begins.
Begin == [At("scan") EXCEPT !.steady = Hooked(Workflows)]

Pull ==
    /\ sync["pull"].stage = "off"
    /\ pulls < scene.pulls
    /\ pulls' = pulls + 1
    /\ Step("pull", Begin)
    /\ UNCHANGED <<scene, row, changes, jobs, index, req, ask>>

\* Mutant of Wanted: an inactive workflow keeps its schedule.
WantedInactive(ws) == {s \in ws \X Nodes : NodeOf[row[s[1]].content] = s[2]}

Wanted(ws) == {s \in ws \X Nodes : Scheduled(row[s[1]], s[2])}

List(a) ==
    LET listed == Newest({w \in Workflows : Exists(w)}, ListCap) IN
    /\ sync[a].stage = "list"
    /\ Step(a, [At("apply") EXCEPT
           !.desired = [s \in Wanted(listed) |-> row[s[1]].version]])
    /\ UNCHANGED <<scene, row, changes, jobs, index, req, pulls, ask>>

\* The rest of syncScheduledWorkflows.  What a pull starts ends with the pull,
\* which is over, but keeps its place among the jobs.
Apply(a) ==
    LET desired == sync[a].desired
        Current(s) == IF s \in DOMAIN desired
                      THEN jobs[s].version = desired[s]
                      ELSE jobs[s] = NoJob IN
    /\ sync[a].stage = "apply"
    /\ jobs' = [s \in Schedules |->
           IF Current(s) THEN jobs[s]
           ELSE IF s \in DOMAIN desired
                THEN [version |-> desired[s], ctx |-> Ctx(a)]
                ELSE NoJob]
    /\ Step(a, IF a = "loop" THEN Begin ELSE At("off"))
    /\ UNCHANGED <<scene, row, changes, index, req, pulls, ask>>

\* It collects the paths of the active workflows, page by page.
Scan(a) ==
    LET cursor == sync[a].cursor
        desired == Join(sync[a].desired,
                        [w \in Hooked(Page(cursor)) |-> PathOf[row[w].content]]) IN
    /\ sync[a].stage = "scan"
    /\ Step(a, IF IsLast(cursor)
               THEN [sync[a] EXCEPT !.stage = "refresh", !.desired = desired, !.cursor = 0,
                                    !.todo = DOMAIN desired]
               ELSE [sync[a] EXCEPT !.desired = desired, !.cursor = NextCursor(cursor)])
    /\ UNCHANGED <<scene, row, changes, jobs, index, req, pulls, ask>>

\* Of each it clears the entries and saves them anew.
Clear(a) ==
    \E w \in sync[a].todo :
        /\ sync[a].stage = "refresh"
        /\ Unregister(w)
        /\ Step(a, [sync[a] EXCEPT !.stage = "fill", !.todo = @ \ {w}, !.now = w])
        /\ UNCHANGED <<scene, row, changes, jobs, req, pulls, ask>>

Fill(a) ==
    /\ sync[a].stage = "fill"
    /\ index' = [index EXCEPT ![sync[a].desired[sync[a].now]] = sync[a].now]
    /\ Step(a, [sync[a] EXCEPT !.stage = "refresh", !.now = None])
    /\ UNCHANGED <<scene, row, changes, jobs, req, pulls, ask>>

\* Then it reads what is registered and
Prunable(a) == {index[p] : p \in Paths} \ (DOMAIN sync[a].desired \cup {None})

\* Mutant of GetAll: what should not be registered is left there.
GetNothing(a) ==
    /\ sync[a].stage = "refresh" /\ sync[a].todo = {}
    /\ Step(a, At("list"))
    /\ UNCHANGED <<scene, row, changes, jobs, index, req, pulls, ask>>

GetAll(a) ==
    /\ sync[a].stage = "refresh" /\ sync[a].todo = {}
    /\ Step(a, IF Prunable(a) = {} THEN At("list")
               ELSE [At("prune") EXCEPT !.todo = Prunable(a), !.steady = sync[a].steady])
    /\ UNCHANGED <<scene, row, changes, jobs, index, req, pulls, ask>>

\* removes what should not be.
Prune(a) ==
    \E w \in sync[a].todo :
        /\ sync[a].stage = "prune"
        /\ Unregister(w)
        /\ Step(a, IF sync[a].todo = {w} THEN At("list") ELSE [sync[a] EXCEPT !.todo = @ \ {w}])
        /\ UNCHANGED <<scene, row, changes, jobs, req, pulls, ask>>

\* The client of a pull goes away, and with it the context.
Abort ==
    /\ sync["pull"].stage # "off"
    /\ Step("pull", At("off"))
    /\ UNCHANGED <<scene, row, changes, jobs, index, req, pulls, ask>>

-----------------------------------------------------------------------------
\* findHTTPTriggerWorkflow.

NoAsk == [stage |-> "none", path |-> None, hit |-> None, cursor |-> 0,
          steady |-> {}, offered |-> {}]

\* A request arrives, and registeredWebhookByPath looks into the index.
LookUp(p) ==
    LET now == {w \in Workflows : Offers(row[w], p)} IN
    /\ scene.calls
    /\ ask = NoAsk
    /\ ask' = [NoAsk EXCEPT !.stage = IF index[p] = None THEN "scan" ELSE "validate",
                            !.path = p, !.hit = index[p], !.steady = now, !.offered = now]
    /\ UNCHANGED <<scene, row, changes, jobs, index, req, sync, pulls>>

\* Mutant of Validate: an entry that has become stale ends the search.
ValidateFails ==
    /\ ask.stage = "validate"
    /\ ask' = IF Offers(row[ask.hit], ask.path)
              THEN [ask EXCEPT !.stage = "answered"]
              ELSE [ask EXCEPT !.stage = "answered", !.hit = None]
    /\ UNCHANGED <<scene, row, changes, jobs, index, req, sync, pulls>>

\* The rest of lookupRegisteredWebhook: what is registered is compared with the
\* row.
Validate ==
    /\ ask.stage = "validate"
    /\ ask' = IF Offers(row[ask.hit], ask.path)
              THEN [ask EXCEPT !.stage = "answered"]
              ELSE [ask EXCEPT !.stage = "scan", !.hit = None]
    /\ UNCHANGED <<scene, row, changes, jobs, index, req, sync, pulls>>

\* The scan takes the first row that offers the path.
ScanRows ==
    LET found == {w \in Page(ask.cursor) : Offers(row[w], ask.path)} IN
    /\ ask.stage = "scan"
    /\ \/ \E w \in Newest(found, 1) :
            ask' = [ask EXCEPT !.stage = "answered", !.hit = w]
       \/ /\ found = {}
          /\ ask' = IF IsLast(ask.cursor)
                    THEN [ask EXCEPT !.stage = "answered"]
                    ELSE [ask EXCEPT !.cursor = NextCursor(ask.cursor)]
    /\ UNCHANGED <<scene, row, changes, jobs, index, req, sync, pulls>>

Answered ==
    /\ ask.stage = "answered"
    /\ ask' = NoAsk
    /\ UNCHANGED <<scene, row, changes, jobs, index, req, sync, pulls>>

-----------------------------------------------------------------------------
\* The server starts with an index left by an earlier run, as old as it likes.
\* Rows it finds are as good as saved while it starts.
Init ==
    /\ scene \in Scenes
    /\ row = [w \in Workflows |-> Absent]
    /\ changes = 0
    /\ jobs = [s \in Schedules |-> NoJob]
    /\ index \in [Paths -> Workflows \cup {None}]
    /\ req = [r \in Requests |-> Free]
    /\ sync = [a \in Actors |-> IF a = "loop" THEN At("list") ELSE At("off")]
    /\ pulls = 0
    /\ ask = NoAsk

Handle(r) == ReadBack(r) \/ Reschedule(r) \/ DeleteRow(r) \/ DeleteHooks(r)

Synchronise(a) ==
    \/ List(a) \/ Apply(a) \/ Scan(a) \/ Clear(a) \/ Fill(a) \/ GetAll(a)
    \/ Prune(a)

Next ==
    \/ \E w \in Workflows : Save(w)
    \/ \E r \in scene.requests : SetActive(r) \/ DeleteSchedule(r) \/ Handle(r)
    \/ \E a \in Actors : Synchronise(a)
    \/ Pull \/ Abort
    \/ \E p \in Paths : LookUp(p)
    \/ Validate \/ ScanRows \/ Answered

Spec == Init /\ [][Next]_vars

\* The loop's ticker fires again and again; handlers go on.  Nobody need change
\* anything or ask for a webhook.
Fairness ==
    /\ WF_vars(Synchronise("loop"))
    /\ WF_vars(Synchronise("pull") \/ Abort)
    /\ \A r \in Requests : WF_vars(Handle(r))

FairSpec == Spec /\ Fairness

-----------------------------------------------------------------------------
TypeOK ==
    /\ scene \in Scenes
    /\ row \in [Workflows -> {Absent} \cup Row]
    /\ changes \in 0..scene.changes
    /\ jobs \in [Schedules -> {NoJob} \cup
                   [version : 1..scene.changes, ctx : {"server", "request"}]]
    /\ index \in [Paths -> Workflows \cup {None}]
    /\ \A r \in Requests :
        /\ req[r].stage \in {"free", "set", "read", "stopped", "deleted"}
        /\ req[r].stage = "read" => req[r].version \in 1..scene.changes
    /\ \A a \in Actors :
        /\ sync[a].stage \in {"off", "list", "apply", "scan", "refresh", "fill", "prune"}
        /\ DOMAIN sync[a].desired \subseteq IF sync[a].stage = "apply" THEN Schedules ELSE Workflows
        /\ sync[a].stage = "fill" => sync[a].now \in DOMAIN sync[a].desired
        /\ sync[a].todo \subseteq Workflows
    /\ pulls \in 0..scene.pulls
    /\ ask.stage \in {"none", "validate", "scan", "answered"}
    /\ ask.hit \in Workflows \cup {None}
    /\ ask.steady \subseteq ask.offered

\* A request for a webhook is answered by a workflow that offered its path
\* while the request was there, and it is not turned away if some workflow
\* offered the path all the time, however stale the index is, whoever is
\* clearing or filling it, and whatever moves among the pages of the scan.
RoutedRight ==
    ask.stage = "answered" =>
        /\ ask.hit # None => ask.hit \in ask.offered
        /\ ask.steady # {} => ask.hit # None

\* A reconciliation takes a workflow out of the index for good only if it was
\* not active all the time or changed since the reading of the rows began, and
\* what stayed as it was it registers under the path it has, however other rows
\* move among the pages meanwhile.
ReconcilesRight ==
    \A a \in Actors : \A w \in sync[a].steady :
        /\ sync[a].stage \in {"refresh", "fill"} =>
               w \in DOMAIN sync[a].desired /\ sync[a].desired[w] = PathOf[row[w].content]
        /\ sync[a].stage = "prune" => w \notin sync[a].todo

\* Whatever handlers, the loop and a pull have done to the jobs in whatever
\* order, once nobody changes the rows any more the jobs are those of the rows
\* the loop lists, at their present version, and they have a context that is
\* still alive, unless a pull has started them.
SchedulesSettle ==
    <>[](\A s \in Schedules :
            LET w == s[1]
                wanted == /\ w \in Newest({v \in Workflows : Exists(v)}, ListCap)
                          /\ Scheduled(row[w], s[2]) IN
            /\ jobs[s].version = IF wanted THEN row[w].version ELSE 0
            /\ jobs[s].ctx = "request" => pulls > 0)

\* In the end nothing is registered that the rows do not offer, and what they
\* offer is registered again and again: two workflows that offer one path take
\* it from each other in every round.
IndexSettles ==
    /\ <>[](\A p \in Paths : index[p] # None => Offers(row[index[p]], p))
    /\ \A p \in Paths :
        []<>(index[p] # None \/ \A w \in Workflows : ~Offers(row[w], p))
=============================================================================
