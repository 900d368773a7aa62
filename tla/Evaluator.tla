------------------------------ MODULE Evaluator ------------------------------
(***************************************************************************)
(* The run of one execution's workflow (engine/evaluator.go), and what is  *)
(* run when a node suspended it and it is resumed (api/wait_resume.go).    *)
(*                                                                         *)
(* Nodes are executed in batches.  A batch runs in parallel and is awaited *)
(* as a whole; then its results are recorded and delivered, one after the  *)
(* other, which makes up the next batch.  A node with several inputs runs  *)
(* when something has been delivered to each.                              *)
(*                                                                         *)
(* Items are left out: of an input it matters whether anything has ever    *)
(* been delivered to it, as the evaluator adds to inputs and never clears  *)
(* them.  What a node does is chosen when its result is recorded: the      *)
(* outputs it has items on (retries and the items made from an error that  *)
(* is to be continued with included), an error, a suspension.  The order   *)
(* of a batch follows the connections of the workflow and is arbitrary     *)
(* here.                                                                   *)
(***************************************************************************)
EXTENDS Naturals, FiniteSets

CONSTANTS
    Nodes,
    Outputs,    \* indices of outputs and of inputs, from 0
    Inputs,
    None,
    Workflows,  \* see Workflow
    Requests    \* see Request

Edges == Nodes \X Outputs \X Nodes \X Inputs

\* The connections, as <<from, output, to, input>>; the nodes that are
\* disabled, are triggers, may suspend the execution.
Workflow == [edges : SUBSET Edges, disabled : SUBSET Nodes, triggers : SUBSET Nodes,
             waits : SUBSET Nodes]

\* ExecuteOptions: where to start, with what, and where to end, there or
\* (exclusive) before.
Request == [trigger : Nodes \cup {None}, starts : SUBSET Nodes,
            given : SUBSET (Nodes \X Inputs),
            destination : Nodes \cup {None}, exclusive : BOOLEAN]

ASSUME EvaluatorAssumption ==
    /\ None \notin Nodes
    /\ Outputs \subseteq Nat
    /\ Inputs \subseteq Nat /\ IsFiniteSet(Inputs) /\ 0 \in Inputs
    /\ Workflows \subseteq Workflow
    /\ Requests \subseteq Request

VARIABLES
    wf, request,
    phase,    \* "running", "waiting" or how the execution has ended
    inputs,   \* the inputs <<node, input>> something has been delivered to
    queue,    \* the next batch
    batch,    \* what has been executed and not been recorded
    done,     \* the nodes in runData
    stopErr,  \* a node has failed whose failure stops the workflow
    last,     \* lastNode
    resumed,  \* history: the execution was suspended and resumed; what got
    fed,      \* something delivered, ever and since it was last taken into a
    fresh,    \* batch; what got it while it waited for its turn in a batch;
    missed,
    owed      \* what was executed or due, and dropped at a suspension

flow == <<inputs, queue, batch, done, stopErr, last>>
history == <<resumed, fed, fresh, missed, owed>>
vars == <<wf, request, phase, flow, history>>

-----------------------------------------------------------------------------
\* The graph (dataplane/graph.go, connections.go).

Parents(n) == {m \in Nodes : \E o \in Outputs, i \in Inputs : <<m, o, n, i>> \in wf.edges}

\* The node and what leads to it.
Ancestors(n) ==
    {a \in Nodes : \A S \in SUBSET Nodes :
        n \in S /\ (\A m \in S : Parents(m) \subseteq S) => a \in S}

Connected(n) == {i \in Inputs : \E m \in Nodes, o \in Outputs : <<m, o, n, i>> \in wf.edges}

\* The indices below InputCount: an index is counted if it or a higher one is
\* connected.
Expected(n) == {i \in Inputs : \E c \in Connected(n) : i <= c}

\* allowedNodes and canExecuteNode.
Allowed(n) == request.destination = None \/ n \in Ancestors(request.destination)

CanExecute(n) == Allowed(n) /\ ~(request.exclusive /\ n = request.destination)

\* Mutant of HasAllInputs: one input is as good as all.
HasAnyInput(n, in) == \E i \in Inputs : <<n, i>> \in in

\* hasAllInputs, of a node that has been delivered something.
HasAllInputs(n, in) ==
    /\ \E i \in Inputs : <<n, i>> \in in
    /\ Cardinality(Expected(n)) > 1 => \A i \in Expected(n) : <<n, i>> \in in

\* Mutant of Starts: a node is started although it is disabled.
StartsDisabled(options) ==
    IF options.trigger # None
    THEN {options.trigger}
    ELSE {n \in Nodes : CanExecute(n) /\ (n \in options.starts \/ Connected(n) = {})}

\* startNodes.
Starts(options) ==
    IF options.trigger # None
    THEN {options.trigger} \ wf.disabled
    ELSE {n \in Nodes \ wf.disabled :
             /\ CanExecute(n)
             /\ CASE options.starts # {} -> n \in options.starts
                  [] options.starts = {} /\ options.given # {} ->
                         \E i \in Inputs : <<n, i>> \in options.given
                  [] options.starts = {} /\ options.given = {} ->
                         Connected(n) = {} \/ n \in wf.triggers}

-----------------------------------------------------------------------------
Init ==
    /\ wf \in Workflows
    /\ request \in Requests
    /\ phase = "running"
    /\ inputs = IF request.trigger = None THEN request.given
                ELSE request.given \cup {<<request.trigger, 0>>}
    /\ queue = Starts(request)
    /\ batch = {}
    /\ done = {}
    /\ stopErr = FALSE
    /\ last = None
    /\ resumed = FALSE
    /\ fed = {} /\ fresh = {} /\ missed = {} /\ owed = {}

\* Mutant of Take: the queue is not emptied.
TakeKeeping ==
    /\ phase = "running" /\ ~stopErr
    /\ batch = {} /\ queue # {}
    /\ batch' = queue
    /\ fresh' = fresh \ queue
    /\ missed' = missed \ queue
    /\ UNCHANGED <<wf, request, phase, inputs, queue, done, stopErr, last, resumed, fed, owed>>

\* executeReadyBatch.
Take ==
    /\ phase = "running" /\ ~stopErr
    /\ batch = {} /\ queue # {}
    /\ batch' = queue
    /\ queue' = {}
    /\ fresh' = fresh \ queue
    /\ missed' = missed \ queue
    /\ UNCHANGED <<wf, request, phase, inputs, done, stopErr, last, resumed, fed, owed>>

\* The context is done when the next batch is due.
Cancel ==
    /\ phase = "running" /\ ~stopErr
    /\ batch = {} /\ queue # {}
    /\ phase' = "canceled"
    /\ UNCHANGED <<wf, request, flow, history>>

\* What every result is taken through first.
Record(n) ==
    /\ phase = "running"
    /\ n \in batch
    /\ batch' = batch \ {n}
    /\ done' = done \cup {n}
    /\ last' = n

\* Whether a node is among those that are queued.
Queued(n) == n \in queue \/ n \in batch'

Targets(n, outs) ==
    {e \in wf.edges : e[1] = n /\ e[2] \in outs /\ CanExecute(e[3])}

IsEnd(n) == n = request.destination /\ ~request.exclusive

\* Mutant of Deliver: what is in runData is not run again.
DeliverOnce(n, outs) ==
    LET edges == IF IsEnd(n) THEN {} ELSE Targets(n, outs)
        targets == {e[3] : e \in edges}
        ready == {m \in targets \ wf.disabled : HasAllInputs(m, inputs')} IN
    /\ inputs' = inputs \cup {<<e[3], e[4]>> : e \in edges}
    /\ queue' = queue \cup {m \in ready : ~Queued(m) /\ m \notin done}
    /\ fed' = fed \cup targets
    /\ fresh' = fresh \cup targets
    /\ missed' = missed \cup {m \in ready : m \in batch'}

\* deliverOutputs, and the loop over what it returns.
Deliver(n, outs) ==
    LET edges == IF IsEnd(n) THEN {} ELSE Targets(n, outs)
        targets == {e[3] : e \in edges}
        ready == {m \in targets \ wf.disabled : HasAllInputs(m, inputs')} IN
    /\ inputs' = inputs \cup {<<e[3], e[4]>> : e \in edges}
    /\ queue' = queue \cup {m \in ready : ~Queued(m)}
    /\ fed' = fed \cup targets
    /\ fresh' = fresh \cup targets
    /\ missed' = missed \cup {m \in ready : m \in batch'}

Succeed(n) ==
    \E outs \in SUBSET Outputs :
        /\ Record(n)
        /\ IF stopErr
           THEN UNCHANGED <<inputs, queue, fed, fresh, missed>>
           ELSE Deliver(n, outs)
        /\ UNCHANGED <<wf, request, phase, stopErr, resumed, owed>>

\* The node fails and its failure stops the workflow, after this batch: its
\* error is not to be continued with, or is one of a context, its own or the
\* execution's.
Fail(n) ==
    /\ Record(n)
    /\ stopErr' = TRUE
    /\ UNCHANGED <<wf, request, phase, inputs, queue, history>>

\* The node suspends the execution.  The evaluator returns.
Suspend(n) ==
    /\ Record(n)
    /\ n \in wf.waits
    /\ phase' = "waiting"
    /\ owed' = (owed \cup batch' \cup queue) \ {n}
    /\ UNCHANGED <<wf, request, inputs, queue, stopErr, resumed, fed, fresh, missed>>

Return ==
    /\ phase = "running"
    /\ batch = {}
    /\ \/ stopErr /\ phase' = "error"
       \/ ~stopErr /\ queue = {} /\ phase' = "success"
    /\ UNCHANGED <<wf, request, flow, history>>

\* resumeWaitingExecution: a new run, with what the last node has on its
\* outputs, those without items included, as its initial inputs.
Resume ==
    \E outs \in {{o \in Outputs : o <= k} : k \in Outputs} :
        LET given == {<<e[3], e[4]>> : e \in {d \in wf.edges : d[1] = last /\ d[2] \in outs}}
            options == [trigger |-> None, starts |-> {}, given |-> given,
                        destination |-> None, exclusive |-> FALSE] IN
        /\ phase = "waiting"
        /\ resumed' = TRUE
        /\ request' = options
        /\ inputs' = given
        /\ queue' = IF given = {} THEN {}
                    ELSE {n \in Nodes \ wf.disabled : \E i \in Inputs : <<n, i>> \in given}
        /\ batch' = {}
        /\ stopErr' = FALSE
        /\ phase' = IF given = {} THEN "success" ELSE "running"
        /\ fed' = {} /\ fresh' = {} /\ missed' = {}
        /\ UNCHANGED <<wf, done, last, owed>>

Process(n) == Succeed(n) \/ Fail(n) \/ Suspend(n)

Next ==
    \/ Take \/ Cancel \/ Return \/ Resume
    \/ \E n \in Nodes : Process(n)

Spec == Init /\ [][Next]_vars

\* Nodes return, and the evaluator goes on.  Nobody need resume or cancel.
Fairness == WF_vars(Take \/ Return \/ \E n \in Nodes : Process(n))

FairSpec == Spec /\ Fairness

-----------------------------------------------------------------------------
TypeOK ==
    /\ wf \in Workflows
    /\ request \in Request
    /\ phase \in {"running", "waiting", "success", "error", "canceled"}
    /\ inputs \subseteq Nodes \X Inputs
    /\ queue \subseteq Nodes \ wf.disabled
    /\ batch \subseteq Nodes \ wf.disabled
    /\ done \subseteq Nodes \ wf.disabled
    /\ stopErr \in BOOLEAN /\ resumed \in BOOLEAN
    /\ last \in Nodes \cup {None}
    /\ fed \subseteq Nodes /\ fresh \subseteq fed /\ missed \subseteq fresh
    /\ owed \subseteq Nodes

\* A run that succeeds leaves nothing out: whatever was delivered, all inputs
\* of a node being there, has been run with, in whatever order the nodes of a
\* batch were taken, by branches that join and in loops.  The exception are
\* deliveries to a node that is itself waiting in the batch.
NothingLeftOut ==
    phase = "success" =>
        \A n \in fed \ wf.disabled :
            HasAllInputs(n, inputs) => n \in done /\ (n \in fresh => n \in missed)

\* Only what a run starts with is executed before all its inputs are there.
JoinsWait ==
    \A n \in queue \cup batch :
        n \in Starts(request) \/ \A i \in Connected(n) : <<n, i>> \in inputs

\* If no node leads to itself, the run ends, though nodes may run several times.
Acyclic == \A n \in Nodes : \A m \in Parents(n) : n \notin Ancestors(m)
Terminates == (phase = "running" /\ Acyclic) ~> phase # "running"

\* What an execution was doing when one of its nodes suspended it is not lost:
\* branches beside that node have been recorded before it succeeds.
SiblingsKept == phase = "success" => owed \subseteq done
=============================================================================
