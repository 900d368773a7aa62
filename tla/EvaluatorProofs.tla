--------------------------- MODULE EvaluatorProofs ---------------------------
(***************************************************************************)
(* Proofs about Evaluator for any workflows, requests and nodes: its type  *)
(* invariant, that joins wait for all their inputs, and that a run which   *)
(* succeeds has run everything that was due.                               *)
(***************************************************************************)
EXTENDS Evaluator, FiniteSetTheorems, TLAPS

\* What is ready to run: it was fed and has all its inputs.
Due == {n \in fed \ wf.disabled : HasAllInputs(n, inputs)}

\* While the run goes on, what is due was run or is about to be, and what was
\* delivered since is going to be run with, but for deliveries within a batch.
Kept ==
    phase = "running" /\ ~stopErr =>
        \A n \in Due : n \in queue \cup batch \cup done /\ (n \in fresh => n \in queue \cup missed)

IInv == TypeOK /\ JoinsWait /\ Kept /\ NothingLeftOut

-----------------------------------------------------------------------------
\* A node with an input has something on each connected input when
\* hasAllInputs says so, for a delivery that comes over a connection.
LEMMA JoinFed ==
    ASSUME TypeOK, NEW n \in Nodes, NEW in \in SUBSET (Nodes \X Inputs),
           HasAllInputs(n, in),
           NEW c \in Connected(n), <<n, c>> \in in
    PROVE  \A i \in Connected(n) : <<n, i>> \in in
<1>1. Connected(n) \subseteq Expected(n)
    <2> SUFFICES ASSUME NEW i \in Connected(n)
                 PROVE  i \in Expected(n)
        OBVIOUS
    <2>1. i \in Inputs
        BY DEF Connected
    <2>2. i \in Nat
        BY <2>1, EvaluatorAssumption
    <2>3. i <= i
        BY <2>2
    <2> QED BY <2>1, <2>3 DEF Expected
<1>2. IsFiniteSet(Expected(n)) /\ Cardinality(Expected(n)) \in Nat
    <2>1. Expected(n) \in SUBSET Inputs
        BY DEF Expected
    <2> QED BY <2>1, FS_Subset, FS_CardinalityType, EvaluatorAssumption
<1>3. CASE Cardinality(Expected(n)) > 1
    BY <1>1, <1>3 DEF HasAllInputs
<1>4. CASE ~(Cardinality(Expected(n)) > 1)
    <2>1. c \in Expected(n)
        BY <1>1
    <2>2. Expected(n) = {c}
        <3>1. Expected(n) # {}
            BY <2>1
        <3>2. Cardinality(Expected(n)) # 0
            BY <1>2, <3>1, FS_EmptySet
        <3>3. Cardinality(Expected(n)) = 1
            BY <1>2, <1>4, <3>2
        <3>4. PICK x : Expected(n) = {x}
            BY <1>2, <3>3, FS_Singleton
        <3> QED BY <2>1, <3>4
    <2> QED BY <1>1, <2>2
<1> QED BY <1>3, <1>4

\* A node with other inputs than before was delivered to.
LEMMA SameInputs ==
    ASSUME NEW n, NEW in1, NEW in2,
           \A i \in Inputs : <<n, i>> \in in1 <=> <<n, i>> \in in2
    PROVE  HasAllInputs(n, in1) <=> HasAllInputs(n, in2)
BY DEF HasAllInputs, Expected

\* What a run starts with is enabled.
LEMMA StartsEnabled ==
    ASSUME NEW options, wf \in Workflow, options.trigger \in Nodes \cup {None}
    PROVE  Starts(options) \subseteq Nodes \ wf.disabled
BY DEF Starts

\* The operators read the workflow and the request only.
LEMMA GraphKept ==
    ASSUME UNCHANGED wf
    PROVE  \A n : Connected(n)' = Connected(n) /\ Expected(n)' = Expected(n)
<1>1. \A n : Connected(n)' = Connected(n)
    BY DEF Connected
<1>2. \A n : Expected(n)' = Expected(n)
    BY <1>1 DEF Expected
<1> QED BY <1>1, <1>2

-----------------------------------------------------------------------------
LEMMA EdgesTyped ==
    ASSUME wf \in Workflows
    PROVE  /\ wf \in Workflow
           /\ \A e \in wf.edges : /\ e = <<e[1], e[2], e[3], e[4]>>
                                  /\ e[1] \in Nodes /\ e[2] \in Outputs
                                  /\ e[3] \in Nodes /\ e[4] \in Inputs
<1>1. wf \in Workflow /\ wf.edges \subseteq Edges
    BY EvaluatorAssumption DEF Workflow
<1> QED BY <1>1 DEF Edges

LEMMA TypeInit == Init => TypeOK
<1> SUFFICES ASSUME Init
             PROVE  TypeOK
    OBVIOUS
<1>1. wf \in Workflow /\ request \in Request
    BY EvaluatorAssumption DEF Init
<1>2. request.trigger \in Nodes \cup {None} /\ request.given \subseteq Nodes \X Inputs
    BY <1>1 DEF Request
<1>3. Starts(request) \subseteq Nodes \ wf.disabled
    BY <1>1, <1>2, StartsEnabled
<1>4. inputs \subseteq Nodes \X Inputs
    BY <1>2, EvaluatorAssumption DEF Init
<1> QED BY <1>1, <1>3, <1>4 DEF Init, TypeOK

\* What a delivery leaves behind.
LEMMA DeliverTypes ==
    ASSUME TypeOK, NEW n, NEW outs, Deliver(n, outs), UNCHANGED wf
    PROVE  /\ inputs' \subseteq Nodes \X Inputs
           /\ queue' \subseteq Nodes \ wf.disabled
           /\ fed' \subseteq Nodes /\ fresh' \subseteq fed' /\ missed' \subseteq fresh'
<1> DEFINE edges == IF IsEnd(n) THEN {} ELSE Targets(n, outs)
           targets == {e[3] : e \in edges}
           ready == {m \in targets \ wf.disabled : HasAllInputs(m, inputs')}
<1>1. edges \subseteq wf.edges
    BY DEF Targets
<1>2. \A e \in edges : e[3] \in Nodes /\ e[4] \in Inputs
    BY <1>1, EdgesTyped DEF TypeOK
<1>3. targets \subseteq Nodes /\ ready \subseteq targets /\ ready \subseteq Nodes \ wf.disabled
    BY <1>2
<1>4. /\ inputs' = inputs \cup {<<e[3], e[4]>> : e \in edges}
      /\ queue' = queue \cup {m \in ready : ~Queued(m)}
      /\ fed' = fed \cup targets
      /\ fresh' = fresh \cup targets
      /\ missed' = missed \cup {m \in ready : m \in batch'}
    BY DEF Deliver
<1>5. {<<e[3], e[4]>> : e \in edges} \subseteq Nodes \X Inputs
    BY <1>2
<1> HIDE DEF edges, targets, ready
<1> QED BY <1>3, <1>4, <1>5 DEF TypeOK

LEMMA TypeNext == TypeOK /\ [Next]_vars => TypeOK'
<1> SUFFICES ASSUME TypeOK, [Next]_vars
             PROVE  TypeOK'
    OBVIOUS
<1> USE DEF flow, history
<1>1. CASE Take
    BY <1>1 DEF Take, TypeOK
<1>2. CASE Cancel
    BY <1>2 DEF Cancel, TypeOK
<1>3. CASE Return
    BY <1>3 DEF Return, TypeOK
<1>4. CASE Resume
    <2>1. PICK outs : LET given == {<<e[3], e[4]>> : e \in {d \in wf.edges : d[1] = last /\ d[2] \in outs}}
                          options == [trigger |-> None, starts |-> {}, given |-> given,
                                      destination |-> None, exclusive |-> FALSE] IN
                      /\ resumed' = TRUE
                      /\ request' = options
                      /\ inputs' = given
                      /\ queue' = IF given = {} THEN {}
                                  ELSE {n \in Nodes \ wf.disabled : \E i \in Inputs : <<n, i>> \in given}
                      /\ batch' = {}
                      /\ stopErr' = FALSE
                      /\ phase' = IF given = {} THEN "success" ELSE "running"
                      /\ fed' = {} /\ fresh' = {} /\ missed' = {}
                      /\ UNCHANGED <<wf, done, last, owed>>
        BY <1>4 DEF Resume
    <2> DEFINE given == {<<e[3], e[4]>> : e \in {d \in wf.edges : d[1] = last /\ d[2] \in outs}}
    <2>2. given \subseteq Nodes \X Inputs
        BY EdgesTyped DEF TypeOK
    <2> HIDE DEF given
    <2>3. request' \in Request
        BY <2>1, <2>2 DEF Request, given
    <2>4. queue' \subseteq Nodes \ wf.disabled
        BY <2>1 DEF given
    <2>5. phase' \in {"running", "success"}
        BY <2>1
    <2>6. inputs' \subseteq Nodes \X Inputs
        BY <2>1, <2>2 DEF given
    <2> QED BY <2>1, <2>3, <2>4, <2>5, <2>6 DEF TypeOK
<1>5. ASSUME NEW n \in Nodes, Succeed(n)
      PROVE  TypeOK'
    <2>1. PICK outs \in SUBSET Outputs :
              /\ Record(n)
              /\ IF stopErr
                 THEN UNCHANGED <<inputs, queue, fed, fresh, missed>>
                 ELSE Deliver(n, outs)
              /\ UNCHANGED <<wf, request, phase, stopErr, resumed, owed>>
        BY <1>5 DEF Succeed
    <2>2. CASE stopErr
        BY <2>1, <2>2 DEF Record, TypeOK
    <2>3. CASE ~stopErr
        <3>1. /\ inputs' \subseteq Nodes \X Inputs
              /\ queue' \subseteq Nodes \ wf.disabled
              /\ fed' \subseteq Nodes /\ fresh' \subseteq fed' /\ missed' \subseteq fresh'
            BY <2>1, <2>3, DeliverTypes
        <3> QED BY <2>1, <3>1 DEF Record, TypeOK
    <2> QED BY <2>2, <2>3
<1>6. ASSUME NEW n \in Nodes, Fail(n)
      PROVE  TypeOK'
    BY <1>6 DEF Fail, Record, TypeOK
<1>7. ASSUME NEW n \in Nodes, Suspend(n)
      PROVE  TypeOK'
    BY <1>7 DEF Suspend, Record, TypeOK
<1>8. CASE UNCHANGED vars
    BY <1>8 DEF vars, TypeOK
<1> QED BY <1>1, <1>2, <1>3, <1>4, <1>5, <1>6, <1>7, <1>8 DEF Next, Process

-----------------------------------------------------------------------------
\* What is delivered to becomes due only with all its inputs, and is then in
\* the queue or waits in the batch; of all others nothing changes.
LEMMA Delivered ==
    ASSUME TypeOK, TypeOK', NEW n, NEW outs, Deliver(n, outs), UNCHANGED wf
    PROVE  /\ inputs \subseteq inputs' /\ queue \subseteq queue' /\ missed \subseteq missed'
           /\ \A m \in queue' \ queue : \A i \in Connected(m) : <<m, i>> \in inputs'
           /\ \A m \in Due' : \/ m \in Due /\ (m \in fresh' => m \in fresh)
                              \/ m \in queue' \/ m \in batch' \cap missed'
<1> DEFINE edges == IF IsEnd(n) THEN {} ELSE Targets(n, outs)
           targets == {e[3] : e \in edges}
           ready == {m \in targets \ wf.disabled : HasAllInputs(m, inputs')}
<1>1. /\ inputs' = inputs \cup {<<e[3], e[4]>> : e \in edges}
      /\ queue' = queue \cup {m \in ready : ~Queued(m)}
      /\ fed' = fed \cup targets
      /\ fresh' = fresh \cup targets
      /\ missed' = missed \cup {m \in ready : m \in batch'}
    BY DEF Deliver
<1>2. \A e \in edges : /\ e \in wf.edges /\ e = <<e[1], e[2], e[3], e[4]>>
                       /\ e[1] \in Nodes /\ e[2] \in Outputs /\ e[3] \in Nodes /\ e[4] \in Inputs
    BY EdgesTyped DEF Targets, TypeOK
<1>3. targets \subseteq Nodes
    BY <1>2
<1>4. ASSUME NEW m \in queue' \ queue
      PROVE  \A i \in Connected(m) : <<m, i>> \in inputs'
    <2>1. m \in targets /\ HasAllInputs(m, inputs')
        BY <1>1, <1>4
    <2>2. PICK e \in edges : e[3] = m
        BY <2>1
    <2>3. <<e[1], e[2], m, e[4]>> \in wf.edges
        BY <1>2, <2>2
    <2>4. e[4] \in Connected(m)
        BY <1>2, <2>3 DEF Connected
    <2>5. <<m, e[4]>> \in inputs'
        BY <1>1, <2>2
    <2>6. inputs' \in SUBSET (Nodes \X Inputs)
        BY DEF TypeOK
    <2> QED BY <1>3, <2>1, <2>4, <2>5, <2>6, JoinFed
<1>5. ASSUME NEW m \in Due'
      PROVE  \/ m \in Due /\ (m \in fresh' => m \in fresh)
             \/ m \in queue' \/ m \in batch' \cap missed'
    <2>1. m \in fed' \ wf.disabled /\ HasAllInputs(m, inputs')
        BY <1>5, GraphKept DEF Due, HasAllInputs
    <2>2. CASE m \in targets
        <3>1. m \in ready
            BY <2>1, <2>2
        <3> HIDE DEF ready, targets
        <3> QED BY <1>1, <3>1 DEF Queued
    <2>3. CASE m \notin targets
        <3>1. \A e \in edges : e[3] # m
            BY <2>3
        <3>2. \A i \in Inputs : <<m, i>> \in inputs' <=> <<m, i>> \in inputs
            BY <1>1, <3>1
        <3>3. HasAllInputs(m, inputs)
            BY <2>1, <3>2, SameInputs
        <3> HIDE DEF ready, targets
        <3>4. m \in fed /\ (m \in fresh' => m \in fresh)
            BY <1>1, <2>1, <2>3
        <3> QED BY <2>1, <3>3, <3>4 DEF Due
    <2> QED BY <2>2, <2>3
<1> HIDE DEF ready, targets, edges
<1> QED BY <1>1, <1>4, <1>5

LEMMA StartsKept ==
    ASSUME UNCHANGED <<wf, request>>
    PROVE  Starts(request)' = Starts(request)
BY GraphKept DEF Starts, CanExecute, Allowed, Ancestors, Parents

\* What a resumed run begins with is what its request starts.
LEMMA ResumeStarts ==
    ASSUME Resume
    PROVE  /\ queue' \subseteq Starts(request)' /\ batch' = {}
           /\ fed' = {} /\ phase' # "waiting"
<1>1. PICK outs : LET given == {<<e[3], e[4]>> : e \in {d \in wf.edges : d[1] = last /\ d[2] \in outs}}
                      options == [trigger |-> None, starts |-> {}, given |-> given,
                                  destination |-> None, exclusive |-> FALSE] IN
                  /\ request' = options
                  /\ queue' = IF given = {} THEN {}
                              ELSE {n \in Nodes \ wf.disabled : \E i \in Inputs : <<n, i>> \in given}
                  /\ batch' = {}
                  /\ phase' = IF given = {} THEN "success" ELSE "running"
                  /\ fed' = {}
                  /\ UNCHANGED wf
    BY DEF Resume
<1> DEFINE given == {<<e[3], e[4]>> : e \in {d \in wf.edges : d[1] = last /\ d[2] \in outs}}
<1>2. /\ request'.trigger = None /\ request'.starts = {} /\ request'.given = given
      /\ request'.destination = None /\ request'.exclusive = FALSE
    BY <1>1
<1>3. \A n : CanExecute(n)'
    BY <1>2 DEF CanExecute, Allowed
<1>4. queue' = IF given = {} THEN {}
               ELSE {n \in Nodes \ wf.disabled : \E i \in Inputs : <<n, i>> \in given}
    BY <1>1
<1>5. UNCHANGED wf
    BY <1>1
<1>6. queue' \subseteq Starts(request)'
    <2> HIDE DEF given
    <2>1. CASE given = {}
        BY <1>4, <2>1
    <2>2. CASE given # {}
        BY <1>2, <1>3, <1>4, <1>5, <2>2 DEF Starts
    <2> QED BY <2>1, <2>2
<1>7. phase' # "waiting"
    BY <1>1
<1> QED BY <1>1, <1>6, <1>7

-----------------------------------------------------------------------------
LEMMA InitInductive == Init => IInv
<1> SUFFICES ASSUME Init
             PROVE  IInv
    OBVIOUS
<1>1. TypeOK
    BY TypeInit
<1>2. JoinsWait
    BY DEF Init, JoinsWait
<1>3. Due = {} /\ fed = {}
    BY DEF Init, Due
<1>4. Kept /\ NothingLeftOut
    BY <1>3 DEF Kept, NothingLeftOut
<1> QED BY <1>1, <1>2, <1>4 DEF IInv

\* Steps that deliver nothing and do not start the run again.
LEMMA DueKept ==
    ASSUME UNCHANGED <<wf, fed, inputs>>
    PROVE  Due' = Due
BY GraphKept DEF Due, HasAllInputs

\* While nothing is delivered, joins wait if nothing new is queued.
LEMMA JoinsKept ==
    ASSUME JoinsWait, UNCHANGED <<wf, request, inputs>>,
           queue' \cup batch' \subseteq queue \cup batch
    PROVE  JoinsWait'
BY GraphKept, StartsKept DEF JoinsWait

LEMMA StepInductive == IInv /\ [Next]_vars => IInv'
<1> SUFFICES ASSUME IInv, [Next]_vars
             PROVE  IInv'
    OBVIOUS
<1> USE DEF flow, history
<1>0. TypeOK /\ TypeOK' /\ JoinsWait /\ Kept /\ NothingLeftOut
    BY TypeNext DEF IInv
<1>a. NothingLeftOut <=> (phase = "success" => \A n \in Due : n \in done /\ (n \in fresh => n \in missed))
    BY DEF NothingLeftOut, Due
<1>b. NothingLeftOut' <=> (phase' = "success" =>
                              \A n \in Due' : n \in done' /\ (n \in fresh' => n \in missed'))
    BY DEF NothingLeftOut, Due
<1>1. CASE Take
    <2>1. JoinsWait'
        BY <1>0, <1>1, JoinsKept DEF Take
    <2>2. Due' = Due
        BY <1>1, DueKept DEF Take
    <2>3. Kept' /\ NothingLeftOut'
        BY <1>0, <1>1, <1>b, <2>2 DEF Take, Kept
    <2> QED BY <1>0, <2>1, <2>3 DEF IInv
<1>2. CASE Cancel
    <2>1. JoinsWait'
        BY <1>0, <1>2, JoinsKept DEF Cancel
    <2>2. Kept' /\ NothingLeftOut'
        BY <1>2 DEF Cancel, Kept, NothingLeftOut
    <2> QED BY <1>0, <2>1, <2>2 DEF IInv
<1>3. CASE Return
    <2>1. JoinsWait'
        BY <1>0, <1>3, JoinsKept DEF Return
    <2>2. Due' = Due
        BY <1>3, DueKept DEF Return
    <2>3. Kept' /\ NothingLeftOut'
        BY <1>0, <1>3, <1>b, <2>2 DEF Return, Kept
    <2> QED BY <1>0, <2>1, <2>3 DEF IInv
<1>4. CASE Resume
    <2>1. /\ queue' \subseteq Starts(request)' /\ batch' = {} /\ fed' = {}
        BY <1>4, ResumeStarts
    <2>2. JoinsWait'
        BY <2>1 DEF JoinsWait
    <2>3. Due' = {}
        BY <2>1 DEF Due
    <2>4. Kept' /\ NothingLeftOut'
        BY <1>b, <2>3 DEF Kept
    <2> QED BY <1>0, <2>2, <2>4 DEF IInv
<1>5. ASSUME NEW n \in Nodes, Succeed(n)
      PROVE  IInv'
    <2>1. PICK outs \in SUBSET Outputs :
              /\ Record(n)
              /\ IF stopErr
                 THEN UNCHANGED <<inputs, queue, fed, fresh, missed>>
                 ELSE Deliver(n, outs)
              /\ UNCHANGED <<wf, request, phase, stopErr, resumed, owed>>
        BY <1>5 DEF Succeed
    <2>2. /\ phase = "running" /\ n \in batch
          /\ batch' = batch \ {n} /\ done' = done \cup {n}
        BY <2>1 DEF Record
    <2>3. CASE stopErr
        <3>1. JoinsWait'
            BY <1>0, <2>1, <2>2, <2>3, JoinsKept
        <3> QED BY <1>0, <2>1, <2>2, <2>3, <3>1 DEF IInv, Kept, NothingLeftOut
    <2>4. CASE ~stopErr
        <3>1. /\ inputs \subseteq inputs' /\ queue \subseteq queue' /\ missed \subseteq missed'
              /\ \A m \in queue' \ queue : \A i \in Connected(m) : <<m, i>> \in inputs'
              /\ \A m \in Due' : \/ m \in Due /\ (m \in fresh' => m \in fresh)
                                 \/ m \in queue' \/ m \in batch' \cap missed'
            BY <1>0, <2>1, <2>4, Delivered
        <3>2. JoinsWait'
            BY <1>0, <2>1, <2>2, <3>1, GraphKept, StartsKept DEF JoinsWait
        <3>3. Kept'
            BY <1>0, <2>1, <2>2, <2>4, <3>1 DEF Kept
        <3>4. NothingLeftOut'
            BY <2>1, <2>2 DEF NothingLeftOut
        <3> QED BY <1>0, <3>2, <3>3, <3>4 DEF IInv
    <2> QED BY <2>3, <2>4
<1>6. ASSUME NEW n \in Nodes, Fail(n)
      PROVE  IInv'
    <2>1. JoinsWait'
        BY <1>0, <1>6, JoinsKept DEF Fail, Record
    <2>2. Kept' /\ NothingLeftOut'
        BY <1>6 DEF Fail, Record, Kept, NothingLeftOut
    <2> QED BY <1>0, <2>1, <2>2 DEF IInv
<1>7. ASSUME NEW n \in Nodes, Suspend(n)
      PROVE  IInv'
    <2>1. JoinsWait'
        BY <1>0, <1>7, JoinsKept DEF Suspend, Record
    <2>2. Kept' /\ NothingLeftOut'
        BY <1>7 DEF Suspend, Record, Kept, NothingLeftOut
    <2> QED BY <1>0, <2>1, <2>2 DEF IInv
<1>8. CASE UNCHANGED vars
    <2>1. JoinsWait'
        BY <1>0, <1>8, JoinsKept DEF vars
    <2>2. Due' = Due
        BY <1>8, DueKept DEF vars
    <2>3. Kept' /\ NothingLeftOut'
        BY <1>0, <1>8, <1>a, <1>b, <2>2 DEF vars, Kept
    <2> QED BY <1>0, <2>1, <2>3 DEF IInv
<1> QED BY <1>1, <1>2, <1>3, <1>4, <1>5, <1>6, <1>7, <1>8 DEF Next, Process

\* The inductive invariant holds in every reachable state of a run.
THEOREM EvaluatorInductive == Spec => []IInv
<1>1. Init => IInv
    BY InitInductive
<1>2. IInv /\ [Next]_vars => IInv'
    BY StepInductive
<1> QED BY <1>1, <1>2, PTL DEF Spec

\* Whatever the workflow, no disabled node is ever queued, executed or
\* recorded, and only what was fed can be missed.
THEOREM EvaluatorTypeCorrect == Spec => []TypeOK
<1>1. IInv => TypeOK
    BY DEF IInv
<1> QED BY <1>1, EvaluatorInductive, PTL

\* A node that does not begin the run is executed only with something on every
\* input that is connected (hasAllInputs).
THEOREM JoinsWaitHolds == Spec => []JoinsWait
<1>1. IInv => JoinsWait
    BY DEF IInv
<1> QED BY <1>1, EvaluatorInductive, PTL

\* A run that succeeds has run every node that was due, and again for what was
\* delivered after, however its batches were ordered and its branches join.
THEOREM NothingLeftOutHolds == Spec => []NothingLeftOut
<1>1. IInv => NothingLeftOut
    BY DEF IInv
<1> QED BY <1>1, EvaluatorInductive, PTL

=============================================================================
