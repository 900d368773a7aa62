----------------------- MODULE ActiveExecutionsProofs -----------------------
(***************************************************************************)
(* Proofs about ActiveExecutions, for every set of requests, executions,   *)
(* workflows and configurations.  The register uses ConcurrencyControl as  *)
(* it is, so what is proved there holds here; on top of it, executions run *)
(* as module Admission says.                                               *)
(***************************************************************************)
EXTENDS ActiveExecutions, ConcurrencyControlProofs

\* The types of the register, on top of those of the concurrency control.
ActiveTypeOK ==
    /\ TypeOK
    /\ executions \in [ExecutionIds -> Requests \cup {Nobody}]
    /\ leaving \subseteq Requests
    /\ counter \in Nat
    /\ cancelled \subseteq Registered
    /\ shutdown \in {"off", "listing", "stopping", "waiting", "clean", "timeout"}
    /\ toStop \subseteq ExecutionIds
    /\ victims \subseteq Registered

\* An execution is registered under its own identifier, and a request in the
\* middle of Remove still has its permit.
RegisterKeys ==
    /\ \A i \in ExecutionIds : executions[i] # Nobody => ExecutionOf[executions[i]] = i
    /\ \A r \in leaving : pc[r] = "holding"

ActiveInv ==
    /\ ActiveTypeOK
    /\ CountedAndPermitted
    /\ RegisterKeys

-----------------------------------------------------------------------------
\* Every step of the composition is a step of ConcurrencyControl or leaves its
\* variables alone.
LEMMA StepOfControl == [ActiveNext]_activeVars => [Next]_vars
<1> SUFFICES ASSUME [ActiveNext]_activeVars PROVE [Next]_vars
  OBVIOUS
<1>1. CASE Waiting
  BY <1>1 DEF Waiting, Next
<1>2. ASSUME NEW r \in Requests, RejectDuplicate(r) \/ ReleasePermit(r)
      PROVE  [Next]_vars
  BY <1>2 DEF RejectDuplicate, ReleasePermit, Next
<1>3. ASSUME NEW r \in Requests, Register(r) \/ Remove(r) PROVE [Next]_vars
  BY <1>3 DEF Register, Remove
<1>4. ASSUME NEW i \in ExecutionIds, Stop(i) \/ StopNext(i) PROVE [Next]_vars
  BY <1>4 DEF Stop, StopNext
<1>5. CASE GracefulShutdown \/ StopAll \/ StopAllDone \/ WaitForAll
  BY <1>5 DEF GracefulShutdown, StopAll, StopAllDone, WaitForAll
<1>6. CASE UNCHANGED activeVars
  BY <1>6 DEF activeVars
<1>7. QED
  BY <1>1, <1>2, <1>3, <1>4, <1>5, <1>6 DEF ActiveNext

\* The register uses the concurrency service as the service is specified.
THEOREM UsesControl == ActiveSpec => Spec
<1>1. ActiveInit => Init
  BY DEF ActiveInit
<1>2. QED
  BY <1>1, StepOfControl, PTL DEF ActiveSpec, Spec

\* Nobody changes the limits, so they are respected without proviso.
LEMMA NoDrift == ActiveSpec => [](drift = FALSE)
<1>1. ActiveInit => drift = FALSE
  BY DEF ActiveInit, Init
<1>2. drift = FALSE /\ [ActiveNext]_activeVars => (drift = FALSE)'
  <2> SUFFICES ASSUME drift = FALSE, [ActiveNext]_activeVars PROVE drift' = FALSE
    OBVIOUS
  <2>1. CASE Waiting
    BY <2>1 DEF Waiting, WaitWithOptions, WaitAs, Wake, Expire, Cancel, Grant, DispatchDone
  <2>2. ASSUME NEW r \in Requests, RejectDuplicate(r) \/ ReleasePermit(r)
        PROVE  drift' = FALSE
    BY <2>2 DEF RejectDuplicate, ReleasePermit, Release
  <2>3. ASSUME NEW r \in Requests, Register(r) \/ Remove(r) PROVE drift' = FALSE
    BY <2>3 DEF Register, Remove, vars
  <2>4. ASSUME NEW i \in ExecutionIds, Stop(i) \/ StopNext(i) PROVE drift' = FALSE
    BY <2>4 DEF Stop, StopNext, vars
  <2>5. CASE GracefulShutdown \/ StopAll \/ StopAllDone \/ WaitForAll
    BY <2>5 DEF GracefulShutdown, StopAll, StopAllDone, WaitForAll, vars
  <2>6. CASE UNCHANGED activeVars
    BY <2>6 DEF activeVars, vars
  <2>7. QED
    BY <2>1, <2>2, <2>3, <2>4, <2>5, <2>6 DEF ActiveNext
<1>3. QED
  BY <1>1, <1>2, PTL DEF ActiveSpec

-----------------------------------------------------------------------------
\* What the steps of the service do to a request that holds a permit.

\* What waits and wakes takes no permit from a request that holds one.
LEMMA WaitingKeepsHolding ==
    ASSUME TypeOK, Waiting, NEW q \in Requests, pc[q] = "holding"
    PROVE  pc'[q] = "holding" /\ entry'[q] = entry[q]
<1>1. pc \in [Requests -> PcStates] /\ entry \in [Requests -> Entries]
  BY DEF TypeOK
<1>2. ASSUME NEW r \in Requests, WaitWithOptions(r)
      PROVE  pc'[q] = "holding" /\ entry'[q] = entry[q]
  BY <1>1, <1>2 DEF WaitWithOptions, WaitAs, Admit, Refuse, Enqueue
<1>3. ASSUME NEW r \in Requests, Wake(r) \/ Expire(r)
      PROVE  pc'[q] = "holding" /\ entry'[q] = entry[q]
  BY <1>1, <1>3 DEF Wake, Expire
<1>4. ASSUME NEW r \in Requests, Cancel(r)
      PROVE  pc'[q] = "holding" /\ entry'[q] = entry[q]
  BY <1>1, <1>4 DEF Cancel
<1>5. ASSUME NEW r \in Requests, Grant(r) \/ DispatchDone
      PROVE  pc'[q] = "holding" /\ entry'[q] = entry[q]
  BY <1>5 DEF Grant, DispatchDone
<1>6. CASE DispatchDone
  BY <1>6 DEF DispatchDone
<1>7. QED
  BY <1>2, <1>3, <1>4, <1>5, <1>6 DEF Waiting

\* A request that returns its permit leaves those of the others alone.
LEMMA ReleaseKeepsHolding ==
    ASSUME TypeOK, NEW r \in Requests, Release(r), NEW q \in Requests, q # r
    PROVE  pc'[q] = pc[q] /\ entry'[q] = entry[q]
  BY DEF TypeOK, Release

\* The register is finite and can be counted.
LEMMA RegisteredFinite ==
    /\ Registered \subseteq Requests
    /\ IsFiniteSet(Registered) /\ Cardinality(Registered) \in Nat
<1>1. Registered \subseteq Requests
  BY DEF Registered
<1>2. QED
  BY <1>1, FS_Subset, FS_CardinalityType, ConstantsAssumption

\* Registering a request and removing one, as changes of the set Registered.

\* Register adds a request that was not in the register.
LEMMA RegisterGains ==
    ASSUME ActiveInv, NEW r \in Requests, Register(r)
    PROVE  Registered' = Registered \cup {r} /\ r \notin Registered
<1>1. executions \in [ExecutionIds -> Requests \cup {Nobody}] /\ ExecutionOf[r] \in ExecutionIds
  BY ActiveAssumption DEF ActiveInv, ActiveTypeOK
<1>2. /\ executions' = [executions EXCEPT ![ExecutionOf[r]] = r]
      /\ executions[ExecutionOf[r]] = Nobody
      /\ r \notin Registered
  BY DEF Register, Entering
<1>3. QED
  BY <1>1, <1>2, ActiveAssumption DEF Registered

\* Remove takes out a request that was in the register.
LEMMA RemoveLoses ==
    ASSUME ActiveInv, NEW r \in Requests, Remove(r)
    PROVE  Registered' = Registered \ {r} /\ r \in Registered
<1>1. executions \in [ExecutionIds -> Requests \cup {Nobody}] /\ ExecutionOf[r] \in ExecutionIds
  BY ActiveAssumption DEF ActiveInv, ActiveTypeOK
<1>2. /\ executions' = [executions EXCEPT ![ExecutionOf[r]] = Nobody]
      /\ r \in Registered
  BY DEF Remove
<1>3. \A i \in ExecutionIds : executions[i] = r <=> i = ExecutionOf[r]
  <2>1. \A i \in ExecutionIds : executions[i] = r => i = ExecutionOf[r]
    BY ActiveAssumption DEF ActiveInv, RegisterKeys
  <2>2. PICK j \in ExecutionIds : executions[j] = r
    BY <1>2 DEF Registered
  <2>3. QED
    BY <2>1, <2>2
<1>4. \A q \in Requests : q \in Registered' <=> q \in Registered /\ q # r
  BY <1>1, <1>2, <1>3, ActiveAssumption DEF Registered
<1>5. QED
  BY <1>2, <1>4 DEF Registered

-----------------------------------------------------------------------------
\* The register is consistent with the permits.  The part about the service
\* is TypeCorrect, carried over by UsesControl.
THEOREM ActiveInductive == ActiveSpec => []ActiveInv
<1> DEFINE RegisterTyped ==
              /\ executions \in [ExecutionIds -> Requests \cup {Nobody}]
              /\ leaving \subseteq Requests
              /\ counter \in Nat
              /\ cancelled \subseteq Registered
              /\ shutdown \in {"off", "listing", "stopping", "waiting", "clean", "timeout"}
              /\ toStop \subseteq ExecutionIds
              /\ victims \subseteq Registered
<1>1. ActiveInit => RegisterTyped /\ CountedAndPermitted /\ RegisterKeys
  <2> SUFFICES ASSUME ActiveInit PROVE RegisterTyped /\ CountedAndPermitted /\ RegisterKeys
    OBVIOUS
  <2>1. Registered = {}
    BY ActiveAssumption DEF ActiveInit, Registered
  <2>2. QED
    BY <2>1, FS_EmptySet DEF ActiveInit, CountedAndPermitted, RegisterKeys
<1>2. TypeOK' /\ ActiveInv /\ [ActiveNext]_activeVars => ActiveInv'
  <2> SUFFICES ASSUME TypeOK', ActiveInv, [ActiveNext]_activeVars
               PROVE  RegisterTyped' /\ CountedAndPermitted' /\ RegisterKeys'
    BY DEF ActiveInv, ActiveTypeOK
  <2>1. TypeOK /\ RegisterTyped /\ CountedAndPermitted /\ RegisterKeys
    BY DEF ActiveInv, ActiveTypeOK
  <2>2. CASE Waiting
    <3>1. UNCHANGED <<executions, leaving, counter, cancelled, shutdown, toStop, victims>>
      BY <2>2 DEF Waiting, registerVars, shutdownVars
    <3>2. Registered' = Registered
      BY <3>1 DEF Registered
    <3>3. \A q \in Requests : pc[q] = "holding" => pc'[q] = "holding"
      BY <2>1, <2>2, WaitingKeepsHolding
    <3>4. QED
      BY <2>1, <3>1, <3>2, <3>3, RegisteredFinite DEF CountedAndPermitted, RegisterKeys
  <2>3. ASSUME NEW r \in Requests, Register(r)
        PROVE  RegisterTyped' /\ CountedAndPermitted' /\ RegisterKeys'
    <3>1. Registered' = Registered \cup {r} /\ r \notin Registered
      BY <2>3, RegisterGains
    <3>2. Cardinality(Registered)' = Cardinality(Registered) + 1
      BY <3>1, RegisteredFinite, FS_AddElement
    <3>3. /\ executions' = [executions EXCEPT ![ExecutionOf[r]] = r]
          /\ counter' = counter + 1
          /\ pc[r] = "holding" /\ r \notin leaving
          /\ UNCHANGED <<pc, leaving, cancelled, shutdown, toStop, victims>>
      BY <2>3 DEF Register, Entering, vars, shutdownVars
    <3>4. CountedAndPermitted'
      BY <2>1, <3>1, <3>2, <3>3 DEF CountedAndPermitted
    <3>5. executions' \in [ExecutionIds -> Requests \cup {Nobody}]
      BY <2>1, <3>3
    <3>6. RegisterTyped'
      BY <2>1, <3>1, <3>3, <3>5
    <3>7. RegisterKeys'
      BY <2>1, <3>3, ActiveAssumption DEF RegisterKeys
    <3>8. QED
      BY <3>4, <3>6, <3>7
  <2>4. ASSUME NEW r \in Requests, RejectDuplicate(r)
        PROVE  RegisterTyped' /\ CountedAndPermitted' /\ RegisterKeys'
    <3>1. /\ UNCHANGED <<executions, leaving, counter, cancelled, shutdown, toStop, victims>>
          /\ r \notin Registered /\ r \notin leaving
      BY <2>4 DEF RejectDuplicate, Entering, registerVars, shutdownVars
    <3>2. Registered' = Registered
      BY <3>1 DEF Registered
    <3>3. \A q \in Requests \ {r} : pc'[q] = pc[q]
      BY <2>1, <2>4, ReleaseKeepsHolding DEF RejectDuplicate
    <3>4. QED
      BY <2>1, <3>1, <3>2, <3>3, RegisteredFinite DEF CountedAndPermitted, RegisterKeys
  <2>5. ASSUME NEW r \in Requests, Remove(r)
        PROVE  RegisterTyped' /\ CountedAndPermitted' /\ RegisterKeys'
    <3>1. Registered' = Registered \ {r} /\ r \in Registered
      BY <2>5, RemoveLoses
    <3>2. Cardinality(Registered)' = Cardinality(Registered) - 1
      BY <3>1, RegisteredFinite, FS_RemoveElement
    <3>3. /\ executions' = [executions EXCEPT ![ExecutionOf[r]] = Nobody]
          /\ counter' = counter - 1
          /\ leaving' = leaving \cup {r}
          /\ cancelled' = cancelled \ {r} /\ victims' = victims \ {r}
          /\ UNCHANGED <<pc, shutdown, toStop>>
      BY <2>5 DEF Remove, vars
    <3>4. CountedAndPermitted' /\ counter' \in Nat
      <4>1. CountedAndPermitted'
        BY <2>1, <3>1, <3>2, <3>3 DEF CountedAndPermitted
      <4>2. Cardinality(Registered \ {r}) \in Nat
        BY RegisteredFinite, FS_Subset, FS_CardinalityType
      <4>3. QED
        BY <3>1, <4>1, <4>2 DEF CountedAndPermitted
    <3>5. executions' \in [ExecutionIds -> Requests \cup {Nobody}]
      BY <2>1, <3>3
    <3>6. RegisterTyped'
      BY <2>1, <3>1, <3>3, <3>4, <3>5
    <3>7. RegisterKeys'
      BY <2>1, <3>1, <3>3, ActiveAssumption DEF RegisterKeys, CountedAndPermitted
    <3>8. QED
      BY <3>4, <3>6, <3>7
  <2>6. ASSUME NEW r \in Requests, ReleasePermit(r)
        PROVE  RegisterTyped' /\ CountedAndPermitted' /\ RegisterKeys'
    <3>1. /\ UNCHANGED <<executions, counter, cancelled, shutdown, toStop, victims>>
          /\ r \in leaving /\ leaving' = leaving \ {r}
      BY <2>6 DEF ReleasePermit, shutdownVars
    <3>2. Registered' = Registered
      BY <3>1 DEF Registered
    <3>3. \A q \in Requests \ {r} : pc'[q] = pc[q]
      BY <2>1, <2>6, ReleaseKeepsHolding DEF ReleasePermit
    <3>4. QED
      BY <2>1, <3>1, <3>2, <3>3, RegisteredFinite DEF CountedAndPermitted, RegisterKeys
  <2>7. ASSUME NEW i \in ExecutionIds, Stop(i) \/ StopNext(i)
        PROVE  RegisterTyped' /\ CountedAndPermitted' /\ RegisterKeys'
    <3>1. UNCHANGED <<pc, executions, leaving, counter, shutdown, victims>>
      BY <2>7 DEF Stop, StopNext, vars, registerVars
    <3>2. Registered' = Registered
      BY <3>1 DEF Registered
    <3>3. cancelled' \subseteq Registered
      BY <2>1, <2>7 DEF Stop, StopNext, CancelExecution, Registered
    <3>4. toStop' \subseteq ExecutionIds
      BY <2>1, <2>7 DEF Stop, StopNext
    <3>5. QED
      BY <2>1, <3>1, <3>2, <3>3, <3>4 DEF CountedAndPermitted, RegisterKeys
  <2>8. CASE GracefulShutdown \/ StopAll \/ StopAllDone \/ WaitForAll
    <3>1. UNCHANGED <<pc, executions, leaving, counter, cancelled>>
      BY <2>8 DEF GracefulShutdown, StopAll, StopAllDone, WaitForAll, vars, registerVars
    <3>2. Registered' = Registered
      BY <3>1 DEF Registered
    <3>3. /\ shutdown' \in {"off", "listing", "stopping", "waiting", "clean", "timeout"}
          /\ toStop' \subseteq ExecutionIds /\ victims' \subseteq Registered
      BY <2>1, <2>8 DEF GracefulShutdown, StopAll, StopAllDone, WaitForAll
    <3>4. QED
      BY <2>1, <3>1, <3>2, <3>3 DEF CountedAndPermitted, RegisterKeys
  <2>9. CASE UNCHANGED activeVars
    BY <2>1, <2>9 DEF activeVars, vars, registerVars, shutdownVars, Registered,
                      CountedAndPermitted, RegisterKeys
  <2>10. QED
    BY <2>2, <2>3, <2>4, <2>5, <2>6, <2>7, <2>8, <2>9 DEF ActiveNext
<1>3. TypeOK /\ RegisterTyped /\ CountedAndPermitted /\ RegisterKeys => ActiveInv
  BY DEF ActiveInv, ActiveTypeOK
<1> HIDE DEF RegisterTyped
<1>4. QED
  BY <1>1, <1>2, <1>3, UsesControl, TypeCorrect, PTL DEF ActiveSpec, Spec

\* The counter counts the register and every registered execution has its
\* permit, see the property.
THEOREM CountedAndPermittedHolds == ActiveSpec => []CountedAndPermitted
  BY ActiveInductive, PTL DEF ActiveInv

-----------------------------------------------------------------------------
\* While StopAll loops, whoever it has not cancelled is still to be stopped.
Reaching ==
    /\ shutdown \in {"off", "listing", "clean"} => victims = {}
    /\ shutdown = "stopping" =>
          \A r \in victims : r \in cancelled \/ ExecutionOf[r] \in toStop
    /\ shutdown \in {"waiting", "timeout"} => victims \subseteq cancelled

\* A registered request is found under its execution.
LEMMA FoundUnderItsExecution ==
    ASSUME ActiveInv, NEW r \in Registered
    PROVE  executions[ExecutionOf[r]] = r /\ ExecutionOf[r] \in ExecutionIds
<1>1. PICK i \in ExecutionIds : executions[i] = r /\ r \in Requests
  BY DEF Registered
<1>2. ExecutionOf[r] = i
  BY <1>1, ActiveAssumption DEF ActiveInv, RegisterKeys
<1>3. QED
  BY <1>1, <1>2

\* A register that counts nobody is empty.
LEMMA CountedEmpty ==
    ASSUME ActiveInv, counter = 0
    PROVE  victims = {}
<1>1. Cardinality(Registered) = 0
  BY DEF ActiveInv, CountedAndPermitted
<1>2. Registered = {}
  BY <1>1, RegisteredFinite, FS_EmptySet
<1>3. QED
  BY <1>2 DEF ActiveInv, ActiveTypeOK

\* StopAll reaches everybody it found, see the property.
THEOREM StopAllReachesHolds == ActiveSpec => []StopAllReaches
<1>1. ActiveInit => Reaching
  BY DEF ActiveInit, Reaching
<1>2. ActiveInv /\ Reaching /\ [ActiveNext]_activeVars => Reaching'
  <2> SUFFICES ASSUME ActiveInv, Reaching, [ActiveNext]_activeVars PROVE Reaching'
    OBVIOUS
  <2>1. CASE UNCHANGED <<shutdown, victims, cancelled, toStop>>
    BY <2>1 DEF Reaching
  <2>2. CASE Waiting
    BY <2>1, <2>2 DEF Waiting, shutdownVars
  <2>3. ASSUME NEW r \in Requests, Register(r) \/ RejectDuplicate(r) \/ ReleasePermit(r)
        PROVE  Reaching'
    BY <2>1, <2>3 DEF Register, RejectDuplicate, ReleasePermit, shutdownVars
  <2>4. ASSUME NEW r \in Requests, Remove(r) PROVE Reaching'
    BY <2>4 DEF Remove, Reaching
  <2>5. ASSUME NEW i \in ExecutionIds, Stop(i) PROVE Reaching'
    BY <2>5 DEF Stop, CancelExecution, Reaching
  <2>6. ASSUME NEW i \in ExecutionIds, StopNext(i) PROVE Reaching'
    <3>1. ASSUME NEW r \in victims, ExecutionOf[r] = i PROVE r \in cancelled'
      <4>1. executions[i] = r /\ r \in Requests
        BY <3>1, FoundUnderItsExecution DEF ActiveInv, ActiveTypeOK, Registered
      <4>2. QED
        BY <2>6, <4>1, ActiveAssumption DEF StopNext, CancelExecution
    <3>2. QED
      BY <2>6, <3>1 DEF StopNext, CancelExecution, Reaching
  <2>7. CASE StopAll
    <3>1. \A r \in Registered : ExecutionOf[r] \in {i \in ExecutionIds : executions[i] # Nobody}
      BY FoundUnderItsExecution, ActiveAssumption DEF Registered
    <3>2. QED
      BY <2>7, <3>1 DEF StopAll, Reaching
  <2>8. CASE StopAllDone
    BY <2>8 DEF StopAllDone, Reaching
  <2>9. CASE GracefulShutdown
    BY <2>9 DEF GracefulShutdown, Reaching
  <2>10. CASE WaitForAll
    BY <2>10, CountedEmpty DEF WaitForAll, Reaching
  <2>11. CASE UNCHANGED activeVars
    BY <2>1, <2>11 DEF activeVars, shutdownVars
  <2>12. QED
    BY <2>2, <2>3, <2>4, <2>5, <2>6, <2>7, <2>8, <2>9, <2>10, <2>11 DEF ActiveNext
<1>3. Reaching => StopAllReaches
  BY DEF Reaching, StopAllReaches
<1>4. QED
  BY <1>1, <1>2, <1>3, ActiveInductive, PTL DEF ActiveSpec

-----------------------------------------------------------------------------
\* The promise, step by step.  Job is what Promise substitutes for job.

Job == [r \in Requests |->
          IF r \in Registered THEN [id |-> ExecutionOf[r], workflow |-> entry[r].workflow]
          ELSE NoJob]

\* The run that Admission sees for a request is the registered one.
LEMMA JobOfRegistered ==
    ASSUME ActiveInv, NEW r \in Requests
    PROVE  /\ Job[r] # NoJob <=> r \in Registered
           /\ r \in Registered => Job[r].id = ExecutionOf[r] /\ Job[r].workflow = entry[r].workflow
<1>1. entry[r].workflow \in WorkflowIds /\ ExecutionOf[r] \in ExecutionIds
  BY EntryWorkflow, ActiveAssumption DEF ActiveInv, ActiveTypeOK
<1>2. [id |-> ExecutionOf[r], workflow |-> entry[r].workflow] # NoJob
  BY <1>1, ActiveAssumption
<1>3. QED
  BY <1>2 DEF Job

\* Admission has a Cardinality of its own, which is this one.
LEMMA PromiseCardinality == \A S : Promise!Cardinality(S) = Cardinality(S)
  BY DEF Promise!Cardinality, Cardinality

\* What runs according to Admission is what the register holds.
LEMMA PromiseRunning ==
    ASSUME ActiveInv
    PROVE  /\ Promise!Running = Registered
           /\ \A w : Promise!RunningOf(w) = {r \in Registered : entry[r].workflow = w}
<1>1. Promise!Running = Registered
  BY JobOfRegistered, RegisteredFinite DEF Promise!Running, Job
<1>2. QED
  BY <1>1, JobOfRegistered, RegisteredFinite DEF Promise!RunningOf, Job

\* A step that leaves the register and the entries of the registered alone is
\* invisible.
LEMMA JobUnchanged ==
    ASSUME ActiveInv, executions' = executions, config' = config,
           \A q \in Registered : entry'[q] = entry[q]
    PROVE  /\ Job' = Job
           /\ config'.global = config.global
           /\ [w \in WorkflowIds |-> WorkflowLimit(w)]' = [w \in WorkflowIds |-> WorkflowLimit(w)]
<1>1. Registered' = Registered
  BY DEF Registered
<1>2. QED
  BY <1>1 DEF Job, WorkflowLimit

\* Add lets a call in: nobody runs its execution, and it has one of the
\* permits, which are not more than the limits.
LEMMA RegisterStarts ==
    ASSUME ActiveInv, LimitsRespected, drift = FALSE, NEW r \in Requests, Register(r),
           NEW w \in WorkflowIds, entry[r].workflow = w
    PROVE  Promise!Start(r, ExecutionOf[r], w)
<1> DEFINE i == ExecutionOf[r]
<1>1. /\ TypeOK /\ i \in ExecutionIds /\ config \in Configs
      /\ pc[r] = "holding" /\ r \in Holders /\ executions[i] = Nobody
  BY ActiveAssumption
     DEF ActiveInv, ActiveTypeOK, TypeOK, Register, Entering, Holders
<1>2. Registered' = Registered \cup {r} /\ r \notin Registered
  BY RegisterGains
<1>3. Job[r] = NoJob
  BY <1>2, JobOfRegistered
<1>4. ASSUME NEW d \in Registered PROVE Job[d].id # i
  <2>1. d \in Requests /\ Job[d].id = ExecutionOf[d]
    BY JobOfRegistered, RegisteredFinite
  <2>2. PICK j \in ExecutionIds : executions[j] = d
    BY DEF Registered
  <2>3. ExecutionOf[d] = j /\ d # Nobody
    BY <2>1, <2>2, ActiveAssumption DEF ActiveInv, RegisterKeys
  <2>4. QED
    BY <1>1, <2>1, <2>2, <2>3
<1>5. Registered \subseteq Holders \ {r}
  BY <1>2, RegisteredFinite DEF ActiveInv, CountedAndPermitted, Holders
<1>6. Cardinality(Registered) + 1 <= Cardinality(Holders)
  <2>1. Cardinality(Registered) <= Cardinality(Holders \ {r})
    BY <1>1, <1>5, HoldersFinite, FS_Subset
  <2>2. Cardinality(Holders \ {r}) = Cardinality(Holders) - 1
    BY <1>1, HoldersFinite, FS_RemoveElement
  <2>3. QED
    BY <1>1, <2>1, <2>2, HoldersFinite, RegisteredFinite
<1>7. Cardinality(Promise!RunningOf(w)) + 1 <= Cardinality(HoldersOf(w))
  <2>1. Promise!RunningOf(w) \subseteq HoldersOf(w) \ {r} /\ r \in HoldersOf(w)
    BY <1>1, <1>5, PromiseRunning DEF HoldersOf
  <2>2. IsFiniteSet(HoldersOf(w)) /\ Cardinality(HoldersOf(w)) \in Nat
    BY <1>1, HoldersFinite
  <2>3. /\ IsFiniteSet(HoldersOf(w) \ {r})
        /\ Cardinality(HoldersOf(w) \ {r}) = Cardinality(HoldersOf(w)) - 1
    BY <2>1, <2>2, FS_RemoveElement
  <2>4. /\ IsFiniteSet(Promise!RunningOf(w))
        /\ Cardinality(Promise!RunningOf(w)) <= Cardinality(HoldersOf(w) \ {r})
    BY <2>1, <2>3, FS_Subset
  <2>5. Cardinality(Promise!RunningOf(w)) \in Nat
    BY <2>4, FS_CardinalityType
  <2>6. QED
    BY <2>2, <2>3, <2>4, <2>5
<1>8. Promise!Below(Cardinality(Promise!Running), config.global)
  <2>1. config.global > 0 => Cardinality(Holders) <= config.global
    BY DEF LimitsRespected
  <2>2. config.global \in Int
    BY <1>1, ConstantsAssumption DEF ConfigType
  <2>3. QED
    BY <1>1, <1>6, <2>1, <2>2, PromiseRunning, HoldersFinite, RegisteredFinite
       DEF Promise!Below
<1>9. Promise!Below(Cardinality(Promise!RunningOf(w)), WorkflowLimit(w))
  <2>1. WorkflowLimit(w) > 0 => Cardinality(HoldersOf(w)) <= WorkflowLimit(w)
    BY <1>1 DEF LimitsRespected
  <2>2. WorkflowLimit(w) \in Int
    BY <1>1, LimitType DEF WorkflowLimit
  <2>3. Cardinality(HoldersOf(w)) \in Nat
    BY <1>1, HoldersFinite
  <2>4. Cardinality(Promise!RunningOf(w)) \in Nat
    <3>1. Promise!RunningOf(w) \subseteq Registered
      BY PromiseRunning
    <3>2. QED
      BY <3>1, RegisteredFinite, FS_Subset, FS_CardinalityType
  <2>5. QED
    BY <1>7, <2>1, <2>2, <2>3, <2>4 DEF Promise!Below
<1>10. Job' = [Job EXCEPT ![r] = [id |-> i, workflow |-> w]]
  BY <1>2 DEF Job, Register, vars
<1>11. QED
  BY <1>1, <1>3, <1>4, <1>8, <1>9, <1>10, PromiseRunning, PromiseCardinality
     DEF Promise!Start, Job

\* Remove ends a run.
LEMMA RemoveEnds ==
    ASSUME ActiveInv, NEW r \in Requests, Remove(r)
    PROVE  Promise!End(r)
<1>1. Registered' = Registered \ {r} /\ r \in Registered
  BY RemoveLoses
<1>2. Job[r] # NoJob
  BY <1>1, JobOfRegistered
<1>3. Job' = [Job EXCEPT ![r] = NoJob]
  BY <1>1 DEF Job, Remove, vars
<1>4. QED
  BY <1>2, <1>3 DEF Promise!End, Job

\* The register implements its promise: Register starts a run, Remove ends
\* one, every other step is a stutter.
THEOREM Implementation == ActiveSpec => ImplementsAdmission
<1> DEFINE stutter == <<Job, config.global, [w \in WorkflowIds |-> WorkflowLimit(w)]>>
<1>1. ActiveInit => Promise!Init
  <2> SUFFICES ASSUME ActiveInit PROVE Promise!Init
    OBVIOUS
  <2>1. Registered = {}
    BY ActiveAssumption DEF ActiveInit, Registered
  <2>2. QED
    BY <2>1 DEF Promise!Init
<1>2. /\ ActiveInv /\ LimitsRespected /\ drift = FALSE
      /\ [ActiveNext]_activeVars
      => [Promise!Next]_stutter
  <2> SUFFICES ASSUME ActiveInv, LimitsRespected, drift = FALSE, [ActiveNext]_activeVars
               PROVE  Promise!Next \/ UNCHANGED stutter
    OBVIOUS
  <2>1. \A q \in Registered : q \in Requests /\ pc[q] = "holding" /\ q \notin leaving
    BY RegisteredFinite DEF ActiveInv, CountedAndPermitted
  <2>2. TypeOK
    BY DEF ActiveInv, ActiveTypeOK
  <2>3. ASSUME executions' = executions, config' = config,
               \A q \in Registered : entry'[q] = entry[q]
        PROVE  UNCHANGED stutter
    BY <2>3, JobUnchanged
  <2>4. CASE Waiting
    <3>1. executions' = executions
      BY <2>4 DEF Waiting, registerVars
    <3>2. config' = config
      BY <2>4 DEF Waiting, WaitWithOptions, WaitAs, Wake, Expire, Cancel, Grant, DispatchDone
    <3>3. \A q \in Registered : entry'[q] = entry[q]
      BY <2>1, <2>2, <2>4, WaitingKeepsHolding
    <3>4. QED
      BY <2>3, <3>1, <3>2, <3>3
  <2>5. ASSUME NEW r \in Requests, Register(r)
        PROVE  Promise!Next
    <3>1. PICK w \in WorkflowIds : entry[r].workflow = w
      BY <2>2, EntryWorkflow
    <3>2. Promise!Start(r, ExecutionOf[r], w) /\ ExecutionOf[r] \in ExecutionIds
      BY <2>5, <3>1, RegisterStarts, ActiveAssumption
    <3>3. config' = config
      BY <2>5 DEF Register, vars
    <3>4. QED
      BY <3>2, <3>3 DEF Promise!Next, WorkflowLimit
  <2>6. ASSUME NEW r \in Requests, Remove(r)
        PROVE  Promise!Next
    <3>1. Promise!End(r)
      BY <2>6, RemoveEnds
    <3>2. config' = config
      BY <2>6 DEF Remove, vars
    <3>3. QED
      BY <3>1, <3>2 DEF Promise!Next, WorkflowLimit
  <2>7. ASSUME NEW r \in Requests, RejectDuplicate(r) \/ ReleasePermit(r)
        PROVE  UNCHANGED stutter
    <3>1. r \notin Registered /\ executions' = executions /\ Release(r)
      BY <2>1, <2>7 DEF RejectDuplicate, ReleasePermit, Entering, registerVars
    <3>2. config' = config
      BY <3>1 DEF Release
    <3>3. \A q \in Registered : entry'[q] = entry[q]
      BY <2>1, <2>2, <3>1, ReleaseKeepsHolding
    <3>4. QED
      BY <2>3, <3>1, <3>2, <3>3
  <2>8. ASSUME NEW i \in ExecutionIds, Stop(i) \/ StopNext(i)
        PROVE  UNCHANGED stutter
    <3>1. executions' = executions /\ config' = config /\ entry' = entry
      BY <2>8 DEF Stop, StopNext, vars, registerVars
    <3>2. QED
      BY <2>3, <3>1
  <2>9. CASE GracefulShutdown \/ StopAll \/ StopAllDone \/ WaitForAll
    <3>1. executions' = executions /\ config' = config /\ entry' = entry
      BY <2>9 DEF GracefulShutdown, StopAll, StopAllDone, WaitForAll, vars, registerVars
    <3>2. QED
      BY <2>3, <3>1
  <2>10. CASE UNCHANGED activeVars
    <3>1. executions' = executions /\ config' = config /\ entry' = entry
      BY <2>10 DEF activeVars, vars, registerVars
    <3>2. QED
      BY <2>3, <3>1
  <2>11. QED
    BY <2>4, <2>5, <2>6, <2>7, <2>8, <2>9, <2>10 DEF ActiveNext
<1>3. [][Promise!Next]_stutter /\ Promise!Init => ImplementsAdmission
  BY DEF ImplementsAdmission, Promise!Spec, Job
<1>4. ActiveSpec => [](ActiveInv /\ LimitsRespected /\ drift = FALSE)
  BY ActiveInductive, UsesControl, LimitsRespectedHolds, NoDrift, PTL
<1> HIDE DEF stutter
<1>5. QED
  BY <1>1, <1>2, <1>3, <1>4, PTL DEF ActiveSpec
=============================================================================
