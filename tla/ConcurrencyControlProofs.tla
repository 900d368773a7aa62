---------------------- MODULE ConcurrencyControlProofs ----------------------
(***************************************************************************)
(* Proofs about ConcurrencyControl for every set of requests, workflows    *)
(* and configurations.                                                     *)
(***************************************************************************)
EXTENDS ConcurrencyControl, FiniteSetTheorems, TLAPS

-----------------------------------------------------------------------------
\* A request that waits is in the queue or has been granted a permit, never
\* both and never neither: the hand-over of dispatchLocked and the removal by
\* a waiter that gives up lose nobody and serve nobody twice.
QueueSplit ==
    /\ queue \cap granted = {}
    /\ queue \cup granted = {r \in Requests : pc[r] \in {"waiting", "cancelling"}}

\* A semaphore never holds more tokens than its channel has room for.
TokensWithin ==
    /\ config.global > 0 => globalUsed <= config.global
    /\ \A w \in WorkflowIds : WorkflowLimit(w) > 0 => workflowUsed[w] <= WorkflowLimit(w)

\* The three facts about the token counts, the last of which alone is not
\* inductive: a release after a change of limits needs the first.
Tokens == TokensBacked /\ TokensWithin /\ TokensExact

IInv ==
    /\ TypeOK
    /\ QueueSplit
    /\ Tokens
    /\ NoStrandedQueue

-----------------------------------------------------------------------------
\* Limits are integers, whichever configuration is in force.
LEMMA LimitType ==
    ASSUME NEW c \in Configs, NEW w \in WorkflowIds
    PROVE  LimitIn(c, w) \in Int /\ c.global \in Int /\ c.queueSize \in Int
  BY ConstantsAssumption DEF ConfigType, LimitIn, WorkflowIds

\* The entry of a request that has none is well typed.
LEMMA NoEntryType == NoEntry \in Entries
  BY DEF NoEntry, Entries, WorkflowIds

\* The workflow of an entry names a semaphore.
LEMMA EntryWorkflow ==
    ASSUME TypeOK, NEW r \in Requests
    PROVE  entry[r].workflow \in WorkflowIds
  BY DEF TypeOK, Entries

\* Taking tokens keeps the counts natural numbers.
LEMMA TakeTokensType ==
    ASSUME TypeOK, NEW w \in WorkflowIds, TakeTokens(w)
    PROVE  globalUsed' \in Nat /\ workflowUsed' \in [WorkflowIds -> Nat]
  BY DEF TypeOK, TakeTokens

\* Type correctness: the initial state and every step are well typed.
THEOREM TypeCorrect == Spec => []TypeOK
<1>1. Init => TypeOK
  <2> SUFFICES ASSUME Init PROVE TypeOK
    OBVIOUS
  <2>1. pc \in [Requests -> PcStates] /\ mu \in {"free", "dispatching"}
    BY DEF Init, PcStates
  <2>2. entry \in [Requests -> Entries]
    BY NoEntryType DEF Init
  <2>3. updates \in 0 .. MaxUpdates
    BY ConstantsAssumption DEF Init
  <2>4. workflowUsed \in [WorkflowIds -> Nat] /\ sequence \in Nat /\ globalUsed \in Nat
    BY DEF Init
  <2>5. QED
    BY <2>1, <2>2, <2>3, <2>4 DEF Init, TypeOK
<1>2. TypeOK /\ [Next]_vars => TypeOK'
  <2> SUFFICES ASSUME TypeOK, [Next]_vars PROVE TypeOK'
    OBVIOUS
  <2> USE DEF TypeOK, PcStates
  <2>1. ASSUME NEW r \in Requests, WaitWithOptions(r) PROVE TypeOK'
    <3>1. PICK w \in WorkflowIds, p \in Priorities : WaitAs(r, w, p)
      BY <2>1 DEF WaitWithOptions
    <3>2. p \in Int
      BY ConstantsAssumption
    <3>3. CASE Admit(r, w, p)
      <4>1. globalUsed' \in Nat /\ workflowUsed' \in [WorkflowIds -> Nat]
        BY <3>3, TakeTokensType DEF Admit
      <4>2. entry' \in [Requests -> Entries]
        BY <3>2, <3>3 DEF Admit, Entries
      <4>3. QED
        BY <3>1, <3>3, <4>1, <4>2 DEF WaitAs, Admit
    <3>4. CASE Refuse(r, w)
      BY <3>1, <3>4 DEF WaitAs, Refuse
    <3>5. CASE Enqueue(r, w, p)
      <4>1. entry' \in [Requests -> Entries]
        BY <3>2, <3>5 DEF Enqueue, Entries
      <4>2. QED
        BY <3>1, <3>5, <4>1 DEF WaitAs, Enqueue
    <3>6. QED
      BY <3>1, <3>3, <3>4, <3>5 DEF WaitAs
  <2>2. ASSUME NEW r \in Requests, Wake(r) PROVE TypeOK'
    BY <2>2 DEF Wake
  <2>3. ASSUME NEW r \in Requests, Expire(r) PROVE TypeOK'
    BY <2>3 DEF Expire
  <2>4. ASSUME NEW r \in Requests, Cancel(r) PROVE TypeOK'
    BY <2>4, NoEntryType DEF Cancel
  <2>5. ASSUME NEW r \in Requests, Release(r) PROVE TypeOK'
    <3>1. \A n \in Nat : Less(n) \in Nat
      BY DEF Less
    <3>2. globalUsed' \in Nat
      BY <2>5, <3>1 DEF Release, ReturnTokens
    <3>3. workflowUsed' \in [WorkflowIds -> Nat]
      BY <2>5, <3>1 DEF Release, ReturnTokens
    <3>4. entry' \in [Requests -> Entries]
      BY <2>5, NoEntryType DEF Release
    <3>5. QED
      BY <2>5, <3>2, <3>3, <3>4 DEF Release
  <2>6. ASSUME NEW r \in Requests, Grant(r) PROVE TypeOK'
    <3>1. globalUsed' \in Nat /\ workflowUsed' \in [WorkflowIds -> Nat]
      BY <2>6, EntryWorkflow, TakeTokensType DEF Grant
    <3>2. r \in queue
      BY <2>6 DEF Grant, IsSelected, Admissible
    <3>3. QED
      BY <2>6, <3>1, <3>2 DEF Grant
  <2>7. ASSUME DispatchDone PROVE TypeOK'
    BY <2>7 DEF DispatchDone
  <2>8. ASSUME Reconfigure PROVE TypeOK'
    <3>1. PICK c \in Configs : UpdateConfig(c)
      BY <2>8 DEF Reconfigure
    <3>2. globalUsed' \in Nat /\ workflowUsed' \in [WorkflowIds -> Nat]
      BY <3>1 DEF UpdateConfig
    <3>3. updates' \in 0 .. MaxUpdates
      BY <3>1, ConstantsAssumption DEF UpdateConfig
    <3>4. QED
      BY <3>1, <3>2, <3>3 DEF UpdateConfig
  <2>9. CASE UNCHANGED vars
    BY <2>9 DEF vars
  <2>10. QED
    BY <2>1, <2>2, <2>3, <2>4, <2>5, <2>6, <2>7, <2>8, <2>9 DEF Next
<1>3. QED
  BY <1>1, <1>2, PTL DEF Spec

-----------------------------------------------------------------------------
\* How a step changes the set of permit holders, and the sets per workflow.

\* Holders are finitely many, and so are those of one workflow.
LEMMA HoldersFinite ==
    ASSUME TypeOK
    PROVE  /\ Holders \subseteq Requests
           /\ IsFiniteSet(Holders) /\ Cardinality(Holders) \in Nat
           /\ \A w : /\ IsFiniteSet(HoldersOf(w))
                   /\ Cardinality(HoldersOf(w)) \in Nat
                   /\ HoldersOf(w) \subseteq Holders
<1>1. Holders \subseteq Requests
  BY DEF TypeOK, Holders
<1>2. IsFiniteSet(Holders)
  BY <1>1, FS_Subset, ConstantsAssumption
<1>3. \A w : HoldersOf(w) \subseteq Holders
  BY DEF HoldersOf
<1>4. \A w : IsFiniteSet(HoldersOf(w))
  BY <1>2, <1>3, FS_Subset
<1>5. QED
  BY <1>1, <1>2, <1>3, <1>4, FS_CardinalityType

\* Without new or departed holders the counts stay as they are.
LEMMA HoldersKept ==
    ASSUME Holders' = Holders,
           \A q \in Holders : entry'[q].workflow = entry[q].workflow
    PROVE  \A w : HoldersOf(w)' = HoldersOf(w)
  BY DEF HoldersOf

\* A new holder counts once, globally and for its workflow.
LEMMA HoldersGain ==
    ASSUME TypeOK, NEW r \in Requests, r \notin Holders, NEW v,
           Holders' = Holders \cup {r}, entry'[r].workflow = v,
           \A q \in Holders : entry'[q].workflow = entry[q].workflow
    PROVE  /\ Cardinality(Holders)' = Cardinality(Holders) + 1
           /\ Cardinality(HoldersOf(v))' = Cardinality(HoldersOf(v)) + 1
           /\ \A w : w # v => Cardinality(HoldersOf(w))' = Cardinality(HoldersOf(w))
<1>1. HoldersOf(v)' = HoldersOf(v) \cup {r} /\ r \notin HoldersOf(v)
  BY DEF HoldersOf
<1>2. \A w : w # v => HoldersOf(w)' = HoldersOf(w)
  BY DEF HoldersOf
<1>3. QED
  BY <1>1, <1>2, HoldersFinite, FS_AddElement

\* A departed holder was counted once, globally and for its workflow.
LEMMA HoldersLoss ==
    ASSUME TypeOK, NEW r \in Requests, r \in Holders, Holders' = Holders \ {r},
           \A q \in Holders \ {r} : entry'[q].workflow = entry[q].workflow
    PROVE  /\ Cardinality(Holders)' = Cardinality(Holders) - 1
           /\ \A w : Cardinality(HoldersOf(w))' =
                     IF w = entry[r].workflow THEN Cardinality(HoldersOf(w)) - 1
                     ELSE Cardinality(HoldersOf(w))
<1>1. Cardinality(Holders \ {r}) = Cardinality(Holders) - 1
  BY HoldersFinite, FS_RemoveElement
<1>2. ASSUME NEW w, w = entry[r].workflow
      PROVE  Cardinality(HoldersOf(w))' = Cardinality(HoldersOf(w)) - 1
  <2>1. HoldersOf(w)' = HoldersOf(w) \ {r} /\ r \in HoldersOf(w)
    BY <1>2 DEF HoldersOf
  <2>2. QED
    BY <2>1, HoldersFinite, FS_RemoveElement
<1>3. ASSUME NEW w, w # entry[r].workflow
      PROVE  HoldersOf(w)' = HoldersOf(w)
  BY <1>3 DEF HoldersOf
<1>4. QED
  BY <1>1, <1>2, <1>3

-----------------------------------------------------------------------------
\* What the three kinds of steps do to the token counts.

\* A step that leaves holders and semaphores alone keeps the counting.
LEMMA TokensKept ==
    ASSUME Tokens, Holders' = Holders,
           \A q \in Holders : entry'[q].workflow = entry[q].workflow,
           UNCHANGED <<config, globalUsed, workflowUsed, drift>>
    PROVE  Tokens'
<1>1. \A w : HoldersOf(w)' = HoldersOf(w)
  BY HoldersKept
<1>2. QED
  BY <1>1 DEF Tokens, TokensBacked, TokensWithin, TokensExact, WorkflowLimit

\* A holder that takes its tokens keeps the counting.
LEMMA TokensGain ==
    ASSUME TypeOK, Tokens, NEW r \in Requests, r \notin Holders, NEW v \in WorkflowIds,
           Holders' = Holders \cup {r}, entry'[r].workflow = v,
           \A q \in Holders : entry'[q].workflow = entry[q].workflow,
           CanAcquire(v), TakeTokens(v), UNCHANGED <<config, drift>>
    PROVE  Tokens'
<1> DEFINE H == Cardinality(Holders)
           HO(w) == Cardinality(HoldersOf(w))
<1>1. H' = H + 1 /\ HO(v)' = HO(v) + 1 /\ \A w : w # v => HO(w)' = HO(w)
  BY HoldersGain
<1>2. H \in Nat /\ \A w : HO(w) \in Nat
  BY HoldersFinite
<1>3. \A w \in WorkflowIds : WorkflowLimit(w)' = WorkflowLimit(w) /\ WorkflowLimit(w) \in Int
  BY LimitType DEF WorkflowLimit, TypeOK
<1>4. config.global \in Int /\ globalUsed \in Nat /\ workflowUsed \in [WorkflowIds -> Nat]
  BY LimitType DEF TypeOK
<1> HIDE DEF H, HO
<1>5. TokensBacked'
  <2>1. globalUsed <= H /\ \A w \in WorkflowIds : workflowUsed[w] <= HO(w)
    BY DEF Tokens, TokensBacked, H, HO
  <2>2. globalUsed' <= H'
    BY <1>1, <1>2, <1>4, <2>1 DEF TakeTokens
  <2>3. ASSUME NEW w \in WorkflowIds PROVE workflowUsed'[w] <= HO(w)'
    <3>1. CASE w = v
      BY <1>1, <1>2, <1>4, <2>1, <3>1 DEF TakeTokens
    <3>2. CASE w # v
      BY <1>1, <1>2, <1>4, <2>1, <3>2 DEF TakeTokens
    <3>3. QED
      BY <3>1, <3>2
  <2>4. QED
    BY <2>2, <2>3 DEF TokensBacked, H, HO
<1>6. TokensWithin'
  <2>1. config.global > 0 => globalUsed' <= config.global
    BY <1>4 DEF CanAcquire, GlobalFree, TakeTokens
  <2>2. ASSUME NEW w \in WorkflowIds, WorkflowLimit(w) > 0
        PROVE  workflowUsed'[w] <= WorkflowLimit(w)
    <3>1. CASE w = v
      BY <1>3, <1>4, <2>2, <3>1 DEF CanAcquire, WorkflowFree, TakeTokens
    <3>2. CASE w # v
      BY <1>4, <2>2, <3>2 DEF Tokens, TokensWithin, TakeTokens
    <3>3. QED
      BY <3>1, <3>2
  <2>3. QED
    BY <1>3, <2>1, <2>2 DEF TokensWithin
<1>7. TokensExact'
  <2> SUFFICES ASSUME ~drift PROVE TokensExact'
    BY DEF TokensExact
  <2>1. config.global > 0 => globalUsed = H
    BY DEF Tokens, TokensExact, H
  <2>2. \A w \in WorkflowIds : WorkflowLimit(w) > 0 => workflowUsed[w] = HO(w)
    BY DEF Tokens, TokensExact, HO
  <2>3. config.global > 0 => globalUsed' = H'
    BY <1>1, <1>2, <2>1 DEF TakeTokens
  <2>4. ASSUME NEW w \in WorkflowIds, WorkflowLimit(w) > 0 PROVE workflowUsed'[w] = HO(w)'
    <3>1. CASE w = v
      BY <1>1, <1>2, <1>4, <2>2, <2>4, <3>1 DEF TakeTokens
    <3>2. CASE w # v
      BY <1>1, <1>4, <2>2, <2>4, <3>2 DEF TakeTokens
    <3>3. QED
      BY <3>1, <3>2
  <2>5. QED
    BY <1>3, <2>3, <2>4 DEF TokensExact, H, HO
<1>8. QED
  BY <1>5, <1>6, <1>7 DEF Tokens

\* A holder that returns its tokens keeps the counting.
LEMMA TokensLoss ==
    ASSUME TypeOK, Tokens, NEW r \in Requests, r \in Holders, NEW v \in WorkflowIds,
           v = entry[r].workflow, Holders' = Holders \ {r},
           \A q \in Holders \ {r} : entry'[q].workflow = entry[q].workflow,
           ReturnTokens(v), config' = config, drift' = (drift /\ Holders # {r})
    PROVE  Tokens'
<1> DEFINE H == Cardinality(Holders)
           HO(w) == Cardinality(HoldersOf(w))
<1>1. H' = H - 1 /\ HO(v)' = HO(v) - 1 /\ \A w : w # v => HO(w)' = HO(w)
  BY HoldersLoss
<1>2. H \in Nat /\ \A w : HO(w) \in Nat
  BY HoldersFinite
<1>3. \A w \in WorkflowIds : WorkflowLimit(w)' = WorkflowLimit(w) /\ WorkflowLimit(w) \in Int
  BY LimitType DEF WorkflowLimit, TypeOK
<1>4. config.global \in Int /\ globalUsed \in Nat /\ workflowUsed \in [WorkflowIds -> Nat]
  BY LimitType DEF TypeOK
<1>5. H >= 1 /\ HO(v) >= 1
  <2>1. Holders # {} /\ HoldersOf(v) # {}
    BY DEF HoldersOf
  <2>2. QED
    BY <1>2, <2>1, HoldersFinite, FS_EmptySet
<1>6. Holders = {r} => H = 1 /\ \A w : HO(w) <= 1 /\ (w # v => HO(w) = 0)
  <2> SUFFICES ASSUME Holders = {r}
               PROVE  H = 1 /\ \A w : HO(w) <= 1 /\ (w # v => HO(w) = 0)
    OBVIOUS
  <2>1. H = 1
    BY FS_Singleton
  <2>2. \A w : HO(w) <= H
    BY HoldersFinite, FS_Subset
  <2>3. ASSUME NEW w, w # v PROVE HO(w) = 0
    <3>1. HoldersOf(w) = {}
      BY <2>3 DEF HoldersOf
    <3>2. QED
      BY <3>1, FS_EmptySet
  <2>4. QED
    BY <2>1, <2>2, <2>3
<1>7. /\ globalUsed <= H /\ \A w \in WorkflowIds : workflowUsed[w] <= HO(w)
      /\ ~drift => /\ config.global > 0 => globalUsed = H
                   /\ \A w \in WorkflowIds : WorkflowLimit(w) > 0 => workflowUsed[w] = HO(w)
  BY DEF Tokens, TokensBacked, TokensExact
<1>8. /\ globalUsed' = Less(globalUsed)
      /\ \A w \in WorkflowIds :
           workflowUsed'[w] = IF w = v THEN Less(workflowUsed[w]) ELSE workflowUsed[w]
  BY <1>4 DEF ReturnTokens
<1>9. \A n \in Nat : Less(n) <= n /\ (n > 0 => Less(n) = n - 1) /\ (n = 0 => Less(n) = 0)
  BY DEF Less
<1>10. TokensBacked' <=> /\ globalUsed' <= H'
                        /\ \A w \in WorkflowIds : workflowUsed'[w] <= HO(w)'
  BY DEF TokensBacked
<1>11. TokensExact' <=>
         (~drift' => /\ config.global > 0 => globalUsed' = H'
                     /\ \A w \in WorkflowIds :
                          WorkflowLimit(w) > 0 => workflowUsed'[w] = HO(w)')
  BY <1>3 DEF TokensExact
<1> HIDE DEF H, HO
<1>12. TokensBacked'
  <2>1. globalUsed' <= H'
    BY <1>1, <1>2, <1>4, <1>5, <1>7, <1>8, <1>9
  <2>2. ASSUME NEW w \in WorkflowIds PROVE workflowUsed'[w] <= HO(w)'
    <3>1. CASE w = v
      BY <1>1, <1>2, <1>4, <1>5, <1>7, <1>8, <1>9, <3>1
    <3>2. CASE w # v
      BY <1>1, <1>7, <1>8, <3>2
    <3>3. QED
      BY <3>1, <3>2
  <2>3. QED
    BY <1>10, <2>1, <2>2
<1>13. TokensWithin'
  <2>1. config.global > 0 => globalUsed' <= config.global
    BY <1>4, <1>8, <1>9 DEF Tokens, TokensWithin
  <2>2. ASSUME NEW w \in WorkflowIds, WorkflowLimit(w) > 0
        PROVE  workflowUsed'[w] <= WorkflowLimit(w)
    BY <1>3, <1>4, <1>8, <1>9, <2>2 DEF Tokens, TokensWithin
  <2>3. QED
    BY <1>3, <2>1, <2>2 DEF TokensWithin
<1>14. TokensExact'
  <2>1. CASE Holders = {r}
    <3>1. globalUsed' = H'
      BY <1>1, <1>2, <1>4, <1>6, <1>7, <1>8, <1>9, <2>1
    <3>2. ASSUME NEW w \in WorkflowIds PROVE workflowUsed'[w] = HO(w)'
      <4>1. CASE w = v
        BY <1>1, <1>2, <1>4, <1>5, <1>6, <1>7, <1>8, <1>9, <2>1, <4>1
      <4>2. CASE w # v
        BY <1>1, <1>2, <1>4, <1>6, <1>7, <1>8, <2>1, <4>2
      <4>3. QED
        BY <4>1, <4>2
    <3>3. QED
      BY <1>11, <3>1, <3>2
  <2>2. CASE Holders # {r}
    <3> SUFFICES ASSUME ~drift PROVE TokensExact'
      BY <1>11, <2>2
    <3>1. config.global > 0 => globalUsed' = H'
      BY <1>1, <1>2, <1>4, <1>5, <1>7, <1>8, <1>9
    <3>2. ASSUME NEW w \in WorkflowIds, WorkflowLimit(w) > 0 PROVE workflowUsed'[w] = HO(w)'
      <4>1. CASE w = v
        BY <1>1, <1>2, <1>4, <1>5, <1>7, <1>8, <1>9, <3>2, <4>1
      <4>2. CASE w # v
        BY <1>1, <1>7, <1>8, <3>2, <4>2
      <4>3. QED
        BY <4>1, <4>2
    <3>3. QED
      BY <1>11, <3>1, <3>2
  <2>3. QED
    BY <2>1, <2>2
<1>15. QED
  BY <1>12, <1>13, <1>14 DEF Tokens

\* UpdateConfig: a semaphore that keeps its size keeps its tokens, one that
\* changes starts empty, and drift notes that holders were overlooked.
LEMMA TokensUpdate ==
    ASSUME TypeOK, Tokens, NEW c \in Configs, UpdateConfig(c)
    PROVE  Tokens'
<1> DEFINE H == Cardinality(Holders)
           HO(w) == Cardinality(HoldersOf(w))
<1>1. Holders' = Holders /\ \A w : HoldersOf(w)' = HoldersOf(w)
  BY DEF UpdateConfig, Holders, HoldersOf
<1>2. H' = H /\ (\A w : HO(w)' = HO(w)) /\ H \in Nat /\ \A w : HO(w) \in Nat
  BY <1>1, HoldersFinite
<1>3. Holders = {} => H = 0 /\ \A w : HO(w) = 0
  BY FS_EmptySet DEF HoldersOf
<1>4. /\ c.global \in Int /\ config.global \in Int /\ globalUsed \in Nat
      /\ workflowUsed \in [WorkflowIds -> Nat]
      /\ \A w \in WorkflowIds : LimitIn(c, w) \in Int /\ WorkflowLimit(w) \in Int
  <2>1. config \in Configs /\ globalUsed \in Nat /\ workflowUsed \in [WorkflowIds -> Nat]
    BY DEF TypeOK
  <2>2. c.global \in Int /\ config.global \in Int
    BY <2>1, ConstantsAssumption DEF ConfigType
  <2>3. \A w \in WorkflowIds : LimitIn(c, w) \in Int /\ WorkflowLimit(w) \in Int
    BY <2>1, LimitType DEF WorkflowLimit
  <2>4. QED
    BY <2>1, <2>2, <2>3
<1>5. /\ config' = c
      /\ globalUsed' = IF c.global = config.global THEN globalUsed ELSE 0
      /\ \A w \in WorkflowIds :
           workflowUsed'[w] = IF LimitIn(c, w) = WorkflowLimit(w) THEN workflowUsed[w] ELSE 0
      /\ \A w : WorkflowLimit(w)' = LimitIn(c, w)
  BY <1>4 DEF UpdateConfig, WorkflowLimit
<1>6. ~drift' => ~drift /\ (Holders = {} \/ ~LimitsDiffer(c))
  BY DEF UpdateConfig
<1>7. ~LimitsDiffer(c) => /\ c.global = config.global
                         /\ \A w \in WorkflowIds : LimitIn(c, w) = WorkflowLimit(w)
  BY DEF LimitsDiffer, LimitIn, WorkflowLimit, WorkflowIds
<1>8. /\ globalUsed <= H /\ \A w \in WorkflowIds : workflowUsed[w] <= HO(w)
      /\ ~drift => /\ config.global > 0 => globalUsed = H
                   /\ \A w \in WorkflowIds : WorkflowLimit(w) > 0 => workflowUsed[w] = HO(w)
  BY DEF Tokens, TokensBacked, TokensExact
<1>9. TokensBacked' <=> /\ globalUsed' <= H'
                       /\ \A w \in WorkflowIds : workflowUsed'[w] <= HO(w)'
  BY DEF TokensBacked
<1>10. TokensExact' <=>
         (~drift' => /\ c.global > 0 => globalUsed' = H'
                     /\ \A w \in WorkflowIds :
                          LimitIn(c, w) > 0 => workflowUsed'[w] = HO(w)')
  BY <1>5 DEF TokensExact
<1> HIDE DEF H, HO
<1>11. TokensBacked'
  BY <1>2, <1>4, <1>5, <1>8, <1>9
<1>12. TokensWithin'
  <2>1. c.global > 0 => globalUsed' <= c.global
    BY <1>4, <1>5 DEF Tokens, TokensWithin
  <2>2. ASSUME NEW w \in WorkflowIds, LimitIn(c, w) > 0
        PROVE  workflowUsed'[w] <= LimitIn(c, w)
    BY <1>4, <1>5, <2>2 DEF Tokens, TokensWithin
  <2>3. QED
    BY <1>5, <2>1, <2>2 DEF TokensWithin
<1>13. TokensExact'
  <2> SUFFICES ASSUME ~drift' PROVE TokensExact'
    BY <1>10
  <2>1. CASE Holders = {}
    <3>1. globalUsed = 0 /\ \A w \in WorkflowIds : workflowUsed[w] = 0
      BY <1>3, <1>4, <1>8, <2>1
    <3>2. QED
      BY <1>2, <1>3, <1>5, <1>10, <2>1, <3>1
  <2>2. CASE ~LimitsDiffer(c)
    BY <1>2, <1>5, <1>6, <1>7, <1>8, <1>10, <2>2
  <2>3. QED
    BY <1>6, <2>1, <2>2
<1>14. QED
  BY <1>11, <1>12, <1>13 DEF Tokens

-----------------------------------------------------------------------------
\* If somebody cannot be admitted, somebody holds a permit.
LEMMA BlockedByHolders ==
    ASSUME TypeOK, TokensBacked, NEW w \in WorkflowIds, ~CanAcquire(w)
    PROVE  Holders # {}
<1> SUFFICES ASSUME Holders = {} PROVE FALSE
  OBVIOUS
<1>1. Cardinality(Holders) = 0 /\ Cardinality(HoldersOf(w)) = 0
  BY FS_EmptySet DEF HoldersOf
<1>2. globalUsed <= 0 /\ workflowUsed[w] <= 0
  BY <1>1 DEF TokensBacked
<1>3. config.global \in Int /\ WorkflowLimit(w) \in Int
  BY LimitType DEF TypeOK, WorkflowLimit
<1>4. globalUsed \in Nat /\ workflowUsed[w] \in Nat
  BY DEF TypeOK
<1>5. QED
  BY <1>2, <1>3, <1>4 DEF CanAcquire, GlobalFree, WorkflowFree

-----------------------------------------------------------------------------
\* The actions one by one.  WaitAs, Grant and Release move the set of holders,
\* UpdateConfig the limits; every other action leaves the tokens alone.

\* A request that is granted at once, refused or queued.
LEMMA WaitKeepsIInv ==
    ASSUME IInv, NEW r \in Requests, NEW w \in WorkflowIds, NEW p \in Priorities,
           WaitAs(r, w, p)
    PROVE  QueueSplit' /\ Tokens' /\ NoStrandedQueue'
<1>1. TypeOK /\ QueueSplit /\ Tokens /\ NoStrandedQueue /\ mu = "free" /\ pc[r] = "idle"
  BY DEF IInv, WaitAs
<1>2. r \notin queue /\ r \notin granted /\ r \notin Holders
  BY <1>1 DEF QueueSplit, Holders
<1>3. CASE Admit(r, w, p)
  <2>1. Holders' = Holders \cup {r}
    BY <1>1, <1>3 DEF Admit, WaitAs, Holders, TypeOK
  <2>2. entry'[r].workflow = w /\ \A q \in Holders : entry'[q].workflow = entry[q].workflow
    BY <1>1, <1>2, <1>3, HoldersFinite DEF Admit, TypeOK
  <2>3. Tokens'
    BY <1>1, <1>2, <1>3, <2>1, <2>2, TokensGain DEF Admit, WaitAs
  <2>4. QueueSplit'
    BY <1>1, <1>3 DEF Admit, WaitAs, QueueSplit, TypeOK
  <2>5. QED
    BY <2>1, <2>3, <2>4 DEF NoStrandedQueue
<1>4. CASE Refuse(r, w)
  <2>1. Holders' = Holders
    BY <1>1, <1>4 DEF Refuse, WaitAs, Holders, TypeOK
  <2>2. Tokens'
    BY <1>1, <1>4, <2>1, TokensKept DEF Refuse, WaitAs
  <2>3. QueueSplit'
    BY <1>1, <1>4 DEF Refuse, WaitAs, QueueSplit, TypeOK
  <2>4. QED
    BY <1>1, <1>4, <2>1, <2>2, <2>3 DEF NoStrandedQueue, Refuse, WaitAs
<1>5. CASE Enqueue(r, w, p)
  <2>1. Holders' = Holders
    BY <1>1, <1>5 DEF Enqueue, WaitAs, Holders, TypeOK
  <2>2. \A q \in Holders : entry'[q].workflow = entry[q].workflow
    BY <1>1, <1>2, <1>5, HoldersFinite DEF Enqueue, TypeOK
  <2>3. Tokens'
    BY <1>1, <1>5, <2>1, <2>2, TokensKept DEF Enqueue, WaitAs
  <2>4. QueueSplit'
    BY <1>1, <1>2, <1>5 DEF Enqueue, WaitAs, QueueSplit, TypeOK
  <2>5. Holders # {}
    <3>1. CASE queue # {}
      BY <1>1, <3>1 DEF NoStrandedQueue
    <3>2. CASE ~CanAcquire(w)
      BY <1>1, <3>2, BlockedByHolders DEF Tokens
    <3>3. QED
      BY <1>5, <3>1, <3>2 DEF Enqueue
  <2>6. QED
    BY <2>1, <2>3, <2>4, <2>5 DEF NoStrandedQueue
<1>6. QED
  BY <1>3, <1>4, <1>5 DEF WaitAs

\* A granted request that wakes.
LEMMA WakeKeepsIInv ==
    ASSUME IInv, NEW r \in Requests, Wake(r)
    PROVE  QueueSplit' /\ Tokens' /\ NoStrandedQueue'
<1>1. TypeOK /\ QueueSplit /\ Tokens /\ NoStrandedQueue
  BY DEF IInv
<1>2. Holders' = Holders
  BY <1>1 DEF Wake, Holders, TypeOK
<1>3. Tokens'
  BY <1>1, <1>2, TokensKept DEF Wake
<1>4. QueueSplit'
  BY <1>1 DEF Wake, QueueSplit, TypeOK
<1>5. QED
  BY <1>1, <1>2, <1>3, <1>4 DEF NoStrandedQueue, Wake

\* A request whose context ends while it waits.
LEMMA ExpireKeepsIInv ==
    ASSUME IInv, NEW r \in Requests, Expire(r)
    PROVE  QueueSplit' /\ Tokens' /\ NoStrandedQueue'
<1>1. TypeOK /\ QueueSplit /\ Tokens /\ NoStrandedQueue
  BY DEF IInv
<1>2. Holders' = Holders
  BY <1>1 DEF Expire, Holders, TypeOK
<1>3. Tokens'
  BY <1>1, <1>2, TokensKept DEF Expire
<1>4. QueueSplit'
  BY <1>1 DEF Expire, QueueSplit, TypeOK
<1>5. QED
  BY <1>1, <1>2, <1>3, <1>4 DEF NoStrandedQueue, Expire

\* A waiter that gives up is in the queue and holds nothing, or it holds a
\* permit and keeps it: either way the holders stay who they were.
LEMMA CancelKeepsIInv ==
    ASSUME IInv, NEW r \in Requests, Cancel(r)
    PROVE  QueueSplit' /\ Tokens' /\ NoStrandedQueue'
<1>1. /\ TypeOK /\ QueueSplit /\ Tokens /\ NoStrandedQueue
      /\ mu = "free" /\ pc[r] = "cancelling"
  BY DEF IInv, Cancel
<1>2. CASE r \in granted
  <2>1. r \notin queue
    BY <1>1, <1>2 DEF QueueSplit
  <2>2. pc' = [pc EXCEPT ![r] = "holding"] /\ entry' = entry
    BY <1>2, <2>1 DEF Cancel
  <2>3. Holders' = Holders
    BY <1>1, <1>2, <2>2 DEF Cancel, Holders, TypeOK
  <2>4. Tokens'
    BY <1>1, <2>2, <2>3, TokensKept DEF Cancel
  <2>5. QueueSplit'
    BY <1>1, <2>1, <2>2 DEF Cancel, QueueSplit, TypeOK
  <2>6. QED
    BY <1>1, <2>1, <2>3, <2>4, <2>5 DEF NoStrandedQueue, Cancel
<1>3. CASE r \notin granted
  <2>1. r \notin Holders
    BY <1>1, <1>3 DEF Holders
  <2>2. pc' = [pc EXCEPT ![r] = "timedOut"] /\ entry' = [entry EXCEPT ![r] = NoEntry]
    BY <1>3 DEF Cancel
  <2>3. Holders' = Holders
    BY <1>1, <1>3, <2>2 DEF Cancel, Holders, TypeOK
  <2>4. \A q \in Holders : entry'[q].workflow = entry[q].workflow
    BY <1>1, <2>1, <2>2, HoldersFinite DEF TypeOK
  <2>5. Tokens'
    BY <1>1, <2>3, <2>4, TokensKept DEF Cancel
  <2>6. QueueSplit'
    BY <1>1, <1>3, <2>2 DEF Cancel, QueueSplit, TypeOK
  <2>7. QED
    BY <1>1, <2>3, <2>5, <2>6 DEF NoStrandedQueue, Cancel
<1>4. QED
  BY <1>2, <1>3

\* A holder that returns its permit and takes the lock to dispatch.
LEMMA ReleaseKeepsIInv ==
    ASSUME IInv, NEW r \in Requests, Release(r)
    PROVE  QueueSplit' /\ Tokens' /\ NoStrandedQueue'
<1>1. TypeOK /\ QueueSplit /\ Tokens /\ pc[r] = "holding"
  BY DEF IInv, Release
<1>2. r \in Holders /\ r \notin queue /\ r \notin granted
  BY <1>1 DEF Holders, QueueSplit
<1>3. Holders' = Holders \ {r}
  BY <1>1, <1>2 DEF Release, Holders, TypeOK
<1>4. \A q \in Holders \ {r} : entry'[q].workflow = entry[q].workflow
  BY <1>1, HoldersFinite DEF Release, TypeOK
<1>5. Tokens'
  BY <1>1, <1>2, <1>3, <1>4, EntryWorkflow, TokensLoss DEF Release
<1>6. QueueSplit'
  BY <1>1, <1>2 DEF Release, QueueSplit, TypeOK
<1>7. QED
  BY <1>5, <1>6 DEF NoStrandedQueue, Release

\* One round of the dispatch loop.
LEMMA GrantKeepsIInv ==
    ASSUME IInv, NEW r \in Requests, Grant(r)
    PROVE  QueueSplit' /\ Tokens' /\ NoStrandedQueue'
<1>1. /\ TypeOK /\ QueueSplit /\ Tokens
      /\ r \in queue /\ CanAcquire(entry[r].workflow)
  BY DEF IInv, Grant, IsSelected, Admissible
<1>2. r \notin granted /\ r \notin Holders
  BY <1>1 DEF QueueSplit, Holders
<1>3. Holders' = Holders \cup {r}
  BY <1>1 DEF Grant, Holders, TypeOK
<1>4. Tokens'
  BY <1>1, <1>2, <1>3, EntryWorkflow, TokensGain DEF Grant
<1>5. QueueSplit'
  BY <1>1, <1>2 DEF Grant, QueueSplit, TypeOK
<1>6. QED
  BY <1>3, <1>4, <1>5 DEF NoStrandedQueue

\* The loop ends with nobody admissible, so whoever is left in the queue is
\* held up by a permit holder.
LEMMA DispatchDoneKeepsIInv ==
    ASSUME IInv, DispatchDone
    PROVE  QueueSplit' /\ Tokens' /\ NoStrandedQueue'
<1>1. TypeOK /\ QueueSplit /\ Tokens
  BY DEF IInv
<1>2. Holders' = Holders
  BY DEF DispatchDone, Holders
<1>3. Tokens'
  BY <1>1, <1>2, TokensKept DEF DispatchDone
<1>4. QueueSplit'
  BY <1>1 DEF DispatchDone, QueueSplit
<1>5. ASSUME queue # {} PROVE Holders # {}
  <2>1. PICK q \in queue : ~CanAcquire(entry[q].workflow)
    BY <1>5 DEF DispatchDone, Admissible
  <2>2. q \in Requests
    BY <1>1, <2>1 DEF TypeOK
  <2>3. QED
    BY <1>1, <2>1, <2>2, EntryWorkflow, BlockedByHolders DEF Tokens
<1>6. QED
  BY <1>2, <1>3, <1>4, <1>5 DEF NoStrandedQueue, DispatchDone

\* A change of the limits.
LEMMA UpdateConfigKeepsIInv ==
    ASSUME IInv, NEW c \in Configs, UpdateConfig(c)
    PROVE  QueueSplit' /\ Tokens' /\ NoStrandedQueue'
<1>1. TypeOK /\ QueueSplit /\ Tokens
  BY DEF IInv
<1>2. Tokens'
  BY <1>1, TokensUpdate
<1>3. QueueSplit'
  BY <1>1 DEF UpdateConfig, QueueSplit
<1>4. NoStrandedQueue'
  BY DEF NoStrandedQueue, UpdateConfig
<1>5. QED
  BY <1>2, <1>3, <1>4

-----------------------------------------------------------------------------
\* IInv holds throughout: it holds at the start and every step keeps it.
THEOREM Inductive == Spec => []IInv
<1>1. Init => QueueSplit /\ Tokens /\ NoStrandedQueue
  <2> SUFFICES ASSUME Init PROVE QueueSplit /\ Tokens /\ NoStrandedQueue
    OBVIOUS
  <2>1. Holders = {} /\ \A w : HoldersOf(w) = {}
    BY DEF Init, Holders, HoldersOf
  <2>2. Cardinality(Holders) = 0 /\ \A w : Cardinality(HoldersOf(w)) = 0
    BY <2>1, FS_EmptySet
  <2>3. globalUsed = 0 /\ (\A w \in WorkflowIds : workflowUsed[w] = 0) /\ config \in Configs
    BY DEF Init
  <2>4. \A w \in WorkflowIds : WorkflowLimit(w) \in Int /\ config.global \in Int
    BY <2>3, LimitType DEF WorkflowLimit
  <2>5. TokensBacked /\ TokensExact
    BY <2>2, <2>3 DEF TokensBacked, TokensExact
  <2>6. TokensWithin
    <3>1. config.global > 0 => globalUsed <= config.global
      BY <2>3, ConstantsAssumption DEF ConfigType
    <3>2. QED
      BY <2>3, <2>4, <3>1 DEF TokensWithin
  <2>7. QueueSplit /\ NoStrandedQueue
    BY DEF Init, QueueSplit, NoStrandedQueue
  <2>8. QED
    BY <2>5, <2>6, <2>7 DEF Tokens
<1>2. TypeOK' /\ IInv /\ [Next]_vars => IInv'
  <2> SUFFICES ASSUME TypeOK', IInv, [Next]_vars
               PROVE  QueueSplit' /\ Tokens' /\ NoStrandedQueue'
    BY DEF IInv
  <2>1. ASSUME NEW r \in Requests, WaitWithOptions(r)
        PROVE  QueueSplit' /\ Tokens' /\ NoStrandedQueue'
    BY <2>1, WaitKeepsIInv DEF WaitWithOptions
  <2>2. ASSUME NEW r \in Requests, Wake(r) \/ Expire(r) \/ Cancel(r)
        PROVE  QueueSplit' /\ Tokens' /\ NoStrandedQueue'
    BY <2>2, WakeKeepsIInv, ExpireKeepsIInv, CancelKeepsIInv
  <2>3. ASSUME NEW r \in Requests, Release(r) \/ Grant(r)
        PROVE  QueueSplit' /\ Tokens' /\ NoStrandedQueue'
    BY <2>3, ReleaseKeepsIInv, GrantKeepsIInv
  <2>4. ASSUME DispatchDone PROVE QueueSplit' /\ Tokens' /\ NoStrandedQueue'
    BY <2>4, DispatchDoneKeepsIInv
  <2>5. ASSUME Reconfigure PROVE QueueSplit' /\ Tokens' /\ NoStrandedQueue'
    BY <2>5, UpdateConfigKeepsIInv DEF Reconfigure
  <2>6. CASE UNCHANGED vars
    <3>1. Holders' = Holders /\ (\A w : HoldersOf(w)' = HoldersOf(w))
      BY <2>6 DEF vars, Holders, HoldersOf
    <3>2. Tokens'
      BY <2>6, <3>1, TokensKept DEF vars, IInv
    <3>3. QED
      BY <2>6, <3>1, <3>2 DEF vars, IInv, QueueSplit, NoStrandedQueue
  <2>7. QED
    BY <2>1, <2>2, <2>3, <2>4, <2>5, <2>6 DEF Next
<1>3. QED
  BY <1>1, <1>2, TypeCorrect, PTL DEF Spec, IInv

\* Nobody is lost between the queue and the permits.
THEOREM QueueSplitHolds == Spec => []QueueSplit
  BY Inductive, PTL DEF IInv

\* No semaphore stays short for ever.
THEOREM TokensBackedHolds == Spec => []TokensBacked
  BY Inductive, PTL DEF IInv, Tokens

\* The semaphores count the holders.
THEOREM TokensExactHolds == Spec => []TokensExact
  BY Inductive, PTL DEF IInv, Tokens

\* Whenever somebody queues, somebody holds a permit, whose release dispatches
\* the queue; free permits are not what it is about.
THEOREM NoStrandedQueueHolds == Spec => []NoStrandedQueue
  BY Inductive, PTL DEF IInv

\* The limits hold: a semaphore that counts the holders and is not beyond its
\* size bounds their number.
THEOREM LimitsRespectedHolds == Spec => []LimitsRespected
<1>1. IInv => LimitsRespected
  BY DEF IInv, Tokens, TokensExact, TokensWithin, LimitsRespected
<1>2. QED
  BY <1>1, Inductive, PTL

\* A permit granted while its waiter's context ends is kept by that waiter,
\* which must not report a cancelled wait (select with both branches ready).
GrantKept == [][\A r \in granted : pc'[r] # "timedOut"]_vars

\* A permit granted to a waiter whose context ends is kept: such a waiter is
\* not in the queue, so Cancel finds it granted.
THEOREM GrantKeptHolds == Spec => GrantKept
<1>1. IInv /\ [Next]_vars => [\A r \in granted : pc'[r] # "timedOut"]_vars
  <2> SUFFICES ASSUME IInv, Next, NEW q \in granted PROVE pc'[q] # "timedOut"
    OBVIOUS
  <2>1. q \in Requests /\ q \notin queue /\ pc[q] \in {"waiting", "cancelling"}
    BY DEF IInv, QueueSplit, TypeOK
  <2>2. pc \in [Requests -> PcStates]
    BY DEF IInv, TypeOK
  <2>3. ASSUME NEW r \in Requests, WaitWithOptions(r) PROVE pc'[q] # "timedOut"
    BY <2>1, <2>2, <2>3 DEF WaitWithOptions, WaitAs, Admit, Refuse, Enqueue
  <2>4. ASSUME NEW r \in Requests, Cancel(r) PROVE pc'[q] # "timedOut"
    BY <2>1, <2>2, <2>4 DEF Cancel
  <2>5. ASSUME NEW r \in Requests, Wake(r) \/ Expire(r) \/ Release(r) \/ Grant(r)
        PROVE  pc'[q] # "timedOut"
    BY <2>1, <2>2, <2>5 DEF Wake, Expire, Release, Grant
  <2>6. ASSUME DispatchDone \/ Reconfigure PROVE pc'[q] # "timedOut"
    BY <2>1, <2>6 DEF DispatchDone, Reconfigure, UpdateConfig
  <2>7. QED
    BY <2>3, <2>4, <2>5, <2>6 DEF Next
<1>2. QED
  BY <1>1, Inductive, PTL DEF Spec, GrantKept

\* An item is passed over only when its own workflow is full: dispatchLocked
\* takes the first admissible item, and two items are never before each other.
THEOREM NoOvertakingHolds == Spec => NoOvertaking
<1>1. TypeOK /\ [Next]_vars =>
        [\A r \in granted' \ granted : \A q \in queue' :
            Before(q, r) => entry[q].workflow # entry[r].workflow /\ ~WorkflowFree(entry[q].workflow)]_vars
  <2> SUFFICES ASSUME TypeOK, Next, NEW r \in granted' \ granted, NEW q \in queue',
                      Before(q, r)
               PROVE  /\ entry[q].workflow # entry[r].workflow
                      /\ ~WorkflowFree(entry[q].workflow)
    OBVIOUS
  <2>1. ASSUME NEW s \in Requests, WaitWithOptions(s) PROVE FALSE
    BY <2>1 DEF WaitWithOptions, WaitAs
  <2>2. ASSUME NEW s \in Requests, Wake(s) \/ Expire(s) \/ Cancel(s) \/ Release(s)
        PROVE  FALSE
    BY <2>2 DEF Wake, Expire, Cancel, Release
  <2>3. ASSUME DispatchDone \/ Reconfigure PROVE FALSE
    BY <2>3 DEF DispatchDone, Reconfigure, UpdateConfig
  <2>4. ASSUME NEW s \in Requests, Grant(s)
        PROVE  /\ entry[q].workflow # entry[r].workflow
               /\ ~WorkflowFree(entry[q].workflow)
    <3>1. s = r /\ q \in queue \ {r} /\ IsSelected(r)
      BY <2>4 DEF Grant
    <3>2. q \in Requests /\ r \in Requests
      BY <3>1 DEF TypeOK, IsSelected, Admissible
    <3>3. ~Before(r, q)
      BY <3>2 DEF Before, TypeOK, Entries
    <3>4. q \notin Admissible
      BY <3>1, <3>3 DEF IsSelected
    <3>5. CanAcquire(entry[r].workflow) /\ ~CanAcquire(entry[q].workflow)
      BY <3>1, <3>4 DEF IsSelected, Admissible
    <3>6. QED
      BY <3>5 DEF CanAcquire
  <2>5. QED
    BY <2>1, <2>2, <2>3, <2>4 DEF Next
<1>2. QED
  BY <1>1, TypeCorrect, PTL DEF Spec, NoOvertaking
=============================================================================
