------------------------ MODULE MCConcurrencyControl ------------------------
(***************************************************************************)
(* Instances of ConcurrencyControl for TLC.                                *)
(***************************************************************************)
EXTENDS ConcurrencyControl, TLC

CONSTANTS r1, r2, r3, wA, wB

MCRequests == {r1, r2, r3}
MCWorkflows == {wA, wB}
NoOverrides == [w \in {} |-> 0]

\* Two executions at once, one per workflow, room for two to wait; a single
\* slot with workflow wA exempt from a limit of its own, room for one; no
\* global limit, one execution per workflow and no queue.
MCConfigs ==
    {[global |-> 2, perWorkflow |-> 1, overrides |-> NoOverrides, queueSize |-> 2],
     [global |-> 1, perWorkflow |-> 1, overrides |-> wA :> 0, queueSize |-> 1],
     [global |-> 0, perWorkflow |-> 1, overrides |-> NoOverrides, queueSize |-> 0]}
=============================================================================
