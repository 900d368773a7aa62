------------------------- MODULE MCActiveExecutions -------------------------
(***************************************************************************)
(* Instances of ActiveExecutions for TLC.                                  *)
(***************************************************************************)
EXTENDS ActiveExecutions, TLC

CONSTANTS r1, r2, r3, wA

MCRequests == {r1, r2, r3}
\* r1 and r2 are for one execution, a duplicate or a resumption, r3 is for another.
MCExecutionOf == r1 :> 1 @@ r2 :> 1 @@ r3 :> 2

NoOverrides == [w \in {} |-> 0]

\* Two executions at once but only one of workflow wA (the empty workflow has
\* no limit), room for one to wait; and one at once, room for two to wait.
MCConfigs ==
    {[global |-> 2, perWorkflow |-> 1, overrides |-> NoOverrides, queueSize |-> 1],
     [global |-> 1, perWorkflow |-> 0, overrides |-> NoOverrides, queueSize |-> 2]}
=============================================================================
