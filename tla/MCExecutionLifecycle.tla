------------------------- MODULE MCExecutionLifecycle -------------------------
(* Two executions: e1 is created by a handler and may have two jobs at a     *)
(* time, e2 is a sub-workflow or error workflow of e1 and has one.           *)
EXTENDS ExecutionLifecycle

CONSTANTS e1, e2

TwoAndOne == [e \in {e1, e2} |-> IF e = e1 THEN 2 ELSE 1]
=============================================================================
