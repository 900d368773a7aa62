----------------------------- MODULE MCEvaluator -----------------------------
(***************************************************************************)
(* Instances of Evaluator for TLC: workflows of four nodes in which        *)
(* branches part, join (in one input or two), feed a node of their own     *)
(* batch, or go round in a loop, one of whose nodes may be disabled or     *)
(* suspend the execution.                                                  *)
(***************************************************************************)
EXTENDS Evaluator, TLC

CONSTANTS s, a, b, j

E(m, n) == <<m, 0, n, 0>>

Shapes == {
    {E(s, a), E(a, b), E(b, j)},                               \* a chain
    {E(s, a), E(s, b), <<a, 0, j, 0>>, <<b, 0, j, 1>>},        \* a join
    {E(s, a), <<s, 1, b, 0>>, <<a, 0, j, 0>>, <<b, 0, j, 1>>}, \* of a choice
    {E(s, a), E(s, b), E(a, j), E(b, j)},                      \* in one input
    {E(s, a), E(s, b), E(a, b), E(b, j)},                      \* in a batch
    {E(s, a), <<s, 0, j, 0>>, E(a, b), <<b, 0, j, 1>>},        \* uneven
    {E(s, a), <<a, 0, b, 0>>, E(b, a), <<a, 1, j, 0>>},        \* a loop
    {E(s, a), E(s, b), E(a, b), E(b, a), <<b, 1, j, 1>>}}      \* a shared one

FewWorkflows ==
    [edges : Shapes, disabled : {{}, {a}, {j}}, triggers : {{}}, waits : {{}, {a}}]
    \cup [edges : Shapes, disabled : {{}}, triggers : {{b}}, waits : {{b}}]

Plain == [trigger |-> None, starts |-> {}, given |-> {}, destination |-> None,
          exclusive |-> FALSE]

FewRequests ==
    {Plain, [Plain EXCEPT !.trigger = s], [Plain EXCEPT !.starts = {a, b}],
     [Plain EXCEPT !.given = {<<b, 0>>}]}
    \cup {[Plain EXCEPT !.destination = n, !.exclusive = e] : n \in {a, b}, e \in BOOLEAN}
    \cup {[Plain EXCEPT !.trigger = b, !.destination = j]}
=============================================================================
