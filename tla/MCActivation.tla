----------------------------- MODULE MCActivation -----------------------------
(***************************************************************************)
(* Instances of Activation for TLC: two workflows, which either may both   *)
(* offer one path, or be scheduled by one of two nodes.  The first scene   *)
(* is about schedules, the second about calls while the loop reconciles,   *)
(* the others about a pull that does so at the same time.                  *)
(***************************************************************************)
EXTENDS Activation, TLC

CONSTANTS a, b, hooked, plain, timedA, timedB, path, nodeA, nodeB, r1, r2

PathOfContents ==
    hooked :> path @@ plain :> None @@ timedA :> None @@ timedB :> None
NodeOfContents ==
    hooked :> None @@ plain :> None @@ timedA :> nodeA @@ timedB :> nodeB
Timers == {timedA, timedB}
Hooks == {hooked, plain}
FourScenes == {
    [contents |-> Timers, requests |-> {r1, r2}, changes |-> 3, pulls |-> 0, calls |-> FALSE],
    [contents |-> Timers, requests |-> {r1}, changes |-> 2, pulls |-> 1, calls |-> FALSE],
    [contents |-> Hooks, requests |-> {r1}, changes |-> 3, pulls |-> 0, calls |-> TRUE],
    [contents |-> Hooks, requests |-> {r1}, changes |-> 2, pulls |-> 1, calls |-> FALSE]}
=============================================================================
