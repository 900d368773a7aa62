-------------------------- MODULE MCLocalDispatch --------------------------
(***************************************************************************)
(* Instances of LocalDispatch for TLC: two calls, which may be for one     *)
(* execution (started and resumed, or resumed twice) or for two.           *)
(***************************************************************************)
EXTENDS LocalDispatch, TLC

CONSTANTS c1, c2, kA, kB, w1, w2

OneOrTwoKeys == {c1 :> kA @@ c2 :> kA, c1 :> kA @@ c2 :> kB}
=============================================================================
