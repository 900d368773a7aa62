----------------------------- MODULE MCLeadership -----------------------------
(***************************************************************************)
(* Instances of Leadership for TLC: two instances with identities of their *)
(* own, or with the one that config.go gives every instance by default.    *)
(***************************************************************************)
EXTENDS Leadership, TLC

CONSTANTS i1, i2, idA, idB

OwnIdentities == i1 :> idA @@ i2 :> idB
DefaultIdentity == i1 :> idA @@ i2 :> idA
=============================================================================
