--------------------------- MODULE MCRedisDispatch ---------------------------
(***************************************************************************)
(* Instances of RedisDispatch for TLC: an instance with two workers, one   *)
(* with a single worker, and an execution whose job both may be given.     *)
(***************************************************************************)
EXTENDS RedisDispatch, TLC

CONSTANTS i1, i2, w1, w2, w3, j1

TwoAndOne == w1 :> i1 @@ w2 :> i1 @@ w3 :> i2
=============================================================================
