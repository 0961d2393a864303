--------------------------- MODULE MCCallDataAdapter ---------------------------
(* Instances of CallDataAdapter for TLC. *)
EXTENDS CallDataAdapter, TLC

CONSTANTS d1, d2, c1, c2, c3, w1, w2

MCMethods     == {"LoginByCode", "GetUserInfo"}
MCAuthMethods == {"GetUserInfo"}
MCMethodOf    == (d1 :> "LoginByCode") @@ (d2 :> "GetUserInfo")

(* A pool of one CallData that three callers compete for. *)
MCOneMethod   == {"GetUserInfo"}
MCSingle      == d1 :> "GetUserInfo"

Symmetry == Permutations({c1, c2, c3}) \cup Permutations({w1, w2})
================================================================================
