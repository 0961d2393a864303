---------------------------- MODULE MCUserAccounts -----------------------------
(* Instances of UserAccounts for TLC. *)
EXTENDS UserAccounts, TLC

CONSTANTS r1, r2, p1, p2, k1, k2, i1, i2

Symmetry == Permutations({r1, r2}) \cup Permutations({i1, i2})
            \cup Permutations({p1, p2}) \cup Permutations({k1, k2})
================================================================================
