------------------------------ MODULE MCUserReads ------------------------------
(* Instances of UserReads for TLC. *)
EXTENDS UserReads, TLC

CONSTANTS r1, r2, i1, i2, x1, x2

Symmetry == Permutations({r1, r2}) \cup Permutations({i1, i2})
            \cup Permutations({x1, x2})
================================================================================
