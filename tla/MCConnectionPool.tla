--------------------------- MODULE MCConnectionPool ----------------------------
(* Instances of ConnectionPool for TLC. *)
EXTENDS ConnectionPool, TLC

CONSTANTS t1, t2, t3, t4
================================================================================
