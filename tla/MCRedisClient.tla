----------------------------- MODULE MCRedisClient -----------------------------
(* Instances of RedisClient for TLC. *)
EXTENDS RedisClient, TLC

CONSTANTS t1, t2, v1, v2
================================================================================
