---------------------------- MODULE MCRedisLock ----------------------------
(* Instance of RedisLock for TLC: everything but time is a model value.      *)
EXTENDS RedisLock

CONSTANTS p1, u1, u2, v1, v2
=============================================================================
