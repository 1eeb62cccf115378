----------------------------- MODULE MCRedisPool -----------------------------
(* Instances of RedisPool for TLC.                                         *)
EXTENDS RedisPool

CONSTANTS f1, f2, f3, f4, f5, w1, w2, none
=============================================================================
