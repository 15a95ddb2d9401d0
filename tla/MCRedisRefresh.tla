------------------------------ MODULE MCRedisRefresh ------------------------------
(***************************************************************************)
(* Model-checking values for RedisRefresh: those of RedisSessions.         *)
(***************************************************************************)
EXTENDS RedisRefresh, MCRedisSessions
================================================================================
