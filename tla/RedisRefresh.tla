------------------------------- MODULE RedisRefresh -------------------------------
(***************************************************************************)
(* RedisSessions with a history variable: when Redis last had a refresh of *)
(* each session.  No action reads it.                                      *)
(***************************************************************************)
EXTENDS RedisSessions

VARIABLE used       \* [Ids -> {Never} \cup Nat]

Never == -1

(* A Touch that finds its key; one that does not is no refresh.            *)
Refreshed(id) == id \in DOMAIN kv /\ \E p \in Procs : call[p].sid = id /\ Touch(p)

RefreshInit == Init /\ used = [id \in Ids |-> Never]

RefreshNext ==
  /\ Next
  /\ used' = [id \in Ids |-> IF Refreshed(id) THEN now ELSE used[id]]

RefreshSpec == RefreshInit /\ [][RefreshNext]_<<vars, used>>

(* Sliding expiration: Get turns a session away as expired only if nobody  *)
(* refreshed it for a whole TTL (configs/config.yaml.example:148-149).     *)
RefreshExtends ==
  [][\A p \in Procs : At(p, "decode") /\ (call'[p].pc = "getdel") =>
        LET id == call[p].sid IN
          \/ id \notin DOMAIN kv
          \/ used[id] = Never
          \/ now > used[id] + TTL]_vars
================================================================================
