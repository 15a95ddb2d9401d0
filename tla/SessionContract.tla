----------------------------- MODULE SessionContract -----------------------------
(***************************************************************************)
(* What session.Store together with the authn service promises to a        *)
(* browser, whichever store is configured: the life of one session id and  *)
(* the answers given about it.                                             *)
(*                                                                         *)
(*   unborn -> open <-> lapsed     unborn -> lapsed                        *)
(*   unborn, open, lapsed -> gone                                          *)
(*                                                                         *)
(* A session that is gone never comes back.  A lapsed one (its expiry has  *)
(* passed but the entry is still there; a slow creation can store it that  *)
(* way) comes back only at the hand of a request that had seen it open.  A query is answered "active" only if    *)
(* the session was open at some instant of that query, and a logout is     *)
(* answered "ok" only once the session is gone.                            *)
(***************************************************************************)
CONSTANTS Procs, Ids, NoId

VARIABLES
  status,     \* [Ids -> Status]
  query       \* [Procs -> Query]

Status == {"unborn", "open", "lapsed", "gone"}
Query == [phase : {"idle", "asked", "seen", "done"},
          op    : {"idle", "callback", "current", "logout"},
          sid   : Ids \cup {NoId},
          ans   : {"none", "active", "ok", "full", "err"}]

Quiet == [phase |-> "idle", op |-> "idle", sid |-> NoId, ans |-> "none"]

Init ==
  /\ status = [id \in Ids |-> "unborn"]
  /\ query = [p \in Procs |-> Quiet]

(* Somebody saw id open and has not answered yet.                          *)
Witnessed(id) == \E p \in Procs : query[p].phase = "seen" /\ query[p].sid = id

Lifecycle(id) ==
  \/ status'[id] = status[id]
  \/ status[id] = "unborn"
  \/ status[id] = "open" /\ status'[id] \in {"lapsed", "gone"}
  \/ status[id] = "lapsed" /\ status'[id] = "gone"
  \/ status[id] = "lapsed" /\ status'[id] = "open" /\ Witnessed(id)

Ask(p) ==
  /\ query[p] = Quiet
  /\ \E op \in {"callback", "current", "logout"}, id \in Ids :
       query'[p] = [phase |-> "asked", op |-> op, sid |-> id, ans |-> "none"]

See(p) ==
  /\ query[p].phase = "asked"
  /\ query[p].op = "current"
  /\ status[query[p].sid] = "open"
  /\ query'[p] = [query[p] EXCEPT !.phase = "seen"]

Reply(p) ==
  /\ query[p].phase \in {"asked", "seen"}
  /\ \E a \in {"none", "active", "ok", "full", "err"} :
       /\ a = "active" => query[p].phase = "seen"
       /\ query[p].op = "current" => a \in {"active", "none"}
       /\ query[p].op = "logout" /\ a = "ok" => status'[query[p].sid] = "gone"
       /\ query'[p] = [query[p] EXCEPT !.phase = "done", !.ans = a]

Clear(p) == query[p].phase = "done" /\ query'[p] = Quiet

Protocol(p) == query'[p] = query[p] \/ Ask(p) \/ See(p) \/ Reply(p) \/ Clear(p)

Next ==
  /\ status' \in [Ids -> Status]
  /\ query' \in [Procs -> Query]
  /\ \A id \in Ids : Lifecycle(id)
  /\ \A p \in Procs : Protocol(p)

Spec == Init /\ [][Next]_<<status, query>>
================================================================================
