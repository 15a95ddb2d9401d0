------------------------------ MODULE RedisSessions ------------------------------
(***************************************************************************)
(* session.RedisStore behind the authn service.  A session is a key whose  *)
(* JSON payload carries ExpiresAt and whose time to live Redis counts on   *)
(* its own; a second key per subject indexes the ids of its sessions.  An  *)
(* action is one command, transaction or script, atomic at the server; its *)
(* reply may be lost.  The clocks of server and Redis are taken as one.    *)
(***************************************************************************)
EXTENDS SessionCalls

CONSTANTS
  Subjects,       \* principals' subject ids
  SubjectOf,      \* who each session id was minted for
  Revokers,       \* goroutines that call DeleteBySubject
  NoSubject       \* the subject of a revoker that is not doing so

ASSUME SubjectAssumption == SubjectOf \in [Ids -> Subjects]
ASSUME WholeSecondsAssumption == TTL > 1    \* a tick is a second; EXPIRE 0 would delete
ASSUME NoSubjectAssumption == NoSubject \notin Subjects

VARIABLES
  kv,             \* <prefix>:session:<id>: [exp |-> payload, ttlEnd]
  index,          \* <prefix>:session_subject:<s>: [ids, ttlEnd]
  revoke,         \* each revoker's call: [subject, ids], and [due, ok] as history
  orphans         \* history: ids that a revocation took off the index but not away

redisVars == <<kv, index, revoke, orphans>>
vars == <<callVars, redisVars>>

(* No call is being made; ok says that the last one returned nil.          *)
Returned(ok) == [subject |-> NoSubject, ids |-> {}, due |-> {}, ok |-> ok]

Revoking(r) == revoke[r].subject # NoSubject

Keep(f, S) == [x \in DOMAIN f \cap S |-> f[x]]
Put(f, k, v) == [x \in DOMAIN f \cup {k} |-> IF x = k THEN v ELSE f[x]]

Members(s) == IF s \in DOMAIN index THEN index[s].ids ELSE {}

(* SREM: Redis drops a set that has become empty.                          *)
Unindex(s, id) ==
  LET left == Members(s) \ {id}
  IN IF left = {} THEN Keep(index, Subjects \ {s})
     ELSE [index EXCEPT ![s].ids = left]

--------------------------------------------------------------------------------
(* Definitions named Bad_ are slips of the code that the runs must notice; *)
(* each stands before what it would replace, and nothing uses it.          *)

(* A command of goroutine p whose reply is read, or lost.                  *)
Replied(p, pc, a) == Answer(p, a) \/ Answer(p, OnError(pc))

(* MULTI SET key payload PX ttl, SADD, EXPIRE subject: the payload's       *)
(* ExpiresAt was computed before the commands were sent, and EXPIRE is     *)
(* given the whole seconds of a ttl that is just below one.                *)
Bad_Create(p) ==
  LET id == call[p].sid
      s == SubjectOf[id]
  IN /\ At(p, "create")
     /\ kv' = Put(kv, id, [exp |-> call[p].exp, ttlEnd |-> now + TTL])
     /\ index' = IF s \in DOMAIN index
                 THEN [index EXCEPT ![s].ids = @ \cup {id}]
                 ELSE Put(index, s, [ids |-> {id}, ttlEnd |-> now + TTL - 1])
     /\ Replied(p, "create", "ok")
     /\ UNCHANGED <<sliding, now, minted, issued, ended, revoke, orphans>>

Create(p) ==
  LET id == call[p].sid
      s == SubjectOf[id]
  IN /\ At(p, "create")
     /\ kv' = Put(kv, id, [exp |-> call[p].exp, ttlEnd |-> now + TTL])
     /\ index' = Put(index, s, [ids |-> Members(s) \cup {id}, ttlEnd |-> now + TTL - 1])
     /\ Replied(p, "create", "ok")
     /\ UNCHANGED <<sliding, now, minted, issued, ended, revoke, orphans>>

Get(p) ==
  LET id == call[p].sid IN
  /\ At(p, "get")
  /\ \/ id \notin DOMAIN kv /\ Answer(p, "none")
     \/ id \in DOMAIN kv /\ GotRead(p, "decode", kv[id].exp)
  /\ UNCHANGED <<sliding, now, minted, issued, ended>>
  /\ UNCHANGED redisVars

Decode(p) ==
  /\ At(p, "decode")
  /\ Goto(p, IF now > call[p].exp THEN "getdel" ELSE "check")
  /\ UNCHANGED <<sliding, now, minted, issued, ended>>
  /\ UNCHANGED redisVars

(* The delete script: out of the index of the payload's subject, then gone.*)
Delete(p) ==
  LET id == call[p].sid IN
  /\ call[p].pc \in {"delete", "getdel", "svcdel"}
  /\ index' = IF id \in DOMAIN kv /\ id \in Members(SubjectOf[id])
              THEN Unindex(SubjectOf[id], id) ELSE index
  /\ kv' = Keep(kv, Ids \ {id})
  /\ Replied(p, call[p].pc, IF At(p, "delete") THEN "ok" ELSE "none")
  /\ UNCHANGED <<sliding, now, minted, issued, ended, revoke, orphans>>

(* EXPIRE on the key alone: neither the payload nor the index follows.     *)
Bad_TouchRestores(p) ==
  /\ At(p, "touch")
  /\ kv' = Put(kv, call[p].sid, [exp |-> now + TTL, ttlEnd |-> now + TTL])
  /\ Answer(p, "active")
  /\ UNCHANGED <<sliding, now, minted, issued, ended, index, revoke, orphans>>

Bad_TouchRewrites(p) ==
  LET id == call[p].sid IN
  /\ At(p, "touch")
  /\ kv' = IF id \in DOMAIN kv
           THEN Put(kv, id, [exp |-> now + TTL, ttlEnd |-> now + TTL]) ELSE kv
  /\ Answer(p, "active")
  /\ UNCHANGED <<sliding, now, minted, issued, ended, index, revoke, orphans>>

Touch(p) ==
  LET id == call[p].sid IN
  /\ At(p, "touch")
  /\ kv' = IF id \in DOMAIN kv
           THEN [kv EXCEPT ![id].ttlEnd = now + TTL] ELSE kv
  /\ Answer(p, "active")
  /\ UNCHANGED <<sliding, now, minted, issued, ended, index, revoke, orphans>>

(* The command never reaches Redis, or the request's context was cancelled *)
(* before it was sent: Disconnect needs no step of its own here.           *)
Fail(p) ==
  /\ call[p].pc \in StorePC
  /\ Answer(p, OnError(call[p].pc))
  /\ UNCHANGED <<sliding, now, minted, issued, ended>>
  /\ UNCHANGED redisVars

--------------------------------------------------------------------------------
(* DeleteBySubject, an operation of the store that no route of the service *)
(* calls yet: SMEMBERS, and then a transaction of DELs.  `due` is history: *)
(* what was stored for the subject when the call began, save what an       *)
(* earlier revocation had already taken off the index.                     *)
RevokeRead(r, s) ==
  /\ ~Revoking(r)
  /\ revoke' = [revoke EXCEPT ![r] =
       [subject |-> s, ids |-> Members(s), ok |-> FALSE,
        due |-> {id \in DOMAIN kv \ orphans : SubjectOf[id] = s}]]
  /\ UNCHANGED callVars
  /\ UNCHANGED <<kv, index, orphans>>

(* SMEMBERS fails, or the transaction never reaches Redis: an error.       *)
Bad_RevokeFail(r) ==
  /\ revoke' = [revoke EXCEPT ![r] = Returned(Revoking(r))]
  /\ UNCHANGED callVars
  /\ UNCHANGED <<kv, index, orphans>>

RevokeFail(r) ==
  /\ revoke' = [revoke EXCEPT ![r] = Returned(FALSE)]
  /\ UNCHANGED callVars
  /\ UNCHANGED <<kv, index, orphans>>

(* The transaction; its reply is read, or lost and an error is returned.   *)
RevokeDelete(r) ==
  LET s == revoke[r].subject IN
  /\ Revoking(r)
  /\ kv' = Keep(kv, Ids \ revoke[r].ids)
  /\ index' = Keep(index, Subjects \ {s})
  /\ orphans' = orphans \cup ((Members(s) \ revoke[r].ids) \cap DOMAIN kv)
  /\ \E ok \in BOOLEAN : revoke' = [revoke EXCEPT ![r] = Returned(ok)]
  /\ UNCHANGED callVars

(* Time passes, and Redis drops the keys whose time to live is over.       *)
RedisTick ==
  /\ Tick
  /\ kv' = Keep(kv, {id \in DOMAIN kv : now' <= kv[id].ttlEnd})
  /\ index' = Keep(index, {s \in DOMAIN index : now' <= index[s].ttlEnd})
  /\ UNCHANGED <<revoke, orphans>>

--------------------------------------------------------------------------------
Init ==
  /\ CallInit
  /\ kv = << >>
  /\ index = << >>
  /\ revoke = [r \in Revokers |-> Returned(FALSE)]
  /\ orphans = {}

StoreStep(p) ==
  \/ Create(p)
  \/ Get(p)
  \/ Decode(p)
  \/ Delete(p)
  \/ Touch(p)
  \/ Fail(p)

Next ==
  \/ \E p \in Procs : StoreStep(p)
  \/ \E p \in Procs : ServiceStep(p) /\ UNCHANGED redisVars
  \/ \E r \in Revokers, s \in Subjects : RevokeRead(r, s)
  \/ \E r \in Revokers : RevokeFail(r) \/ RevokeDelete(r)
  \/ RedisTick

Spec == Init /\ [][Next]_vars

--------------------------------------------------------------------------------
TypeOK ==
  /\ CallTypeOK
  /\ DOMAIN kv \subseteq minted
  /\ \A id \in DOMAIN kv : kv[id] \in [exp : Nat, ttlEnd : Nat]
  /\ DOMAIN index \subseteq Subjects
  /\ \A s \in DOMAIN index : index[s] \in [ids : (SUBSET minted) \ {{}}, ttlEnd : Nat]
  /\ revoke \in [Revokers -> [subject : Subjects \cup {NoSubject}, ids : SUBSET Ids,
                               due : SUBSET minted, ok : BOOLEAN]]
  /\ orphans \subseteq Ids

Open(id) == id \in DOMAIN kv /\ now <= kv[id].exp

(* No request that began after an acknowledged logout is told the session  *)
(* is active, whatever replies were lost (redis_store.go:86-133).          *)
LogoutIsFinal ==
  \A p \in Procs : call[p].late => call[p].ans # "active"

(* Get's expiry delete never takes a session that Current would still      *)
(* accept: the payload it judged is the one stored, because nothing        *)
(* rewrites a payload (redis_store.go:101-104).                            *)
UnexpiredSurvives ==
  [][\A id \in Ids : Open(id) /\ id \notin DOMAIN kv' =>
        \/ now' > kv[id].exp
        \/ \E r \in Revokers : id \in revoke[r].ids
        \/ \E p \in Procs : At(p, "delete") /\ call[p].sid = id]_vars

(* Every session a request can still use is listed under its subject, so   *)
(* that DeleteBySubject finds it, save in its last second and save those   *)
(* stored between the two commands of an earlier DeleteBySubject, whose    *)
(* DEL of the index has lost them (redis_store.go:76-80, 140-152).  The    *)
(* index outlives them by no less than that second.                        *)
Listed(id) ==
  LET s == SubjectOf[id] IN
  s \in DOMAIN index /\ id \in index[s].ids /\ kv[id].exp <= index[s].ttlEnd + 1

IndexCovers == \A id \in DOMAIN kv \ orphans : now < kv[id].exp => Listed(id)

(* What a revocation under way has read covers the same sessions, and      *)
(* nothing that a callback is about to store.                              *)
RevokeCovers ==
  \A r \in Revokers :
    /\ \A id \in revoke[r].due \cap DOMAIN kv : now < kv[id].exp => id \in revoke[r].ids
    /\ \A p \in Procs : At(p, "create") => call[p].sid \notin revoke[r].due

(* A key lives as long as its payload says, at least.                      *)
KeysOutlivePayloads ==
  \A id \in DOMAIN kv : kv[id].exp <= kv[id].ttlEnd /\ kv[id].exp <= now + TTL

(* The copy of the session that a request works with is what is stored,    *)
(* if anything is; it was unexpired when read or is expired, and only      *)
(* expired sessions are on their way to Delete.                            *)
CopyIsPayload ==
  \A p \in Procs :
    /\ At(p, "create") => call[p].exp <= now + TTL
    /\ call[p].pc \in {"decode", "check", "getdel", "svcdel"} /\ call[p].sid \in DOMAIN kv
         => kv[call[p].sid].exp = call[p].exp
    /\ At(p, "decode") /\ ~call[p].saw => now > call[p].exp
    /\ call[p].pc \in {"getdel", "svcdel"} => now > call[p].exp

(* The id that a callback is about to store is not stored.                 *)
UnbornIsOut == \A p \in Procs : At(p, "create") => call[p].sid \notin DOMAIN kv

(* A logout that Redis has confirmed, answered or not, took its session.   *)
LogoutTookIt ==
  \A p \in Procs :
    call[p].op = "logout" /\ call[p].ans = "ok" => call[p].sid \notin DOMAIN kv

EndedStaysOut == ended \cap DOMAIN kv = {}

(* The inductive invariant.                                                *)
IInv ==
  /\ TypeOK /\ StepsOfOps /\ MintedOnce /\ LateIsBlind
  /\ LogoutTookIt /\ EndedStaysOut /\ UnbornIsOut
  /\ IndexCovers /\ RevokeCovers
  /\ KeysOutlivePayloads /\ CopyIsPayload

(* When DeleteBySubject returns nil, no session that its subject had when  *)
(* the call began can be used for more than the rest of its last second,   *)
(* again save the orphans of earlier calls (redis_store.go:135-154).  An   *)
(* error promises nothing: the transaction may have run or not.            *)
RevocationComplete ==
  [][\A r \in Revokers : Revoking(r) /\ revoke'[r] = Returned(TRUE) =>
        \A id \in revoke[r].due \cap DOMAIN kv' : now >= kv'[id].exp]_vars

--------------------------------------------------------------------------------
(* The refinement of SessionContract.                                      *)
StatusOf(id) ==
  CASE id \in DOMAIN kv /\ now <= kv[id].exp -> "open"
    [] id \in DOMAIN kv /\ now > kv[id].exp -> "lapsed"
    [] id \notin DOMAIN kv /\ Unborn(id) -> "unborn"
    [] id \notin DOMAIN kv /\ ~Unborn(id) -> "gone"

Contract == INSTANCE SessionContract WITH
  status <- [id \in Ids |-> StatusOf(id)],
  query <- [p \in Procs |-> QueryOf(p)]

(* The Redis store keeps the contract between the service and browsers.    *)
ImplementsContract == Contract!Spec
================================================================================
