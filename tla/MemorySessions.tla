----------------------------- MODULE MemorySessions -----------------------------
(***************************************************************************)
(* session.MemoryStore behind the authn service.  The store is a map under *)
(* one RWMutex; an action below is one critical section of it, so other    *)
(* goroutines run between the sections of a call: between Get's read and   *)
(* the Delete it makes after releasing the lock, between Get and Touch,    *)
(* and between the janitor's reading of the clock and its sweep.           *)
(***************************************************************************)
EXTENDS SessionCalls

CONSTANTS
  Subjects,       \* principals' subject ids
  SubjectOf,      \* who each session id was minted for
  MaxSessions     \* maxMemorySessions

ASSUME SubjectAssumption == SubjectOf \in [Ids -> Subjects]
ASSUME MaxSessionsAssumption == MaxSessions \in Nat \ {0}

VARIABLES
  sessions,       \* MemoryStore.sessions: stored id -> its ExpiresAt
  sweepAt         \* the time the cleanup goroutine has read, or NoTime

vars == <<callVars, sessions, sweepAt>>
storeUnchanged == UNCHANGED <<sessions, sweepAt>>

NoTime == -1

Stored == DOMAIN sessions
Expired(at) == {id \in Stored : at > sessions[id]}          \* at.After(ExpiresAt)
Live == Stored \ Expired(now)

Without(S) == [id \in Stored \ S |-> sessions[id]]
With(s, id, e) == [x \in DOMAIN s \cup {id} |-> IF x = id THEN e ELSE s[x]]

--------------------------------------------------------------------------------
(* The store's operations, called by goroutine p on its session.           *)

(* Definitions named Bad_ are slips of the code that the runs must notice; *)
(* each stands before what it would replace, and nothing uses it.          *)
Bad_Full(s) == Cardinality(DOMAIN s) > MaxSessions
Full(s) == Cardinality(DOMAIN s) >= MaxSessions

(* A full store first drops what has expired.                              *)
Bad_Purged == sessions
Purged == IF Full(sessions) THEN Without(Expired(now)) ELSE sessions

(* The callback passes on what is left until the expiry it told its user,  *)
(* and the store adds that to the time at which it holds the lock: the     *)
(* entry ends then, or as much later as the call came after that sum.      *)
Create(p) ==
  /\ At(p, "create")
  /\ ~call[p].dead
  /\ IF Full(Purged)
     THEN sessions' = Purged /\ Answer(p, "full")
     ELSE /\ \E end \in call[p].exp .. now + TTL :
               sessions' = With(Purged, call[p].sid, end)
          /\ Answer(p, "ok")
  /\ UNCHANGED <<sliding, now, minted, issued, ended, sweepAt>>

(* The read-locked half of Get.  An expired entry is only noted: it is     *)
(* deleted after the lock has been released.                               *)
Get(p) ==
  LET id == call[p].sid IN
  /\ At(p, "get")
  /\ ~call[p].dead
  /\ \/ id \notin Stored /\ Answer(p, "none")
     \/ id \in Expired(now) /\ Goto(p, "getdel")
     \/ id \in Live /\ GotRead(p, "check", sessions[id])
  /\ UNCHANGED <<sliding, now, minted, issued, ended>>
  /\ storeUnchanged

(* Delete, for Logout ("delete"), for Get's expired entry ("getdel") and   *)
(* for Current's expired copy ("svcdel"): whatever the entry is by now.    *)
Bad_Delete(p) ==
  /\ call[p].pc \in {"delete", "getdel", "svcdel"} /\ ~call[p].dead
  /\ sessions' = Without({call[p].sid} \cap Expired(now))
  /\ Answer(p, IF At(p, "delete") THEN "ok" ELSE "none")
  /\ UNCHANGED <<sliding, now, minted, issued, ended, sweepAt>>

Delete(p) ==
  /\ call[p].pc \in {"delete", "getdel", "svcdel"}
  /\ ~call[p].dead
  /\ sessions' = Without({call[p].sid})
  /\ Answer(p, IF At(p, "delete") THEN "ok" ELSE "none")
  /\ UNCHANGED <<sliding, now, minted, issued, ended, sweepAt>>

(* Touch refreshes an entry that is there, expired or not, and never       *)
(* creates one.                                                            *)
Bad_Touch(p) ==
  /\ At(p, "touch") /\ ~call[p].dead
  /\ sessions' = With(sessions, call[p].sid, now + TTL)
  /\ Answer(p, "active")
  /\ UNCHANGED <<sliding, now, minted, issued, ended, sweepAt>>

Touch(p) ==
  LET id == call[p].sid IN
  /\ At(p, "touch")
  /\ ~call[p].dead
  /\ sessions' = IF id \in Stored THEN [sessions EXCEPT ![id] = now + TTL] ELSE sessions
  /\ Answer(p, "active")
  /\ UNCHANGED <<sliding, now, minted, issued, ended, sweepAt>>

(* ctx.Err() is looked at on entry to every operation.                     *)
Cancelled(p) ==
  /\ call[p].pc \in StorePC
  /\ call[p].dead
  /\ Answer(p, OnError(call[p].pc))
  /\ UNCHANGED <<sliding, now, minted, issued, ended>>
  /\ storeUnchanged

(* An operator of the service revokes every session of a subject.          *)
DeleteBySubject(s) ==
  /\ sessions' = Without({id \in Stored : SubjectOf[id] = s})
  /\ UNCHANGED <<callVars, sweepAt>>

(* cleanupLoop reads the clock, then waits for the lock.                   *)
SweepRead ==
  /\ sweepAt = NoTime
  /\ sweepAt' = now
  /\ UNCHANGED <<callVars, sessions>>

Bad_SweepEarly ==
  /\ sweepAt # NoTime
  /\ sessions' = Without({id \in Stored : sweepAt >= sessions[id]})
  /\ sweepAt' = NoTime
  /\ UNCHANGED callVars

Bad_SweepInverted ==
  /\ sweepAt # NoTime
  /\ sessions' = Without({id \in Stored : sweepAt < sessions[id]})
  /\ sweepAt' = NoTime
  /\ UNCHANGED callVars

Sweep ==
  /\ sweepAt # NoTime
  /\ sessions' = Without(Expired(sweepAt))
  /\ sweepAt' = NoTime
  /\ UNCHANGED callVars

--------------------------------------------------------------------------------
Init ==
  /\ CallInit
  /\ sessions = << >>
  /\ sweepAt = NoTime

StoreStep(p) ==
  \/ Create(p)
  \/ Get(p)
  \/ Delete(p)
  \/ Touch(p)
  \/ Cancelled(p)

Next ==
  \/ \E p \in Procs : StoreStep(p)
  \/ \E p \in Procs : (ServiceStep(p) \/ Disconnect(p)) /\ storeUnchanged
  \/ \E s \in Subjects : DeleteBySubject(s)
  \/ Tick /\ storeUnchanged
  \/ SweepRead
  \/ Sweep

(* The runtime schedules the cleanup goroutine, whose ticker never stops   *)
(* while the server is up.  Requests need no fairness for what is claimed  *)
(* here.                                                                   *)
Fairness == WF_vars(SweepRead) /\ WF_vars(Sweep)

Spec == Init /\ [][Next]_vars
FairSpec == Spec /\ Fairness

--------------------------------------------------------------------------------
TypeOK ==
  /\ CallTypeOK
  /\ Stored \subseteq minted
  /\ \A id \in Stored : sessions[id] \in Nat
  /\ sweepAt \in {NoTime} \cup 0 .. now

(* No request that began after a logout was acknowledged is told that the  *)
(* session is active (service_impl.go:116-141), however the logout, the    *)
(* refreshes and the expiry deletes were interleaved before it.            *)
LogoutIsFinal ==
  \A p \in Procs : call[p].late => call[p].ans # "active"

(* A logged-out session is not in the store, not even while the refresh of *)
(* a request that read it before the logout is still to come               *)
(* (memory_store.go:88-102 only writes entries that are there).            *)
EndedStaysOut == ended \cap Stored = {}

(* A logout that will be acknowledged has taken its session out.           *)
LogoutTookIt ==
  \A p \in Procs :
    call[p].op = "logout" /\ call[p].ans = "ok" => call[p].sid \notin Stored

(* The id that a callback is about to store is not stored.                 *)
UnbornIsOut == \A p \in Procs : At(p, "create") => call[p].sid \notin Stored

(* The invariant behind LogoutIsFinal and EndedStaysOut: inductive.        *)
IInv ==
  /\ TypeOK
  /\ StepsOfOps
  /\ MintedOnce
  /\ LateIsBlind
  /\ LogoutTookIt
  /\ EndedStaysOut
  /\ UnbornIsOut

(* The store never holds more than its limit (memory_store.go:40-45).      *)
WithinLimit == Cardinality(Stored) <= MaxSessions

(* "session store full" is answered only when every entry it holds is a    *)
(* live session, never on account of entries that had expired.             *)
FullMeansLive ==
  [][\A p \in Procs : call'[p].ans = "full" /\ call[p].ans # "full"
        => Live' = Stored' /\ Cardinality(Stored') = MaxSessions]_vars

(* A session that leaves the store while it is still unexpired was taken   *)
(* by a logout or a revocation: never by one of the expiry paths.          *)
TakenOnPurpose ==
  \A id \in Live \ Stored' :
    \/ \E p \in Procs : At(p, "delete") /\ call[p].sid = id /\ call'[p].ans = "ok"
    \/ \E s \in Subjects : DeleteBySubject(s)

(* The expiry paths, which delete after the lock under which they looked   *)
(* has been released, never take a session that a refresh has saved in     *)
(* the meantime (memory_store.go:62-66, service_impl.go:121-125).          *)
UnexpiredSurvives == [][TakenOnPurpose]_vars

(* Without sliding there are no refreshes, and it is so                    *)
(* (service_impl.go:127).                                                  *)
FixedSurvives == [][~sliding => TakenOnPurpose]_vars

(* An entry whose expiry has passed does not stay: it is collected or, at  *)
(* the hand of a request that had read it, refreshed.                      *)
ExpiredIsCollected ==
  \A id \in Ids : id \in Expired(now) ~> id \notin Expired(now)

--------------------------------------------------------------------------------
(* The refinement of SessionContract.                                      *)
StatusOf(id) ==
  CASE id \in Live -> "open"
    [] id \in Expired(now) -> "lapsed"
    [] id \notin Stored /\ Unborn(id) -> "unborn"
    [] id \notin Stored /\ ~Unborn(id) -> "gone"

Contract == INSTANCE SessionContract WITH
  status <- [id \in Ids |-> StatusOf(id)],
  query <- [p \in Procs |-> QueryOf(p)]

(* The memory store keeps the contract between the service and browsers.   *)
ImplementsContract == Contract!Spec
================================================================================
