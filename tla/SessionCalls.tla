------------------------------ MODULE SessionCalls ------------------------------
(***************************************************************************)
(* The calls the authn service makes on a session store: the tail of       *)
(* HandleCallback (which creates a session), Current (which reads and,     *)
(* with sliding sessions, refreshes one) and Logout (which deletes one).   *)
(* Every HTTP request runs in its own goroutine; a member of Procs is one  *)
(* such goroutine, reused for the next request when it has answered.  The  *)
(* store itself is left to MemorySessions and RedisSessions: this module   *)
(* holds what the two have in common, the request in progress and the      *)
(* clock.                                                                  *)
(*                                                                         *)
(* A store operation is a program counter value here and an action there:  *)
(*   "create"  sessions.Create     "get"     sessions.Get, first section   *)
(*   "delete"  sessions.Delete     "getdel"  the Delete inside Get         *)
(*   "touch"   sessions.Touch      "svcdel"  the Delete inside Current     *)
(*   "check"   Current's own look at the copy it was given                 *)
(*   "decode"  Get with a payload that Redis has returned                  *)
(***************************************************************************)
EXTENDS Integers, FiniteSets

CONSTANTS
  Procs,      \* request goroutines
  Ids,        \* session ids: each value of uuid.NewString() the run can draw
  NoId,       \* the session id of a goroutine that serves no request
  TTL,        \* session.ttl_seconds
  Slidings,   \* the values of session.sliding to consider
  MaxTime     \* bound of the model: the clock stops here

ASSUME NoIdAssumption == NoId \notin Ids
ASSUME TTLAssumption == TTL \in Nat \ {0}          \* config.validate
ASSUME SlidingsAssumption == Slidings \subseteq BOOLEAN
ASSUME MaxTimeAssumption == MaxTime \in Nat

VARIABLES
  sliding,    \* session.sliding; no step changes it
  now,        \* time.Now(), in whole ticks
  call,       \* the request each goroutine serves
  minted,     \* ids drawn by uuid.NewString() so far
  issued,     \* ids a browser has received in its cookie
  ended       \* ids whose logout was answered "ok" (history, read by no action)

callVars == <<sliding, now, call, minted, issued, ended>>

StorePC == {"create", "delete", "get", "getdel", "svcdel", "touch"}

Call == [op   : {"idle", "callback", "current", "logout"},
         sid  : Ids \cup {NoId},
         pc   : StorePC \cup {"idle", "decode", "check", "done"},
         exp  : Nat,        \* ExpiresAt of the Session value the goroutine holds
         dead : BOOLEAN,    \* the request's context is cancelled
         late : BOOLEAN,    \* history: it began after sid was logged out
         saw  : BOOLEAN,    \* history: its Get read the session unexpired
         ans  : {"none", "active", "ok", "full", "err"}]

Idle == [op |-> "idle", sid |-> NoId, pc |-> "idle", exp |-> 0,
         dead |-> FALSE, late |-> FALSE, saw |-> FALSE, ans |-> "none"]

CallTypeOK ==
  /\ sliding \in Slidings
  /\ now \in Nat
  /\ call \in [Procs -> Call]
  /\ minted \subseteq Ids
  /\ issued \subseteq minted
  /\ ended \subseteq issued

CallInit ==
  /\ sliding \in Slidings
  /\ now = 0
  /\ call = [p \in Procs |-> Idle]
  /\ minted = {}
  /\ issued = {}
  /\ ended = {}

At(p, pc) == call[p].pc = pc
GotRead(p, pc, exp) == call' = [call EXCEPT ![p].pc = pc, ![p].exp = exp,
                                            ![p].saw = (now <= exp)]
Goto(p, pc) == call' = [call EXCEPT ![p].pc = pc]
Answer(p, a) == call' = [call EXCEPT ![p].pc = "done", ![p].ans = a]

Begin(p, op, sid, pc, exp) ==
  /\ At(p, "idle")
  /\ call' = [call EXCEPT ![p] =
       [Idle EXCEPT !.op = op, !.sid = sid, !.pc = pc, !.exp = exp,
                    !.late = sid \in ended]]

(* HandleCallback, once Casdoor has vouched for the user: a fresh id, an   *)
(* expiry, and the call of sessions.Create.                                *)
BeginCallback(p) ==
  \E id \in Ids \ minted :
    /\ Begin(p, "callback", id, "create", now + TTL)
    /\ minted' = minted \cup {id}
    /\ UNCHANGED <<sliding, now, issued, ended>>

(* Me, Introspect and the authz handlers reach Current with the cookie of  *)
(* a browser.                                                              *)
BeginCurrent(p) ==
  \E id \in issued :
    /\ Begin(p, "current", id, "get", 0)
    /\ UNCHANGED <<sliding, now, minted, issued, ended>>

BeginLogout(p) ==
  \E id \in issued :
    /\ Begin(p, "logout", id, "delete", 0)
    /\ UNCHANGED <<sliding, now, minted, issued, ended>>

(* Current, after a successful Get: a second look at the copy's expiry,    *)
(* then the refresh when sessions slide.                                   *)
CurrentCheck(p) ==
  /\ At(p, "check")
  /\ \/ now > call[p].exp /\ Goto(p, "svcdel")
     \/ now <= call[p].exp /\ sliding /\ Goto(p, "touch")
     \/ now <= call[p].exp /\ ~sliding /\ Answer(p, "active")
  /\ UNCHANGED <<sliding, now, minted, issued, ended>>

(* What the service answers when the store call it is in returns an error: *)
(* Current reports no session, except that a failed refresh is only        *)
(* logged; the callback and the logout report the error.                   *)
OnError(pc) ==
  CASE pc = "touch" -> "active"
    [] pc \in {"get", "getdel", "svcdel"} -> "none"
    [] OTHER -> "err"

(* The browser goes away while its request runs: gin cancels the context.  *)
Disconnect(p) ==
  /\ call[p].pc \notin {"idle", "done"}
  /\ ~call[p].dead
  /\ call' = [call EXCEPT ![p].dead = TRUE]
  /\ UNCHANGED <<sliding, now, minted, issued, ended>>

(* The handler writes its response.  A callback's sets the session cookie. *)
Respond(p) ==
  /\ At(p, "done")
  /\ call' = [call EXCEPT ![p] = Idle]
  /\ issued' = IF call[p].op = "callback" /\ call[p].ans = "ok"
               THEN issued \cup {call[p].sid} ELSE issued
  /\ ended' = IF call[p].op = "logout" /\ call[p].ans = "ok"
              THEN ended \cup {call[p].sid} ELSE ended
  /\ UNCHANGED <<sliding, now, minted>>

Tick ==
  /\ now < MaxTime
  /\ now' = now + 1
  /\ UNCHANGED <<sliding, call, minted, issued, ended>>

--------------------------------------------------------------------------------
(* What is true of the requests in progress, whatever the store does.      *)

(* Each step of a call is a step of the operation it was made for, and a   *)
(* request about to be answered "active" has seen its session in force.    *)
StepsOfOps ==
  \A p \in Procs :
    /\ At(p, "idle") => call[p] = Idle
    /\ ~At(p, "idle") => call[p].op # "idle" /\ call[p].sid \in Ids
    /\ At(p, "create") => call[p].op = "callback"
    /\ At(p, "delete") => call[p].op = "logout"
    /\ call[p].pc \in {"get", "decode", "getdel", "check", "touch", "svcdel"}
         => call[p].op = "current"
    /\ At(p, "get") => ~call[p].saw
    /\ call[p].pc \in {"check", "touch"} => call[p].saw

(* An id a callback is working on belongs to no other callback and no      *)
(* browser has it; the ids of the other requests came from browsers.       *)
MintedOnce ==
  \A p \in Procs :
    /\ call[p].op = "callback" =>
         /\ call[p].sid \in minted \ issued
         /\ \A q \in Procs \ {p} : call[q].op = "callback" => call[q].sid # call[p].sid
    /\ call[p].op \in {"current", "logout"} => call[p].sid \in issued

(* A request that came after the logout has seen nothing of the session.   *)
LateIsBlind ==
  \A p \in Procs : call[p].late =>
    /\ call[p].sid \in ended
    /\ call[p].pc \in {"get", "delete", "done"}
    /\ call[p].ans # "active"

CallInv == CallTypeOK /\ StepsOfOps /\ MintedOnce /\ LateIsBlind

(* How far SessionContract takes the request to be.                        *)
PhaseOf(p) ==
  CASE call[p].pc \in {"idle", "done"} -> call[p].pc
    [] call[p].pc \notin {"idle", "done"} -> IF call[p].saw THEN "seen" ELSE "asked"

(* No session of this id has been stored yet.                              *)
Unborn(id) ==
  id \notin minted \/ \E p \in Procs : At(p, "create") /\ call[p].sid = id

QueryOf(p) == [phase |-> PhaseOf(p), op |-> call[p].op, sid |-> call[p].sid,
               ans |-> call[p].ans]

(* The steps that touch no store.                                          *)
ServiceStep(p) ==
  \/ BeginCallback(p)
  \/ BeginCurrent(p)
  \/ BeginLogout(p)
  \/ CurrentCheck(p)
  \/ Respond(p)
================================================================================
