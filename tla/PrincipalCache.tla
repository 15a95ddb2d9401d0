------------------------------ MODULE PrincipalCache ------------------------------
(***************************************************************************)
(* The SDK in an application: the gin middleware RequireLogin with its     *)
(* principal cache, and RequirePermission behind it.  Each request runs in *)
(* its own goroutine.  It asks the auth service over HTTP, about a session *)
(* and then about a permission, and gives up when the client's timeout     *)
(* says so, whether or not the service is still at work on the question.   *)
(*                                                                         *)
(* The auth service is what SessionContract says, and no more.  A decision *)
(* may come from its own cache: what allows a user now, or did within the  *)
(* age that AuthzCheck!PolicyTakesEffect gives such decisions.             *)
(* Timers are punctual, and time that a goroutine spends between two       *)
(* statements of the middleware is not counted.                            *)
(***************************************************************************)
EXTENDS Integers

CONSTANTS
  Procs,          \* request goroutines of the application
  Ids, NoId,      \* session ids, and none
  CacheTTL,       \* MiddlewareOptions.CacheTTL; 0 with DisableCache
  Latency,        \* http.Client.Timeout
  DecisionAge,    \* how old a decision of the auth service may be
  MaxTime         \* bound of the model: the clock stops here

ASSUME NoIdAssumption == NoId \notin Ids
ASSUME TimesAssumption ==
  CacheTTL \in Nat /\ Latency \in Nat /\ DecisionAge \in Nat /\ MaxTime \in Nat

VARIABLES
  now,            \* time.Now()
  status, query,  \* the auth service, as SessionContract has it
  allowed,        \* [Ids -> BOOLEAN], whether a role, a grant or Casdoor's policy
                  \* allows the user of a session
  call,           \* the request each goroutine serves
  cache,          \* [some Ids -> expiresAt]
  lastOpen,       \* history: when each session was last open
  lastAllowed     \* history: when each user was last allowed

vars == <<now, status, query, allowed, call, cache, lastOpen, lastAllowed>>
serviceVars == <<status, query, allowed, lastOpen, lastAllowed>>

Auth == INSTANCE SessionContract

Call == [pc  : {"idle", "asked", "admitted", "checking", "judged", "served"},
         sid : Ids \cup {NoId},
         at  : Nat,            \* when this step of the request began
         ok  : BOOLEAN]        \* the decision that is on its way back

Idle == [pc |-> "idle", sid |-> NoId, at |-> 0, ok |-> FALSE]

At(p, pc) == call[p].pc = pc
Goto(p, pc, sid) == call' = [call EXCEPT ![p] = [pc |-> pc, sid |-> sid, at |-> now, ok |-> FALSE]]
Without(sid) == [s \in DOMAIN cache \ {sid} |-> cache[s]]

--------------------------------------------------------------------------------
(* Definitions named Bad_ are slips of the code that the runs must notice; *)
(* each stands before what it would replace, and nothing uses it.          *)

(* principalCache.Get says yes.                                            *)
Bad_Cached(sid) == sid \in DOMAIN cache
Cached(sid) == sid \in DOMAIN cache /\ now <= cache[sid]

(* principalCache.Set.                                                     *)
Put(sid) == IF CacheTTL = 0 THEN cache
            ELSE [s \in DOMAIN cache \cup {sid} |-> IF s = sid THEN now + CacheTTL ELSE cache[s]]

(* RequireLogin finds the principal in the cache.                          *)
Hit(p) ==
  /\ call[p] = Idle
  /\ \E sid \in Ids : Cached(sid) /\ Goto(p, "admitted", sid)
  /\ UNCHANGED <<now, serviceVars, cache>>

(* It does not, drops what is out of date, and asks.                       *)
Miss(p) ==
  /\ call[p] = Idle
  /\ query[p] = Auth!Quiet
  /\ \E sid \in Ids :
       /\ ~Cached(sid)
       /\ cache' = Without(sid)
       /\ Goto(p, "asked", sid)
       /\ query' = [query EXCEPT ![p] = [phase |-> "asked", op |-> "current",
                                         sid |-> sid, ans |-> "none"]]
  /\ UNCHANGED <<now, status, allowed, lastOpen, lastAllowed>>

(* The answer is here in time.                                             *)
Receive(p) ==
  /\ At(p, "asked") /\ query[p].phase = "done"
  /\ query' = [query EXCEPT ![p] = Auth!Quiet]
  /\ \/ /\ query[p].ans = "active"
        /\ cache' = Put(call[p].sid)
        /\ Goto(p, "admitted", call[p].sid)
     \/ /\ query[p].ans # "active"
        /\ call' = [call EXCEPT ![p] = Idle]
        /\ UNCHANGED cache
  /\ UNCHANGED <<now, status, allowed, lastOpen, lastAllowed>>

(* Any error of the exchange, the timeout or an answer that cannot be      *)
(* decoded ends the request, which is refused.                             *)
GiveUp(p) ==
  /\ call[p].pc \in {"asked", "checking", "judged"}
  /\ call' = [call EXCEPT ![p] = Idle]
  /\ UNCHANGED <<now, serviceVars, cache>>

(* RequirePermission asks whether the principal may; a refusal ends the    *)
(* request, and so does the end of the handler.                            *)
Check(p) ==
  /\ At(p, "admitted") /\ Goto(p, "checking", call[p].sid)
  /\ UNCHANGED <<now, serviceVars, cache>>

Bad_Permit(p) ==
  /\ At(p, "admitted") /\ Goto(p, "served", call[p].sid)
  /\ UNCHANGED <<now, serviceVars, cache>>

Permit(p) ==
  /\ At(p, "judged") /\ call[p].ok /\ Goto(p, "served", call[p].sid)
  /\ UNCHANGED <<now, serviceVars, cache>>

Finish(p) ==
  /\ \/ call[p].pc \in {"admitted", "served"}
     \/ At(p, "judged") /\ ~call[p].ok
  /\ call' = [call EXCEPT ![p] = Idle]
  /\ UNCHANGED <<now, serviceVars, cache>>

--------------------------------------------------------------------------------
(* The auth service.  Browsers ask it themselves as well.                  *)
DirectAsk(p) ==
  /\ call[p] = Idle
  /\ query[p] = Auth!Quiet
  /\ \E op \in {"current", "logout"}, sid \in Ids :
       query' = [query EXCEPT ![p] = [phase |-> "asked", op |-> op, sid |-> sid, ans |-> "none"]]
  /\ UNCHANGED <<now, status, allowed, call, cache, lastOpen, lastAllowed>>

See(p) ==
  /\ query[p].phase = "asked" /\ query[p].op = "current"
  /\ status[query[p].sid] = "open"
  /\ query' = [query EXCEPT ![p].phase = "seen"]
  /\ UNCHANGED <<now, status, allowed, call, cache, lastOpen, lastAllowed>>

Reply(p) ==
  /\ \E a \in {"none", "active", "ok", "err"} :
       /\ \/ query[p].phase = "seen" /\ a \in {"active", "none"}
          \/ query[p].phase = "asked" /\ query[p].op = "current" /\ a = "none"
          \/ query[p].phase = "asked" /\ query[p].op = "logout" /\ a = "err"
          \/ /\ query[p].phase = "asked" /\ query[p].op = "logout" /\ a = "ok"
             /\ status[query[p].sid] = "gone"
       /\ query' = [query EXCEPT ![p].phase = "done", ![p].ans = a]
  /\ UNCHANGED <<now, status, allowed, call, cache, lastOpen, lastAllowed>>

(* An answer that nobody waits for, or that a browser reads.               *)
Clear(p) ==
  /\ query[p].phase = "done" /\ ~At(p, "asked")
  /\ query' = [query EXCEPT ![p] = Auth!Quiet]
  /\ UNCHANGED <<now, status, allowed, call, cache, lastOpen, lastAllowed>>

(* The service decides: by what allows the user at this moment, or by its  *)
(* DecisionCache, which may remember that something did.  It may refuse in *)
(* any case: a grant denies, the cache remembers a denial, a source fails. *)
Judge(p) ==
  /\ At(p, "checking")
  /\ \E ok \in BOOLEAN :
       /\ ok => now <= lastAllowed[call[p].sid] + DecisionAge
       /\ call' = [call EXCEPT ![p].pc = "judged", ![p].ok = ok]
  /\ UNCHANGED <<now, serviceVars, cache>>

(* A session is created, expires, is refreshed or ends.                    *)
Change(sid) ==
  /\ \E st \in {"open", "lapsed", "gone"} :
       /\ \/ status[sid] = "unborn"
          \/ status[sid] = "open" /\ st # "open"
          \/ status[sid] = "lapsed" /\ st = "gone"
          \/ status[sid] = "lapsed" /\ st = "open" /\ Auth!Witnessed(sid)
       /\ status' = [status EXCEPT ![sid] = st]
       /\ lastOpen' = IF st = "open" THEN [lastOpen EXCEPT ![sid] = now] ELSE lastOpen
  /\ UNCHANGED <<now, query, allowed, call, cache, lastAllowed>>

(* An administrator grants or revokes.                                     *)
Amend(sid) ==
  /\ allowed' = [allowed EXCEPT ![sid] = ~@]
  /\ lastAllowed' = IF allowed[sid] THEN lastAllowed ELSE [lastAllowed EXCEPT ![sid] = now]
  /\ UNCHANGED <<now, status, query, call, cache, lastOpen>>

--------------------------------------------------------------------------------
(* Nothing waits longer than the client's timeout.                         *)
InTime(p) ==
  /\ call[p].pc \in {"asked", "checking", "judged"} => now <= call[p].at + Latency
  /\ call[p].pc = "admitted" => now <= call[p].at

Tick ==
  /\ now < MaxTime
  /\ now' = now + 1
  /\ UNCHANGED <<status, query, allowed, call, cache>>
  /\ \A p \in Procs : InTime(p)'
  /\ lastOpen' = [s \in Ids |-> IF status[s] = "open" THEN now + 1 ELSE lastOpen[s]]
  /\ lastAllowed' = [s \in Ids |-> IF allowed[s] THEN now + 1 ELSE lastAllowed[s]]

(* Longer ago than any decision remembers.                                 *)
Never == 0 - DecisionAge - 1

Init ==
  /\ now = 0
  /\ status = [s \in Ids |-> "unborn"]
  /\ query = [p \in Procs |-> Auth!Quiet]
  /\ allowed = [s \in Ids |-> FALSE]
  /\ call = [p \in Procs |-> Idle]
  /\ cache = << >>
  /\ lastOpen = [s \in Ids |-> 0]
  /\ lastAllowed = [s \in Ids |-> Never]

Middleware(p) ==
  \/ Hit(p)
  \/ Miss(p)
  \/ Receive(p)
  \/ GiveUp(p)
  \/ Check(p)
  \/ Permit(p)
  \/ Finish(p)

Service(p) ==
  \/ DirectAsk(p)
  \/ See(p)
  \/ Reply(p)
  \/ Clear(p)
  \/ Judge(p)

Next ==
  \/ \E p \in Procs : Middleware(p)
  \/ \E p \in Procs : Service(p)
  \/ \E s \in Ids : Change(s)
  \/ \E s \in Ids : Amend(s)
  \/ Tick

Spec == Init /\ [][Next]_vars

--------------------------------------------------------------------------------
TypeOK ==
  /\ now \in Nat
  /\ status \in [Ids -> Auth!Status]
  /\ query \in [Procs -> Auth!Query]
  /\ allowed \in [Ids -> BOOLEAN]
  /\ call \in [Procs -> Call]
  /\ DOMAIN cache \subseteq Ids /\ \A s \in DOMAIN cache : cache[s] \in Nat
  /\ lastOpen \in [Ids -> Nat]
  /\ lastAllowed \in [Ids -> Int]

Enters(p, pc) == call'[p].pc = pc /\ ~At(p, pc)

(* A session that is over lets nobody in for longer than the life of a     *)
(* cache entry and one exchange with the auth service, whatever answers    *)
(* were under way when it ended (middleware.go:37-66,185-209).             *)
AdmissionIsRecent ==
  [][\A p \in Procs : Enters(p, "admitted")
       => now <= lastOpen[call'[p].sid] + CacheTTL + Latency]_vars

(* A handler behind RequirePermission runs only for a user who was allowed *)
(* within the age of a decision and one exchange, and whose session was    *)
(* open within the time above and that exchange (middleware.go:68-96).     *)
ServedIsRecent ==
  [][\A p \in Procs : Enters(p, "served")
       => /\ now <= lastAllowed[call'[p].sid] + DecisionAge + Latency
          /\ now <= lastOpen[call'[p].sid] + CacheTTL + 2 * Latency]_vars

(* The invariant behind the two: what is under way, and what is cached,    *)
(* was true when it was asked for or later.                                *)
HistoryIsCurrent ==
  \A s \in Ids :
    /\ lastOpen[s] <= now /\ (status[s] = "open" => lastOpen[s] = now)
    /\ lastAllowed[s] <= now /\ (allowed[s] => lastAllowed[s] = now)

Punctual ==
  \A p \in Procs : ~At(p, "idle") =>
    call[p].sid \in Ids /\ call[p].at <= now /\ InTime(p)

AnswersAreRecent ==
  \A p \in Procs : At(p, "asked") =>
    /\ query[p].sid = call[p].sid
    /\ query[p].phase = "seen" \/ query[p].ans = "active"
         => call[p].at <= lastOpen[call[p].sid]

CacheIsRecent == \A s \in DOMAIN cache : cache[s] <= lastOpen[s] + CacheTTL + Latency

ChecksAreRecent ==
  \A p \in Procs : call[p].pc \in {"admitted", "checking", "judged"} =>
    /\ call[p].at <= lastOpen[call[p].sid] + CacheTTL + Latency
    /\ call[p].ok => call[p].at <= lastAllowed[call[p].sid] + DecisionAge

IInv ==
  /\ TypeOK
  /\ HistoryIsCurrent
  /\ Punctual
  /\ AnswersAreRecent
  /\ CacheIsRecent
  /\ ChecksAreRecent
================================================================================
