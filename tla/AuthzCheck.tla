------------------------------- MODULE AuthzCheck -------------------------------
(***************************************************************************)
(* DefaultService.Check of internal/authz with its DecisionCache: builtin  *)
(* roles, then resource grants, then the cache, then Casdoor's enforce,    *)
(* whose answer is cached.  Requests run concurrently with each other and  *)
(* with those who change the policy in Casdoor and the grants in IAM.      *)
(*                                                                         *)
(* A question stands for one (app, subject, object, action): the key of    *)
(* the cache.  What IAM answers to a question is a verdict here; how it    *)
(* comes to it from the stored grants is the matter of ResourceGrants.     *)
(***************************************************************************)
EXTENDS Integers, FiniteSets, BuiltinRoles

CONSTANTS
  Procs,          \* goroutines serving a check
  Questions,      \* what may be asked
  NoQuestion,     \* the question of a goroutine that serves no check
  About,          \* what the builtin roles look at in a question
  RoleSets,       \* roles a principal may have; none, if nobody is signed in
  CacheEnabled,   \* authz.cacheEnabled
  CacheTTL,       \* authz.cacheTTLSeconds
  MaxEntries,     \* defaultDecisionCacheMaxEntries
  IAMCanFail,     \* iam.provider reaches a database, which can be down
  Latency,        \* the timeout of the Casdoor client: later answers are errors
  Volatile,       \* bound of the model: the questions whose answer changes
  MaxTime         \* bound of the model: the clock stops here

ASSUME NoQuestionAssumption == NoQuestion \notin Questions
ASSUME AboutAssumption == About \in [Questions -> Matter] /\ RoleSets \subseteq SUBSET Role
ASSUME SwitchAssumption == CacheEnabled \in BOOLEAN /\ IAMCanFail \in BOOLEAN
ASSUME CacheTTLAssumption == CacheTTL \in Nat \ {0}       \* config.validate: 1 to 60
ASSUME MaxEntriesAssumption == MaxEntries \in Nat \ {0}
ASSUME LatencyAssumption == Latency \in Nat
ASSUME VolatileAssumption == Volatile \subseteq Questions
ASSUME MaxTimeAssumption == MaxTime \in Nat

VARIABLES
  now,            \* time.Now()
  policy,         \* Casdoor: whether its policy allows each question
  since,          \* history: since when the policy has been what it is
  verdict,        \* IAM: what its grants say of each question
  cache,          \* DecisionCache.items: question -> [allow, exp]
  check           \* the check each goroutine serves

world == <<policy, since, verdict>>
vars == <<now, world, cache, check>>

Entry == [allow : BOOLEAN, exp : Nat]

Check == [pc    : {"idle", "iam", "cache", "judge", "drop", "enforce", "reply", "done"},
          q     : Questions \cup {NoQuestion},
          allow : BOOLEAN,       \* the decision so far, or the cached one
          exp   : Nat,           \* expiresAt of the cached entry that was read
          asked : Nat,           \* when Casdoor evaluated it
          deny  : {"no", "held", "unread"},  \* history: the grants have denied it
                                             \* all along, but could not be read
          from  : {"none", "builtin-role", "iam-resource-grant", "cache", "casdoor", "error"}]

Idle == [pc |-> "idle", q |-> NoQuestion, allow |-> FALSE, exp |-> 0,
         asked |-> 0, deny |-> "no", from |-> "none"]

At(p, pc) == check[p].pc = pc
Goto(p, pc) == check' = [check EXCEPT ![p].pc = pc, ![p].allow = FALSE, ![p].exp = 0]
Decide(p, allow, from) ==
  check' = [check EXCEPT ![p].pc = "done", ![p].allow = allow, ![p].from = from,
                         ![p].exp = 0, ![p].asked = 0]

--------------------------------------------------------------------------------
(* Definitions named Bad_ are slips of the code that the runs must notice; *)
(* each stands before what it would replace, and nothing uses it.          *)

(* A check arrives, and is refused if it names no subject, object or       *)
(* action.  A principal with a role that is enough is allowed before       *)
(* anything else is looked at.                                             *)
Begin(p) ==
  /\ At(p, "idle")
  /\ \E q \in Questions, roles \in RoleSets, complete \in BOOLEAN :
       LET role == builtinRoleAllows(roles, About[q])
       IN check' = [check EXCEPT ![p] =
            IF complete
            THEN [Idle EXCEPT
                    !.q = q, !.deny = IF verdict[q] = "deny" /\ ~role THEN "held" ELSE "no",
                    !.pc = IF role THEN "done" ELSE "iam",
                    !.allow = role,
                    !.from = IF role THEN "builtin-role" ELSE "none"]
            ELSE [Idle EXCEPT !.q = q, !.pc = "done", !.from = "error"]]
  /\ UNCHANGED <<now, world, cache>>

(* CheckResourceGrant: a grant that matches decides, for or against.  No   *)
(* grant, and an error alike, leave the question to Casdoor.               *)
Bad_AskIAM(p) ==
  LET next == IF CacheEnabled THEN "cache" ELSE "enforce"
  IN /\ At(p, "iam")
     /\ \/ verdict[check[p].q] = "allow" /\ Decide(p, TRUE, "iam-resource-grant")
        \/ verdict[check[p].q] # "allow" /\ Goto(p, next)
     /\ UNCHANGED <<now, world, cache>>

AskIAM(p) ==
  LET v == verdict[check[p].q]
      next == IF CacheEnabled THEN "cache" ELSE "enforce"
  IN /\ At(p, "iam")
     /\ \/ v # "none" /\ Decide(p, v = "allow", "iam-resource-grant")
        \/ v = "none" /\ Goto(p, next)
        \/ /\ IAMCanFail
           /\ check' = [check EXCEPT ![p].pc = next,
                          ![p].deny = IF @ = "held" THEN "unread" ELSE "no"]
     /\ UNCHANGED <<now, world, cache>>

(* DecisionCache.Get reads under the lock and judges after releasing it.   *)
CacheRead(p) ==
  LET q == check[p].q IN
  /\ At(p, "cache")
  /\ \/ q \notin DOMAIN cache /\ Goto(p, "enforce")
     \/ q \in DOMAIN cache
          /\ check' = [check EXCEPT ![p].pc = "judge", ![p].allow = cache[q].allow,
                                    ![p].exp = cache[q].exp]
  /\ UNCHANGED <<now, world, cache>>

Bad_CacheJudge(p) ==
  /\ At(p, "judge")
  /\ Decide(p, check[p].allow, "cache")
  /\ UNCHANGED <<now, world, cache>>

CacheJudge(p) ==
  /\ At(p, "judge")
  /\ \/ now <= check[p].exp /\ Decide(p, check[p].allow, "cache")
     \/ now > check[p].exp /\ Goto(p, "drop")
  /\ UNCHANGED <<now, world, cache>>

(* The lock is taken again to delete what is under the key by then.        *)
CacheDrop(p) ==
  /\ At(p, "drop")
  /\ cache' = [q \in DOMAIN cache \ {check[p].q} |-> cache[q]]
  /\ Goto(p, "enforce")
  /\ UNCHANGED <<now, world>>

(* Casdoor evaluates its policy; the answer is on its way.                 *)
Enforce(p) ==
  /\ At(p, "enforce")
  /\ check' = [check EXCEPT ![p].pc = "reply", ![p].allow = policy[check[p].q],
                            ![p].asked = now]
  /\ UNCHANGED <<now, world, cache>>

(* Casdoor cannot be reached, answers an error, or its answer is lost or   *)
(* too late: the check is denied, and nothing is cached.                   *)
EnforceFails(p) ==
  /\ check[p].pc \in {"enforce", "reply"}
  /\ Decide(p, FALSE, "error")
  /\ UNCHANGED <<now, world, cache>>

(* DecisionCache.Set: at its limit it drops what has expired and then, if  *)
(* need be, one of the entries next to expire.                             *)
Bad_Room(c) == Cardinality(DOMAIN c) <= MaxEntries
Room(c) == Cardinality(DOMAIN c) < MaxEntries

Fresh(allow) == [allow |-> allow, exp |-> now + CacheTTL]

Set(q, allow) ==
  LET only(S) == [x \in S |-> cache[x]]
      kept == IF Room(cache) THEN cache
              ELSE only({x \in DOMAIN cache : now <= cache[x].exp})
      with(c) == [x \in DOMAIN c \cup {q} |->
                    IF x = q THEN Fresh(allow) ELSE c[x]]
  IN IF Room(kept)
     THEN cache' = with(kept)
     ELSE \E old \in DOMAIN kept :
            /\ \A x \in DOMAIN kept : kept[old].exp <= kept[x].exp
            /\ cache' = with(only(DOMAIN kept \ {old}))

(* The answer arrives in time, is cached and given.                        *)
EnforceAnswers(p) ==
  /\ At(p, "reply")
  /\ now <= check[p].asked + Latency
  /\ IF CacheEnabled THEN Set(check[p].q, check[p].allow) ELSE UNCHANGED cache
  /\ Decide(p, check[p].allow, "casdoor")
  /\ UNCHANGED <<now, world>>

Respond(p) ==
  /\ At(p, "done")
  /\ check' = [check EXCEPT ![p] = Idle]
  /\ UNCHANGED <<now, world, cache>>

--------------------------------------------------------------------------------
(* An administrator of Casdoor changes the policy.                         *)
ChangePolicy(q) ==
  /\ policy' = [policy EXCEPT ![q] = ~@]
  /\ since' = [since EXCEPT ![q] = now]
  /\ UNCHANGED <<now, verdict, cache, check>>

(* A grant is saved or deleted.                                            *)
ChangeGrants(q) ==
  /\ \E v \in {"none", "allow", "deny"} \ {verdict[q]} :
       verdict' = [verdict EXCEPT ![q] = v]
  /\ check' = [p \in Procs |->
       [check[p] EXCEPT !.deny = IF check[p].q = q THEN "no" ELSE @]]
  /\ UNCHANGED <<now, policy, since, cache>>

Tick ==
  /\ now < MaxTime
  /\ now' = now + 1
  /\ UNCHANGED <<world, cache, check>>

--------------------------------------------------------------------------------
Init ==
  /\ now = 0
  /\ policy = [q \in Questions |-> FALSE]
  /\ since = [q \in Questions |-> 0]
  /\ verdict = [q \in Questions |-> "none"]
  /\ cache = << >>
  /\ check = [p \in Procs |-> Idle]

Serve(p) ==
  \/ Begin(p)
  \/ AskIAM(p)
  \/ CacheRead(p)
  \/ CacheJudge(p)
  \/ CacheDrop(p)
  \/ Enforce(p)
  \/ EnforceFails(p)
  \/ EnforceAnswers(p)
  \/ Respond(p)

Next ==
  \/ \E p \in Procs : Serve(p)
  \/ \E q \in Volatile : ChangePolicy(q)
  \/ \E q \in Volatile : ChangeGrants(q)
  \/ Tick

Spec == Init /\ [][Next]_vars

--------------------------------------------------------------------------------
TypeOK ==
  /\ now \in Nat
  /\ policy \in [Questions -> BOOLEAN]
  /\ since \in [Questions -> 0 .. now]
  /\ verdict \in [Questions -> {"none", "allow", "deny"}]
  /\ DOMAIN cache \subseteq Questions
  /\ \A q \in DOMAIN cache : cache[q] \in Entry
  /\ check \in [Procs -> Check]

Settled(q, age) == now - since[q] > age

(* A decision Casdoor or the cache gives says what the policy says, once   *)
(* the policy has not changed for longer than the cache lifetime and the   *)
(* slowest answer of Casdoor together, however checks of the same question *)
(* overlap (service_impl.go:85-110, cache.go:26-59).                       *)
PolicyTakesEffect ==
  [][\A p \in Procs : LET q == check[p].q IN
       /\ ~At(p, "done") /\ check'[p].pc = "done"
       /\ check'[p].from \in {"cache", "casdoor"}
       /\ Settled(q, CacheTTL + Latency)
       => check'[p].allow = policy[q]]_vars

(* A deny in the grants cannot be overtaken: a check that had it against   *)
(* it from beginning to end, and could read it, is not allowed, neither by *)
(* Casdoor nor by what was cached before the deny, unless a role of the    *)
(* principal is enough (service_impl.go:53-82).                            *)
DenyHolds ==
  \A p \in Procs :
    At(p, "done") /\ check[p].deny = "held"
      => ~check[p].allow

(* "Casdoor / 权限源异常时是否默认拒绝": with authz.failClosed a deny also *)
(* holds when the source of the grants cannot be read                      *)
(* (configs/config.yaml.example:201-204).                                  *)
DenyFailsClosed ==
  \A p \in Procs :
    At(p, "done") /\ check[p].deny # "no"
      => ~check[p].allow

(* The cache does not outgrow its limit (cache.go:52-58).                  *)
WithinLimit == Cardinality(DOMAIN cache) <= MaxEntries

(* What these rest on.  A decision that is cached to expire at exp is what *)
(* the policy says, or the policy has changed when Casdoor answered, a     *)
(* Latency before it was cached at the earliest, or later.                 *)
Dated(q, allow, exp) ==
  /\ exp <= now + CacheTTL
  /\ allow = policy[q] \/ exp <= since[q] + CacheTTL + Latency

CacheIsDated == \A q \in DOMAIN cache : Dated(q, cache[q].allow, cache[q].exp)

(* A check holds a dated decision; it has seen the deny that it had        *)
(* against it all along, or will see it; and an error never allows.        *)
CheckOK(c) ==
  /\ IF c.pc = "idle" THEN c = Idle ELSE c.q \in Questions
  /\ c.pc = "judge" => Dated(c.q, c.allow, c.exp)
  /\ c.pc = "reply" => c.asked <= now /\ (c.allow = policy[c.q] \/ c.asked <= since[c.q])
  /\ c.deny = "held" => \/ c.pc = "iam" /\ verdict[c.q] = "deny"
                        \/ c.pc = "done" /\ ~c.allow
  /\ c.from # "none" => c.pc = "done"
  /\ c.from = "error" => ~c.allow

CheckInv ==
  /\ TypeOK
  /\ IsFiniteSet(DOMAIN cache) /\ WithinLimit
  /\ CacheIsDated
  /\ \A p \in Procs : CheckOK(check[p])
================================================================================
