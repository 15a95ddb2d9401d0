------------------------------ MODULE AuthzProofs ------------------------------
(***************************************************************************)
(* What checks and batches of them promise, for any number of goroutines,  *)
(* questions and roles, any cache and any latency.  The inductive          *)
(* invariant IInv dates every decision that is cached or under way         *)
(* (CacheIsDated, CheckOK), which gives PolicyTakesEffect, and ties what a *)
(* batch has found to what it was asked (RequestOK).                       *)
(***************************************************************************)
EXTENDS AuthzBatch, CasdoorTokens, TLAPS, FiniteSetTheorems

(* A step of one check that leaves the world as it is.                     *)
LEMMA CheckMoves ==
  ASSUME CheckInv, NEW p \in Procs, NEW r \in Check, CheckOK(r),
         check' = [check EXCEPT ![p] = r],
         UNCHANGED <<now, world>>
  PROVE  /\ check' \in [Procs -> Check]
         /\ check'[p] = r
         /\ \A x \in Procs \ {p} : check'[x] = check[x]
         /\ (\A x \in Procs : CheckOK(check[x]))'
<1>1. check' \in [Procs -> Check]
  BY DEF CheckInv, TypeOK
<1>2. check'[p] = r /\ \A x \in Procs \ {p} : check'[x] = check[x]
  BY DEF CheckInv, TypeOK
<1>3. ASSUME NEW x \in Procs PROVE CheckOK(check[x])'
  <2>1. CheckOK(check'[x])
    BY <1>2 DEF CheckInv
  <2> QED
    BY <2>1 DEF CheckOK, Dated, world
<1> QED
  BY <1>1, <1>2, <1>3

LEMMA CacheStays ==
  ASSUME CheckInv, UNCHANGED <<now, world, cache>>, check' \in [Procs -> Check],
         (\A x \in Procs : CheckOK(check[x]))'
  PROVE  CheckInv'
BY DEF CheckInv, TypeOK, WithinLimit, CacheIsDated, Dated, world

(* What DecisionCache.Set leaves in the cache.                             *)
LEMMA SetKeepsBounds ==
  ASSUME CheckInv, NEW q \in Questions, NEW allow \in BOOLEAN, Set(q, allow)
  PROVE  /\ DOMAIN cache' \subseteq DOMAIN cache \cup {q}
         /\ \A x \in DOMAIN cache' : cache'[x] = IF x = q THEN Fresh(allow) ELSE cache[x]
         /\ IsFiniteSet(DOMAIN cache')
         /\ Cardinality(DOMAIN cache') <= MaxEntries
<1> DEFINE only(S) == [x \in S |-> cache[x]]
           live == {x \in DOMAIN cache : now <= cache[x].exp}
           kept == IF Room(cache) THEN cache ELSE only(live)
           with(c) == [x \in DOMAIN c \cup {q} |-> IF x = q THEN Fresh(allow) ELSE c[x]]
<1>1. /\ DOMAIN kept \subseteq DOMAIN cache
      /\ \A x \in DOMAIN kept : kept[x] = cache[x]
  OBVIOUS
<1>2. IsFiniteSet(DOMAIN kept) /\ Cardinality(DOMAIN kept) <= MaxEntries
      /\ Cardinality(DOMAIN kept) \in Nat
  BY <1>1, FS_Subset, FS_CardinalityType, MaxEntriesAssumption DEF CheckInv, WithinLimit
<1>3. CASE Room(kept) /\ cache' = with(kept)
  <2>1. DOMAIN cache' = DOMAIN kept \cup {q}
    BY <1>3
  <2>2. IsFiniteSet(DOMAIN cache') /\ Cardinality(DOMAIN cache') <= MaxEntries
    BY <1>2, <1>3, <2>1, FS_AddElement, MaxEntriesAssumption DEF Room
  <2> QED
    BY <1>1, <1>3, <2>1, <2>2
<1>4. ASSUME NEW old \in DOMAIN kept, cache' = with(only(DOMAIN kept \ {old}))
      PROVE  /\ DOMAIN cache' \subseteq DOMAIN cache \cup {q}
             /\ \A x \in DOMAIN cache' : cache'[x] = IF x = q THEN Fresh(allow) ELSE cache[x]
             /\ IsFiniteSet(DOMAIN cache')
             /\ Cardinality(DOMAIN cache') <= MaxEntries
  <2> DEFINE rest == DOMAIN kept \ {old}
  <2>1. DOMAIN cache' = rest \cup {q}
    BY <1>4
  <2>2. IsFiniteSet(rest) /\ Cardinality(rest) = Cardinality(DOMAIN kept) - 1
    BY <1>2, FS_RemoveElement
  <2> HIDE DEF rest
  <2>3. IsFiniteSet(rest \cup {q}) /\ Cardinality(rest \cup {q}) <= MaxEntries
    BY <1>2, <2>2, FS_AddElement, MaxEntriesAssumption
  <2> QED
    BY <1>1, <1>4, <2>1, <2>3 DEF rest
<1> QED
  BY <1>3, <1>4 DEF Set

--------------------------------------------------------------------------------
(* The invariant holds before anything is asked.                           *)
LEMMA InitCheck == Init => CheckInv
<1> SUFFICES ASSUME Init PROVE CheckInv
  OBVIOUS
<1>1. cache = << >> /\ DOMAIN cache = {}
  BY DEF Init
<1>2. Idle \in Check /\ CheckOK(Idle)
  BY DEF Idle, Check, CheckOK
<1>3. TypeOK
  BY <1>1, <1>2 DEF Init, TypeOK
<1>4. IsFiniteSet(DOMAIN cache) /\ WithinLimit
  BY <1>1, FS_EmptySet, MaxEntriesAssumption DEF WithinLimit
<1>5. CacheIsDated
  BY <1>1 DEF CacheIsDated
<1>6. \A p \in Procs : CheckOK(check[p])
  BY <1>2 DEF Init
<1> QED
  BY <1>3, <1>4, <1>5, <1>6 DEF CheckInv

(* A check begins.                                                         *)
LEMMA BeginKeeps ==
  ASSUME CheckInv, NEW p \in Procs, Begin(p)
  PROVE  CheckInv' /\ \A x \in Procs \ {p} : check'[x] = check[x]
<1>1. PICK q \in Questions, roles \in RoleSets, complete \in BOOLEAN :
        LET role == builtinRoleAllows(roles, About[q])
        IN check' = [check EXCEPT ![p] =
            IF complete
            THEN [Idle EXCEPT
                    !.q = q, !.deny = IF verdict[q] = "deny" /\ ~role THEN "held" ELSE "no",
                    !.pc = IF role THEN "done" ELSE "iam",
                    !.allow = role,
                    !.from = IF role THEN "builtin-role" ELSE "none"]
            ELSE [Idle EXCEPT !.q = q, !.pc = "done", !.from = "error"]]
  BY DEF Begin
<1> DEFINE role == builtinRoleAllows(roles, About[q])
           r == IF complete
                THEN [Idle EXCEPT
                    !.q = q, !.deny = IF verdict[q] = "deny" /\ ~role THEN "held" ELSE "no",
                    !.pc = IF role THEN "done" ELSE "iam",
                    !.allow = role,
                    !.from = IF role THEN "builtin-role" ELSE "none"]
                ELSE [Idle EXCEPT !.q = q, !.pc = "done", !.from = "error"]
<1>2. role \in BOOLEAN
  BY DEF builtinRoleAllows
<1>3. check' = [check EXCEPT ![p] = r]
  BY <1>1
<1> HIDE DEF role
<1>4. r \in Check
  BY <1>2 DEF Check, Idle
<1>5. CheckOK(r)
  BY <1>2 DEF CheckOK, Idle
<1> HIDE DEF r
<1> QED
  BY <1>3, <1>4, <1>5, CheckMoves, CacheStays DEF Begin

(* A check at work goes to its next step, or is decided, without touching  *)
(* the cache.                                                              *)
LEMMA GotoKeeps ==
  ASSUME CheckInv, NEW p \in Procs, check[p].pc \notin {"idle", "done"},
         NEW pc \in {"cache", "drop", "enforce"},
         check[p].deny # "held",
         Goto(p, pc), UNCHANGED <<now, world>>
  PROVE  /\ check' \in [Procs -> Check]
         /\ \A x \in Procs \ {p} : check'[x] = check[x]
         /\ (\A x \in Procs : CheckOK(check[x]))'
         /\ check'[p].q = check[p].q /\ check'[p].pc = pc
<1> DEFINE r == [check[p] EXCEPT !.pc = pc, !.allow = FALSE, !.exp = 0]
<1>1. check[p] \in Check /\ CheckOK(check[p])
  BY DEF CheckInv, TypeOK
<1>2. r \in Check
  BY <1>1 DEF Check
<1>3. CheckOK(r)
  BY <1>1 DEF CheckOK, Check
<1>4. check' = [check EXCEPT ![p] = r]
  BY DEF Goto, CheckInv, TypeOK
<1>5. r.q = check[p].q /\ r.pc = pc
  BY <1>1 DEF Check
<1> HIDE DEF r
<1> QED
  BY <1>2, <1>3, <1>4, <1>5, CheckMoves

LEMMA DecideKeeps ==
  ASSUME CheckInv, NEW p \in Procs, check[p].pc \notin {"idle", "done"},
         NEW allow \in BOOLEAN,
         NEW from \in {"iam-resource-grant", "cache", "casdoor", "error"},
         check[p].deny = "held" \/ from = "error" => ~allow,
         Decide(p, allow, from), UNCHANGED <<now, world>>
  PROVE  /\ check' \in [Procs -> Check]
         /\ \A x \in Procs \ {p} : check'[x] = check[x]
         /\ (\A x \in Procs : CheckOK(check[x]))'
         /\ check'[p].q = check[p].q /\ check'[p].pc = "done"
         /\ check'[p].allow = allow /\ check'[p].from = from
<1> DEFINE r == [check[p] EXCEPT !.pc = "done", !.allow = allow, !.from = from,
                                 !.exp = 0, !.asked = 0]
<1>1. check[p] \in Check /\ CheckOK(check[p])
  BY DEF CheckInv, TypeOK
<1>2. r \in Check
  BY <1>1 DEF Check
<1>3. CheckOK(r)
  BY <1>1 DEF CheckOK, Check
<1>4. check' = [check EXCEPT ![p] = r]
  BY DEF Decide, CheckInv, TypeOK
<1>5. r.q = check[p].q /\ r.pc = "done" /\ r.allow = allow /\ r.from = from
  BY <1>1 DEF Check
<1> HIDE DEF r
<1> QED
  BY <1>2, <1>3, <1>4, <1>5, CheckMoves

(* A check at work: its steps keep the invariant, touch no other check and *)
(* do not change what is asked.                                            *)
Kept(p) ==
  /\ CheckInv'
  /\ \A x \in Procs \ {p} : check'[x] = check[x]
  /\ check'[p].q = check[p].q /\ check'[p].pc # "idle"
  /\ check[p].pc # "idle"

LEMMA AskIAMKeeps == ASSUME CheckInv, NEW p \in Procs, AskIAM(p) PROVE Kept(p)
<1> DEFINE v == verdict[check[p].q]
           next == IF CacheEnabled THEN "cache" ELSE "enforce"
<1>1. check[p] \in Check /\ CheckOK(check[p]) /\ check[p].pc = "iam"
      /\ UNCHANGED <<now, world, cache>>
  BY DEF CheckInv, TypeOK, AskIAM, At
<1>2. check[p].deny = "held" => v = "deny"
  BY <1>1 DEF CheckOK
<1>3. CASE v # "none" /\ Decide(p, v = "allow", "iam-resource-grant")
  BY <1>1, <1>2, <1>3, DecideKeeps, CacheStays DEF Kept
<1>4. CASE v = "none" /\ Goto(p, next)
  BY <1>1, <1>2, <1>4, GotoKeeps, CacheStays DEF Kept
<1>5. CASE check' = [check EXCEPT ![p].pc = next,
                       ![p].deny = IF @ = "held" THEN "unread" ELSE "no"]
  <2> DEFINE r == [check[p] EXCEPT !.pc = next,
                     !.deny = IF check[p].deny = "held" THEN "unread" ELSE "no"]
  <2>1. r \in Check
    BY <1>1 DEF Check
  <2>2. CheckOK(r)
    BY <1>1 DEF CheckOK, Check
  <2>3. check' = [check EXCEPT ![p] = r]
    BY <1>5 DEF CheckInv, TypeOK
  <2>4. r.q = check[p].q /\ r.pc # "idle"
    BY <1>1 DEF Check
  <2> HIDE DEF r
  <2> QED
    BY <1>1, <2>1, <2>2, <2>3, <2>4, CheckMoves, CacheStays DEF Kept
<1> QED
  BY <1>3, <1>4, <1>5 DEF AskIAM

LEMMA CacheReadKeeps == ASSUME CheckInv, NEW p \in Procs, CacheRead(p) PROVE Kept(p)
<1> DEFINE q == check[p].q
<1>1. check[p] \in Check /\ CheckOK(check[p]) /\ check[p].pc = "cache"
      /\ UNCHANGED <<now, world, cache>>
  BY DEF CheckInv, TypeOK, CacheRead, At
<1>2. check[p].deny # "held"
  BY <1>1 DEF CheckOK
<1>3. CASE Goto(p, "enforce")
  BY <1>1, <1>2, <1>3, GotoKeeps, CacheStays DEF Kept
<1>4. CASE /\ q \in DOMAIN cache
           /\ check' = [check EXCEPT ![p].pc = "judge", ![p].allow = cache[q].allow,
                                     ![p].exp = cache[q].exp]
  <2> DEFINE r == [check[p] EXCEPT !.pc = "judge", !.allow = cache[q].allow,
                                   !.exp = cache[q].exp]
  <2>1. cache[q] \in Entry /\ Dated(q, cache[q].allow, cache[q].exp)
    BY <1>4 DEF CheckInv, TypeOK, CacheIsDated
  <2>2. r \in Check
    BY <1>1, <2>1 DEF Check, Entry
  <2>3. r.pc = "judge" /\ r.q = q /\ r.allow = cache[q].allow /\ r.exp = cache[q].exp
        /\ r.deny = check[p].deny /\ r.from = check[p].from
    BY <1>1 DEF Check
  <2>4. check' = [check EXCEPT ![p] = r]
    BY <1>4 DEF CheckInv, TypeOK
  <2> HIDE DEF r
  <2>5. CheckOK(r)
    BY <1>1, <1>2, <2>1, <2>3 DEF CheckOK
  <2> QED
    BY <1>1, <2>2, <2>3, <2>4, <2>5, CheckMoves, CacheStays DEF Kept
<1> QED
  BY <1>3, <1>4 DEF CacheRead

LEMMA CacheJudgeKeeps == ASSUME CheckInv, NEW p \in Procs, CacheJudge(p) PROVE Kept(p)
<1>1. check[p] \in Check /\ CheckOK(check[p]) /\ check[p].pc = "judge"
      /\ UNCHANGED <<now, world, cache>>
  BY DEF CheckInv, TypeOK, CacheJudge, At
<1>2. check[p].deny # "held" /\ check[p].allow \in BOOLEAN
  BY <1>1 DEF CheckOK, Check
<1>3. CASE Decide(p, check[p].allow, "cache")
  BY <1>1, <1>2, <1>3, DecideKeeps, CacheStays DEF Kept
<1>4. CASE Goto(p, "drop")
  BY <1>1, <1>2, <1>4, GotoKeeps, CacheStays DEF Kept
<1> QED
  BY <1>3, <1>4 DEF CacheJudge

LEMMA CacheDropKeeps == ASSUME CheckInv, NEW p \in Procs, CacheDrop(p) PROVE Kept(p)
<1>1. check[p] \in Check /\ CheckOK(check[p]) /\ check[p].pc = "drop"
      /\ UNCHANGED <<now, world>> /\ Goto(p, "enforce")
  BY DEF CheckInv, TypeOK, CacheDrop, At
<1>2. check[p].deny # "held"
  BY <1>1 DEF CheckOK
<1>3. /\ DOMAIN cache' \subseteq DOMAIN cache
      /\ \A q \in DOMAIN cache' : cache'[q] = cache[q]
  BY DEF CacheDrop
<1>4. IsFiniteSet(DOMAIN cache') /\ WithinLimit'
  BY <1>3, FS_Subset, FS_CardinalityType, MaxEntriesAssumption DEF CheckInv, WithinLimit
<1>5. /\ check' \in [Procs -> Check]
      /\ \A x \in Procs \ {p} : check'[x] = check[x]
      /\ (\A x \in Procs : CheckOK(check[x]))'
      /\ check'[p].q = check[p].q /\ check'[p].pc = "enforce"
  BY <1>1, <1>2, GotoKeeps
<1>6. TypeOK' /\ CacheIsDated'
  BY <1>1, <1>3, <1>5 DEF CheckInv, TypeOK, CacheIsDated, Dated, world
<1> QED
  BY <1>1, <1>4, <1>5, <1>6 DEF CheckInv, Kept

LEMMA EnforceKeeps == ASSUME CheckInv, NEW p \in Procs, Enforce(p) PROVE Kept(p)
<1> DEFINE r == [check[p] EXCEPT !.pc = "reply", !.allow = policy[check[p].q], !.asked = now]
<1>1. check[p] \in Check /\ CheckOK(check[p]) /\ check[p].pc = "enforce"
      /\ UNCHANGED <<now, world, cache>> /\ check[p].q \in Questions
      /\ now \in Nat /\ policy[check[p].q] \in BOOLEAN
  BY DEF CheckInv, TypeOK, Enforce, At, CheckOK
<1>2. r \in Check
  BY <1>1 DEF Check
<1>3. r.pc = "reply" /\ r.q = check[p].q /\ r.allow = policy[check[p].q] /\ r.asked = now
      /\ r.deny = check[p].deny /\ r.from = check[p].from
  BY <1>1 DEF Check
<1>4. check' = [check EXCEPT ![p] = r]
  BY DEF Enforce, CheckInv, TypeOK
<1> HIDE DEF r
<1>5. CheckOK(r)
  BY <1>1, <1>3 DEF CheckOK
<1> QED
  BY <1>1, <1>2, <1>3, <1>4, <1>5, CheckMoves, CacheStays DEF Kept

LEMMA EnforceFailsKeeps == ASSUME CheckInv, NEW p \in Procs, EnforceFails(p) PROVE Kept(p)
BY DecideKeeps, CacheStays DEF EnforceFails, Kept

(* An answer that is cached now was given a Latency ago at the earliest.   *)
LEMMA EnforceAnswersKeeps ==
  ASSUME CheckInv, NEW p \in Procs, EnforceAnswers(p) PROVE Kept(p)
<1> DEFINE q == check[p].q
           allow == check[p].allow
<1>1. check[p] \in Check /\ CheckOK(check[p]) /\ check[p].pc = "reply"
      /\ UNCHANGED <<now, world>> /\ q \in Questions /\ allow \in BOOLEAN
      /\ now <= check[p].asked + Latency
      /\ Decide(p, allow, "casdoor")
  BY DEF CheckInv, TypeOK, EnforceAnswers, At, CheckOK, Check
<1>2. check[p].deny # "held"
  BY <1>1 DEF CheckOK
<1>3. /\ check' \in [Procs -> Check]
      /\ \A x \in Procs \ {p} : check'[x] = check[x]
      /\ (\A x \in Procs : CheckOK(check[x]))'
      /\ check'[p].q = check[p].q /\ check'[p].pc = "done"
  BY <1>1, <1>2, DecideKeeps
<1>4. CASE cache' = cache
  BY <1>1, <1>3, <1>4, CacheStays DEF Kept
<1>5. CASE Set(q, allow)
  <2>1. /\ DOMAIN cache' \subseteq DOMAIN cache \cup {q}
        /\ \A x \in DOMAIN cache' : cache'[x] = IF x = q THEN Fresh(allow) ELSE cache[x]
        /\ IsFiniteSet(DOMAIN cache')
        /\ Cardinality(DOMAIN cache') <= MaxEntries
    BY <1>1, <1>5, SetKeepsBounds
  <2>2. Fresh(allow) \in Entry /\ Fresh(allow).allow = allow
        /\ Fresh(allow).exp = now + CacheTTL
    BY <1>1, CacheTTLAssumption DEF Fresh, Entry, CheckInv, TypeOK
  <2>3. check[p].asked \in Nat /\ since[q] \in Nat /\ now \in Nat
        /\ (allow = policy[q] \/ check[p].asked <= since[q])
    BY <1>1 DEF CheckOK, Check, CheckInv, TypeOK
  <2>4. Dated(q, Fresh(allow).allow, Fresh(allow).exp)
    BY <1>1, <2>2, <2>3, CacheTTLAssumption, LatencyAssumption DEF Dated
  <2>5. CacheIsDated'
    BY <1>1, <2>1, <2>4 DEF CacheIsDated, CheckInv, Dated, world
  <2>6. TypeOK'
    BY <1>1, <1>3, <2>1, <2>2 DEF CheckInv, TypeOK, world
  <2> QED
    BY <1>1, <1>3, <2>1, <2>5, <2>6 DEF CheckInv, WithinLimit, Kept
<1> QED
  BY <1>4, <1>5 DEF EnforceAnswers

(* A decision is given.                                                    *)
LEMMA RespondKeeps ==
  ASSUME CheckInv, NEW p \in Procs, Respond(p)
  PROVE  CheckInv' /\ check'[p] = Idle /\ \A x \in Procs \ {p} : check'[x] = check[x]
<1>1. Idle \in Check /\ CheckOK(Idle)
  BY DEF Idle, Check, CheckOK
<1> QED
  BY <1>1, CheckMoves, CacheStays DEF Respond

(* The world changes: what was decided before is dated by the change.      *)
LEMMA ChangePolicyKeeps ==
  ASSUME CheckInv, NEW q \in Questions, ChangePolicy(q)
  PROVE  CheckInv' /\ check' = check
<1>1. UNCHANGED <<now, verdict, cache, check>> /\ since'[q] = now
      /\ \A x \in Questions \ {q} : since'[x] = since[x] /\ policy'[x] = policy[x]
  BY DEF ChangePolicy, CheckInv, TypeOK
<1>2. TypeOK'
  BY <1>1 DEF ChangePolicy, CheckInv, TypeOK
<1>3. \A x \in Questions, a \in BOOLEAN, e \in Nat : Dated(x, a, e) => Dated(x, a, e)'
  BY <1>1, LatencyAssumption, CacheTTLAssumption DEF Dated, CheckInv, TypeOK
<1>4. CacheIsDated'
  BY <1>1, <1>3 DEF CacheIsDated, CheckInv, TypeOK, Entry
<1>5. ASSUME NEW p \in Procs PROVE CheckOK(check[p])'
  <2>1. check[p] \in Check /\ CheckOK(check[p]) /\ check'[p] = check[p]
    BY <1>1 DEF CheckInv, TypeOK
  <2>2. check[p].allow \in BOOLEAN /\ check[p].exp \in Nat /\ check[p].asked \in Nat
    BY <2>1 DEF Check
  <2>3. check[p].pc = "judge" => Dated(check[p].q, check[p].allow, check[p].exp)'
    BY <1>3, <2>1, <2>2 DEF CheckOK
  <2>4. check[p].pc = "reply" =>
          /\ check[p].asked <= now'
          /\ check[p].allow = policy'[check[p].q] \/ check[p].asked <= since'[check[p].q]
    BY <1>1, <2>1 DEF CheckOK
  <2> QED
    BY <1>1, <2>1, <2>3, <2>4 DEF CheckOK
<1> QED
  BY <1>1, <1>2, <1>4, <1>5 DEF CheckInv, WithinLimit

LEMMA ChangeGrantsKeeps ==
  ASSUME CheckInv, NEW q \in Questions, ChangeGrants(q)
  PROVE  CheckInv' /\ \A p \in Procs : check'[p].pc = check[p].pc /\ check'[p].q = check[p].q
<1>1. UNCHANGED <<now, policy, since, cache>>
  BY DEF ChangeGrants
<1>2. verdict' \in [Questions -> {"none", "allow", "deny"}]
      /\ \A x \in Questions \ {q} : verdict'[x] = verdict[x]
  BY DEF ChangeGrants, CheckInv, TypeOK
<1>3. ASSUME NEW p \in Procs
      PROVE  /\ check'[p] \in Check /\ CheckOK(check[p])'
             /\ check'[p].pc = check[p].pc /\ check'[p].q = check[p].q
  <2> DEFINE c == check[p]
             r == [c EXCEPT !.deny = IF c.q = q THEN "no" ELSE c.deny]
  <2>1. c \in Check /\ CheckOK(c)
    BY DEF CheckInv, TypeOK
  <2>2. check'[p] = r
    BY DEF ChangeGrants, CheckInv, TypeOK
  <2>3. /\ r \in Check /\ r.pc = c.pc /\ r.q = c.q /\ r.allow = c.allow /\ r.exp = c.exp
        /\ r.asked = c.asked /\ r.from = c.from
        /\ r.deny = IF c.q = q THEN "no" ELSE c.deny
    BY <2>1 DEF Check
  <2>4. c.pc = "idle" => r = Idle
    BY <2>1 DEF CheckOK, Idle
  <2>5. r.deny = "held" => c.deny = "held" /\ c.q # q
    BY <2>3
  <2>6. r.deny = "held" => \/ r.pc = "iam" /\ verdict'[r.q] = "deny"
                           \/ r.pc = "done" /\ ~r.allow
    BY <1>2, <2>1, <2>3, <2>5 DEF CheckOK, Idle
  <2> HIDE DEF r
  <2>7. CheckOK(check[p])'
    BY <1>1, <2>1, <2>2, <2>3, <2>4, <2>6 DEF CheckOK, Dated
  <2> QED
    BY <2>2, <2>3, <2>7
<1>4. check' \in [Procs -> Check]
  BY <1>3 DEF ChangeGrants
<1>5. TypeOK' /\ CacheIsDated'
  BY <1>1, <1>2, <1>4 DEF CheckInv, TypeOK, CacheIsDated, Dated
<1> QED
  BY <1>1, <1>3, <1>5 DEF CheckInv, WithinLimit

LEMMA TickKeeps == ASSUME CheckInv, Tick PROVE CheckInv' /\ check' = check
<1>1. UNCHANGED <<world, cache, check>> /\ now' = now + 1 /\ now \in Nat
  BY DEF Tick, CheckInv, TypeOK
<1>2. TypeOK'
  BY <1>1 DEF CheckInv, TypeOK, world
<1>3. \A x \in Questions, a \in BOOLEAN, e \in Nat : Dated(x, a, e) => Dated(x, a, e)'
  BY <1>1, CacheTTLAssumption DEF Dated, world
<1>4. CacheIsDated'
  BY <1>1, <1>3 DEF CacheIsDated, CheckInv, TypeOK, Entry
<1>5. ASSUME NEW p \in Procs PROVE CheckOK(check[p])'
  <2>1. check[p] \in Check /\ CheckOK(check[p])
    BY DEF CheckInv, TypeOK
  <2>2. check[p].allow \in BOOLEAN /\ check[p].exp \in Nat /\ check[p].asked \in Nat
    BY <2>1 DEF Check
  <2>3. check[p].pc = "judge" => Dated(check[p].q, check[p].allow, check[p].exp)'
    BY <1>1, <1>3, <2>1, <2>2 DEF CheckOK
  <2> QED
    BY <1>1, <2>1, <2>2, <2>3 DEF CheckOK, world
<1> QED
  BY <1>1, <1>2, <1>4, <1>5 DEF CheckInv, WithinLimit

--------------------------------------------------------------------------------
(* The steps of a request's checks, and what they leave of the others.     *)
LEMMA WorkKeeps == ASSUME CheckInv, NEW p \in Procs, Work(p) PROVE Kept(p)
BY AskIAMKeeps, CacheReadKeeps, CacheJudgeKeeps, CacheDropKeeps, EnforceKeeps,
   EnforceFailsKeeps, EnforceAnswersKeeps DEF Work

(* RequestOK looks at a check for its question and whether it is at work.  *)
LEMMA RequestStays ==
  ASSUME NEW p \in Procs, RequestOK(p), request'[p] = request[p],
         check'[p].q = check[p].q, At(p, "idle") => At(p, "idle")'
  PROVE  RequestOK(p)'
BY DEF RequestOK, At, More, GivesUp, Failed

LEMMA InitInv == BatchInit => IInv
<1> SUFFICES ASSUME BatchInit PROVE IInv
  OBVIOUS
<1>1. CheckInv
  BY InitCheck DEF BatchInit
<1>2. NoRequest \in Request
  BY DEF NoRequest, Request
<1>3. \A p \in Procs : request[p] = NoRequest /\ At(p, "idle")
  BY DEF BatchInit, Init, At, Idle
<1>4. \A p \in Procs : RequestOK(p)
  BY <1>3 DEF RequestOK, NoRequest
<1> QED
  BY <1>1, <1>2, <1>4 DEF IInv, BatchInit

LEMMA ArriveKeeps == ASSUME IInv, NEW p \in Procs, Arrive(p) PROVE IInv'
<1>1. CheckInv' /\ check' = check
  BY DEF Arrive, IInv, CheckInv, TypeOK, WithinLimit, CacheIsDated, CheckOK, Dated, vars, world
<1>0. request[p] \in Request /\ request[p].out = << >>
  <2>1. request[p] = NoRequest /\ NoRequest.out = << >>
    BY DEF Arrive, NoRequest
  <2> QED
    BY <2>1 DEF IInv
<1>2. PICK r \in Request : r.out = << >> /\ request' = [request EXCEPT ![p] = r]
  <2>1. CASE \E q \in Questions : request' = [request EXCEPT ![p].asks = <<q>>]
    <3>1. PICK q \in Questions : request' = [request EXCEPT ![p].asks = <<q>>]
      BY <2>1
    <3> DEFINE r == [request[p] EXCEPT !.asks = <<q>>]
    <3>2. <<q>> \in Seq(Questions)
      OBVIOUS
    <3>3. r \in Request /\ r.out = << >>
      BY <1>0, <3>2 DEF Request
    <3>4. request' = [request EXCEPT ![p] = r]
      BY <3>1 DEF IInv
    <3> QED
      BY <3>3, <3>4
  <2>2. CASE \E qs \in Batches :
               request' = [request EXCEPT ![p].asks = qs, ![p].batch = TRUE]
    <3>1. PICK qs \in Batches :
            request' = [request EXCEPT ![p].asks = qs, ![p].batch = TRUE]
      BY <2>2
    <3> DEFINE r == [request[p] EXCEPT !.asks = qs, !.batch = TRUE]
    <3>2. qs \in Seq(Questions)
      BY BatchesAssumption
    <3>3. r \in Request /\ r.out = << >>
      BY <1>0, <3>2 DEF Request
    <3>4. request' = [request EXCEPT ![p] = r]
      BY <3>1 DEF IInv
    <3> QED
      BY <3>3, <3>4
  <2> QED
    BY <2>1, <2>2 DEF Arrive
<1>3. request' \in [Procs -> Request] /\ request'[p] = r
      /\ \A x \in Procs \ {p} : request'[x] = request[x]
  BY <1>2 DEF IInv
<1>4. At(p, "idle")
  <2>1. request[p] = NoRequest /\ ~More(p)
    BY DEF Arrive, More, NoRequest
  <2> QED
    BY <2>1 DEF IInv, RequestOK
<1>5. RequestOK(p)'
  BY <1>1, <1>2, <1>3, <1>4 DEF RequestOK, Request, At
<1>6. \A x \in Procs \ {p} : RequestOK(x)'
  BY <1>1, <1>3, RequestStays DEF IInv, At
<1> QED
  BY <1>1, <1>3, <1>5, <1>6 DEF IInv

LEMMA NextCheckKeeps == ASSUME IInv, NEW p \in Procs, NextCheck(p) PROVE IInv'
<1>1. CheckInv' /\ \A x \in Procs \ {p} : check'[x] = check[x]
  BY BeginKeeps DEF NextCheck, IInv
<1>2. request' = request /\ More(p) /\ ~GivesUp(p)
      /\ check'[p].q = request[p].asks[Len(request[p].out) + 1]
  BY DEF NextCheck
<1>3. RequestOK(p)'
  BY <1>2 DEF IInv, RequestOK, More, GivesUp, Failed
<1>4. \A x \in Procs \ {p} : RequestOK(x)'
  BY <1>1, <1>2, RequestStays DEF IInv, At
<1> QED
  BY <1>1, <1>2, <1>3, <1>4 DEF IInv

LEMMA DecidedKeeps == ASSUME IInv, NEW p \in Procs, Decided(p) PROVE IInv'
<1> DEFINE d == [q |-> check[p].q, allow |-> check[p].allow,
                 failed |-> check[p].from = "error"]
           out == request[p].out
           r == [request[p] EXCEPT !.out = Append(out, d)]
<1>1. CheckInv' /\ check'[p] = Idle /\ \A x \in Procs \ {p} : check'[x] = check[x]
  BY RespondKeeps DEF Decided, IInv
<1>2. check[p] \in Check /\ CheckOK(check[p]) /\ check[p].pc = "done"
  BY DEF IInv, CheckInv, TypeOK, Decided, Respond, At
<1>3. d \in Decision /\ ~(d.failed /\ d.allow) /\ d.q = check[p].q
  BY <1>2 DEF Check, CheckOK, Decision
<1>4. request[p] \in Request /\ out \in Seq(Decision) /\ request[p].asks \in Seq(Questions)
  BY DEF IInv, Request
<1>5. request' = [request EXCEPT ![p] = r]
  BY DEF Decided, IInv
<1> HIDE DEF d
<1>6. Append(out, d) \in Seq(Decision)
  BY <1>3, <1>4
<1>7. r \in Request /\ r.out = Append(out, d) /\ r.asks = request[p].asks
      /\ r.batch = request[p].batch
  BY <1>4, <1>6 DEF Request
<1> HIDE DEF r
<1>8. request' \in [Procs -> Request] /\ request'[p] = r
      /\ \A x \in Procs \ {p} : request'[x] = request[x]
  BY <1>5, <1>7 DEF IInv
<1>9. /\ Len(out) < Len(request[p].asks) /\ ~GivesUp(p)
      /\ check[p].q = request[p].asks[Len(out) + 1]
      /\ \A i \in DOMAIN out :
           out[i].q = request[p].asks[i] /\ ~(out[i].failed /\ out[i].allow)
      /\ FailClosed \/ ~request[p].batch =>
           \A i \in DOMAIN out : out[i].failed => i = Len(out)
  BY <1>2 DEF IInv, RequestOK, At, More
<1>10. /\ DOMAIN Append(out, d) = 1 .. Len(out) + 1
       /\ Len(Append(out, d)) = Len(out) + 1
       /\ Append(out, d)[Len(out) + 1] = d
       /\ \A i \in 1 .. Len(out) : Append(out, d)[i] = out[i]
       /\ DOMAIN out = 1 .. Len(out) /\ Len(out) \in Nat /\ Len(request[p].asks) \in Nat
  BY <1>3, <1>4
<1>11. FailClosed \/ ~request[p].batch => \A i \in DOMAIN out : ~out[i].failed
  BY <1>9, <1>10 DEF GivesUp, Failed
<1>12. RequestOK(p)'
  <2>1. Len(r.out) <= Len(r.asks)
    BY <1>7, <1>9, <1>10
  <2>2. ASSUME NEW i \in DOMAIN r.out
        PROVE  r.out[i].q = r.asks[i] /\ ~(r.out[i].failed /\ r.out[i].allow)
    BY <1>3, <1>7, <1>9, <1>10
  <2>3. FailClosed \/ ~r.batch => \A i \in DOMAIN r.out : r.out[i].failed => i = Len(r.out)
    BY <1>7, <1>10, <1>11
  <2>4. At(p, "idle")'
    BY <1>1 DEF At, Idle
  <2> QED
    BY <1>8, <2>1, <2>2, <2>3, <2>4 DEF RequestOK
<1>13. \A x \in Procs \ {p} : RequestOK(x)'
  BY <1>1, <1>8, RequestStays DEF IInv, At
<1> QED
  BY <1>1, <1>8, <1>12, <1>13 DEF IInv

LEMMA ReplyKeeps == ASSUME IInv, NEW p \in Procs, Reply(p) PROVE IInv'
<1>1. CheckInv' /\ check' = check
  BY DEF Reply, IInv, CheckInv, TypeOK, WithinLimit, CacheIsDated, CheckOK, Dated, vars, world
<1>2. NoRequest \in Request
  BY DEF NoRequest, Request
<1>3. request' \in [Procs -> Request] /\ request'[p] = NoRequest
      /\ \A x \in Procs \ {p} : request'[x] = request[x]
  BY <1>2 DEF Reply, IInv
<1>4. RequestOK(p)'
  BY <1>1, <1>3 DEF Reply, RequestOK, NoRequest, At
<1>5. \A x \in Procs \ {p} : RequestOK(x)'
  BY <1>1, <1>3, RequestStays DEF IInv, At
<1> QED
  BY <1>1, <1>3, <1>4, <1>5 DEF IInv

LEMMA ChangeKeeps == ASSUME IInv, Change PROVE IInv'
<1>1. CheckInv' /\ request' = request
      /\ \A p \in Procs : check'[p].pc = check[p].pc /\ check'[p].q = check[p].q
  BY ChangePolicyKeeps, ChangeGrantsKeeps, TickKeeps, VolatileAssumption DEF Change, IInv
<1>2. \A p \in Procs : RequestOK(p)'
  BY <1>1, RequestStays DEF IInv, At
<1> QED
  BY <1>1, <1>2 DEF IInv

LEMMA NextInv == IInv /\ [BatchNext]_batchVars => IInv'
<1> SUFFICES ASSUME IInv, [BatchNext]_batchVars PROVE IInv'
  OBVIOUS
<1>1. ASSUME NEW p \in Procs, Work(p) PROVE IInv'
  <2>1. Kept(p) /\ request' = request
    BY <1>1, WorkKeeps DEF IInv, Work
  <2>2. RequestOK(p)'
    BY <2>1, RequestStays DEF Kept, IInv, At
  <2>3. \A x \in Procs \ {p} : RequestOK(x)'
    BY <2>1, RequestStays DEF Kept, IInv, At
  <2> QED
    BY <2>1, <2>2, <2>3 DEF Kept, IInv
<1>2. CASE UNCHANGED batchVars
  <2>1. CheckInv'
    BY <1>2 DEF batchVars, IInv, CheckInv, TypeOK, WithinLimit, CacheIsDated, CheckOK,
                Dated, vars, world
  <2>2. \A p \in Procs : RequestOK(p)'
    BY <1>2, RequestStays DEF IInv, batchVars, vars, At
  <2> QED
    BY <1>2, <2>1, <2>2 DEF IInv, batchVars
<1> QED
  BY <1>1, <1>2, ArriveKeeps, NextCheckKeeps, DecidedKeeps, ReplyKeeps, ChangeKeeps
     DEF BatchNext

THEOREM InvHolds == BatchSpec => []IInv
<1> QED
  BY InitInv, NextInv, PTL DEF BatchSpec

(* A deny of the grants, if it could be read, is obeyed.                   *)
THEOREM DenyIsObeyed == BatchSpec => []DenyHolds
<1>1. IInv => DenyHolds
  BY DEF IInv, CheckInv, CheckOK, DenyHolds, At
<1> QED
  BY <1>1, InvHolds, PTL

(* A change of the policy takes effect after a cache lifetime and a        *)
(* latency, whatever checks overlap.                                       *)
THEOREM PolicyEffective == BatchSpec => PolicyTakesEffect
<1> DEFINE Effect ==
      \A p \in Procs : LET q == check[p].q IN
        /\ ~At(p, "done") /\ check'[p].pc = "done"
        /\ check'[p].from \in {"cache", "casdoor"}
        /\ Settled(q, CacheTTL + Latency)
        => check'[p].allow = policy[q]
<1>1. IInv /\ [BatchNext]_batchVars => [Effect]_vars
  <2> SUFFICES ASSUME IInv, [BatchNext]_batchVars, NEW p \in Procs,
                      ~At(p, "done"), check'[p].pc = "done",
                      check'[p].from \in {"cache", "casdoor"},
                      Settled(check[p].q, CacheTTL + Latency)
               PROVE  check'[p].allow = policy[check[p].q]
    BY DEF vars
  <2> DEFINE q == check[p].q
  <2>1. check[p] \in Check /\ CheckOK(check[p])
    BY DEF IInv, CheckInv, TypeOK
  <2>2. check[p].pc # "done" /\ now - since[q] > CacheTTL + Latency
    BY DEF At, Settled
  <2>3. CASE CacheJudge(p)
    <3>1. now <= check[p].exp /\ Decide(p, check[p].allow, "cache")
      <4>1. ~Goto(p, "drop")
        BY <2>1 DEF Goto, IInv, CheckInv, TypeOK, Check
      <4> QED
        BY <2>3, <4>1 DEF CacheJudge
    <3>2. check'[p].allow = check[p].allow
      BY <3>1, <2>1 DEF Decide, IInv, CheckInv, TypeOK, Check
    <3>3. Dated(q, check[p].allow, check[p].exp) /\ q \in Questions
      BY <2>1, <2>3 DEF CheckOK, CacheJudge, At
    <3>4. check[p].exp \in Nat /\ now \in Nat /\ since[q] \in Nat
      BY <2>1, <3>3 DEF Check, IInv, CheckInv, TypeOK
    <3> QED
      BY <2>2, <3>1, <3>2, <3>3, <3>4, CacheTTLAssumption, LatencyAssumption DEF Dated
  <2>4. CASE EnforceAnswers(p)
    <3>1. check'[p].allow = check[p].allow
      BY <2>1, <2>4 DEF EnforceAnswers, Decide, IInv, CheckInv, TypeOK, Check
    <3>2. /\ check[p].allow = policy[q] \/ check[p].asked <= since[q]
          /\ q \in Questions /\ now <= check[p].asked + Latency
      BY <2>1, <2>4 DEF CheckOK, EnforceAnswers, At
    <3>3. check[p].asked \in Nat /\ now \in Nat /\ since[q] \in Nat
      BY <2>1, <3>2 DEF Check, IInv, CheckInv, TypeOK
    <3> QED
      BY <2>2, <3>1, <3>2, <3>3, CacheTTLAssumption, LatencyAssumption
  <2>5. ASSUME NEW x \in Procs, Work(x) PROVE x = p /\ (CacheJudge(p) \/ EnforceAnswers(p))
    <3>1. Kept(x)
      BY <2>5, WorkKeeps DEF IInv
    <3>2. x = p
      BY <2>2, <3>1 DEF Kept
    <3>3. check[p].from = "none" \/ check[p].pc = "done"
      BY <2>1 DEF CheckOK
    <3>4. ~AskIAM(p) /\ ~CacheRead(p) /\ ~CacheDrop(p) /\ ~Enforce(p) /\ ~EnforceFails(p)
      BY <2>1, <2>2 DEF AskIAM, CacheRead, CacheDrop, Enforce, EnforceFails, Decide, Goto,
                   IInv, CheckInv, TypeOK, Check
    <3> QED
      BY <2>5, <3>2, <3>4 DEF Work
  <2>6. ASSUME NEW x \in Procs, NextCheck(x) PROVE FALSE
    <3>1. x = p
      BY <2>2, <2>6, BeginKeeps DEF NextCheck, IInv
    <3>2. check'[p].from \in {"none", "builtin-role", "error"}
      BY <2>6, <3>1 DEF NextCheck, Begin, Idle, IInv, CheckInv, TypeOK
    <3> QED
      BY <3>2
  <2>7. ASSUME NEW x \in Procs, Decided(x) PROVE FALSE
    BY <2>2, <2>7, RespondKeeps DEF Decided, Idle, IInv
  <2>8. ASSUME Change PROVE FALSE
    BY <2>2, <2>8, ChangePolicyKeeps, ChangeGrantsKeeps, TickKeeps, VolatileAssumption
       DEF Change, IInv
  <2>9. ASSUME NEW x \in Procs, Arrive(x) \/ Reply(x) PROVE FALSE
    BY <2>2, <2>9 DEF Arrive, Reply, vars
  <2>10. ASSUME UNCHANGED batchVars PROVE FALSE
    BY <2>2, <2>10 DEF batchVars, vars
  <2> QED
    BY <2>3, <2>4, <2>5, <2>6, <2>7, <2>8, <2>9, <2>10 DEF BatchNext
<1>2. BatchSpec => [][Effect]_vars
  BY <1>1, InvHolds, PTL DEF BatchSpec
<1> QED
  BY <1>2 DEF PolicyTakesEffect

(* A caller can tell from an answer what was decided.                      *)
THEOREM BatchTells == BatchSpec => BatchAnswersAll
<1> DEFINE Tells ==
      \A p \in Procs :
        LET asks == request[p].asks
            out == request[p].out
        IN request[p] # NoRequest /\ request'[p] = NoRequest =>
             /\ \A i \in DOMAIN out : out[i].q = asks[i] /\ ~(out[i].failed /\ out[i].allow)
             /\ Status(p) = 200 => Len(out) = Len(asks)
             /\ FailClosed =>
                  \A i \in DOMAIN out : out[i].failed = (Status(p) = 403 /\ i = Len(out))
<1>1. IInv /\ [BatchNext]_batchVars => [Tells]_batchVars
  <2> SUFFICES ASSUME IInv, BatchNext, NEW p \in Procs,
                      request[p] # NoRequest, request'[p] = NoRequest
               PROVE  LET asks == request[p].asks
                          out == request[p].out
                      IN /\ \A i \in DOMAIN out :
                              out[i].q = asks[i] /\ ~(out[i].failed /\ out[i].allow)
                         /\ Status(p) = 200 => Len(out) = Len(asks)
                         /\ FailClosed =>
                              \A i \in DOMAIN out :
                                out[i].failed = (Status(p) = 403 /\ i = Len(out))
    OBVIOUS
  <2> DEFINE asks == request[p].asks
             out == request[p].out
  <2>1. request[p] \in Request /\ RequestOK(p)
    BY DEF IInv
  <2>2. out \in Seq(Decision) /\ asks \in Seq(Questions)
    BY <2>1 DEF Request
  <2>3. Reply(p)
    <3>1. ASSUME NEW x \in Procs, Arrive(x) PROVE FALSE
      BY <3>1 DEF Arrive, IInv
    <3>2. ASSUME NEW x \in Procs, Decided(x) PROVE FALSE
      <4>1. x = p
        BY <3>2 DEF Decided, IInv
      <4>2. request'[p].out # << >>
        <5>1. request'[p].out = Append(out, [q |-> check[p].q, allow |-> check[p].allow,
                                             failed |-> check[p].from = "error"])
          BY <3>2, <4>1, <2>1 DEF Decided, IInv, Request
        <5> DEFINE d == [q |-> check[p].q, allow |-> check[p].allow,
                         failed |-> check[p].from = "error"]
        <5> HIDE DEF d
        <5>2. request'[p].out = Append(out, d)
          BY <5>1 DEF d
        <5>3. d \in Decision
          BY <3>2, <4>1 DEF d, Decision, Decided, Respond, At, IInv, CheckInv, TypeOK,
                            CheckOK, Check
        <5> QED
          BY <2>2, <5>2, <5>3
      <4> QED
        BY <4>2 DEF NoRequest
    <3>3. ASSUME NEW x \in Procs, NextCheck(x) \/ Work(x) PROVE FALSE
      BY <3>3 DEF NextCheck, Work
    <3>4. ASSUME Change PROVE FALSE
      BY <3>4 DEF Change
    <3>5. ASSUME NEW x \in Procs, Reply(x) PROVE x = p
      BY <3>5 DEF Reply, IInv
    <3> QED
      BY <3>1, <3>2, <3>3, <3>4, <3>5 DEF BatchNext
  <2>4. GivesUp(p) \/ Len(out) = Len(asks)
    BY <2>1, <2>2, <2>3 DEF Reply, More, RequestOK
  <2>5. (Status(p) = 403) <=> GivesUp(p)
    BY DEF Status
  <2>6. (Status(p) = 200) <=> ~GivesUp(p)
    BY DEF Status
  <2>7. ASSUME FailClosed, NEW i \in DOMAIN out
        PROVE  out[i].failed = (Status(p) = 403 /\ i = Len(out))
    <3>1. out[i] \in Decision
      BY <2>2, <2>7
    <3>2. out # << >> /\ i \in 1 .. Len(out) /\ out[i].failed \in BOOLEAN
      BY <2>2, <2>7, <3>1 DEF Decision
    <3>3. out[i].failed => i = Len(out)
      BY <2>1, <2>7 DEF RequestOK
    <3>4. GivesUp(p) <=> out[Len(out)].failed
      BY <2>7, <3>2 DEF GivesUp, Failed
    <3> QED
      BY <2>5, <3>2, <3>3, <3>4
  <2> QED
    BY <2>1, <2>4, <2>6, <2>7 DEF RequestOK
<1>2. BatchSpec => [][Tells]_batchVars
  BY <1>1, InvHolds, PTL DEF BatchSpec
<1> QED
  BY <1>2 DEF BatchAnswersAll

--------------------------------------------------------------------------------
(***************************************************************************)
(* The Casdoor client: how late the token of a question may be when it     *)
(* reaches Casdoor, for any number of goroutines, any lifetimes, margin    *)
(* and timeouts: TokenTimely.  The inductive invariant is TokenInv.        *)
(* Its clause GoodForAll says more than TokenTimely does, that the token   *)
(* outlives the attempts that are left; CachedInTime gives it to a call    *)
(* that finds the token in the cache, JustIssued to one that has just      *)
(* fetched it.                                                             *)
(***************************************************************************)
USE DEF MaxAttempts

LEMMA Restful ==
  /\ \A k \in 0 .. 2 : Rest(k) \in Nat /\ Timeout <= Rest(k)
  /\ Rest(0) = 3 * Timeout + 3 * Backoff
  /\ \A k \in 0 .. 1 : Timeout + (k + 1) * Backoff + Rest(k + 1) <= Rest(k)
<1>1. /\ Rest(0) = 3 * Timeout + 3 * Backoff
      /\ Rest(1) = 2 * Timeout + 2 * Backoff
      /\ Rest(2) = Timeout
  BY DEF Rest
<1>2. /\ Timeout + 1 * Backoff + Rest(1) <= Rest(0)
      /\ Timeout + 2 * Backoff + Rest(2) <= Rest(1)
  BY <1>1, TimeoutAssumption
<1>3. \A k \in 0 .. 1 : Timeout + (k + 1) * Backoff + Rest(k + 1) <= Rest(k)
  <2> SUFFICES ASSUME NEW k \in 0 .. 1
               PROVE  Timeout + (k + 1) * Backoff + Rest(k + 1) <= Rest(k)
    OBVIOUS
  <2>1. CASE k = 0
    BY <1>2, <2>1
  <2>2. CASE k = 1
    BY <1>2, <2>2
  <2> QED
    BY <2>1, <2>2
<1>4. \A k \in 0 .. 2 : Rest(k) \in Nat /\ Timeout <= Rest(k)
  BY <1>1, TimeoutAssumption
<1> QED
  BY <1>1, <1>3, <1>4

LEMMA LastsType == \A life \in Int : Lasts(life) \in Nat /\ Lasts(life) > 0
BY LifetimesAssumption DEF Lasts

LEMMA LatestType == \A tok \in Token : Latest(tok) \in Int
BY TimeoutAssumption, MarginAssumption DEF Latest, Token

(* What a call is made of when it is started.                              *)
LEMMA SendType ==
  ASSUME NEW for \in {"token", "decision"}, NEW tok \in Token, clock \in Nat
  PROVE  Send(for, tok) \in Call
BY DEF Send, Call

LEMMA NoCallType == NoCall \in Call /\ NoToken \in Token
BY DEF NoCall, Call, NoToken, Token

LEMMA TokenInitInv == TokenInit => TokenInv
<1> SUFFICES ASSUME TokenInit PROVE TokenInv
  OBVIOUS
<1>1. TokenTypeOK
  BY NoCallType DEF TokenInit, TokenTypeOK
<1>2. Punctual /\ GoodForAll /\ JustIssued
  BY DEF TokenInit, Punctual, GoodForAll, JustIssued, NoCall
<1>3. CachedInTime
  BY DEF TokenInit, CachedInTime
<1> QED
  BY <1>1, <1>2, <1>3 DEF TokenInv

(* A step of one goroutine that leaves the clock and the cache alone keeps *)
(* the invariant if the goroutine's call, as it is afterwards, is in order.*)
LEMMA CallKeepsTokenInv ==
  ASSUME TokenInv, NEW p \in Callers, NEW new \in Call,
         call' = [call EXCEPT ![p] = new],
         UNCHANGED clock,
         cached' \in [tok : Token, exp : Nat],
         CachedInTime',
         new.pc = "pause" => clock <= new.at,
         new.pc \in {"sent", "served"} => clock <= new.at + Timeout,
         new.pc = "sent" => new.at <= clock,
         new.pc # "idle" /\ new.for = "decision"
           => new.at + Rest(new.tries) < Latest(new.tok),
         new.pc = "served" /\ new.for = "token"
           => new.at + Lasts(new.tok.life) <= new.tok.until
  PROVE  TokenInv'
<1>1. TokenTypeOK'
  BY DEF TokenInv, TokenTypeOK
<1>2. \A q \in Callers : call'[q] = IF q = p THEN new ELSE call[q]
  BY DEF TokenInv, TokenTypeOK
<1>3. Punctual'
  <2>1. new.pc \in {"idle", "sent", "served", "pause"}
    BY DEF Call
  <2> QED
    BY <1>2, <2>1 DEF TokenInv, Punctual, Due
<1>4. GoodForAll'
  BY <1>2 DEF TokenInv, GoodForAll
<1>5. JustIssued'
  BY <1>2 DEF TokenInv, JustIssued
<1> QED
  BY <1>1, <1>3, <1>4, <1>5 DEF TokenInv

(* What the invariant says of one call, and of the cache.                  *)
LEMMA TokenInvOf ==
  ASSUME TokenInv, NEW p \in Callers
  PROVE  /\ clock \in Nat
         /\ cached \in [tok : Token, exp : Nat]
         /\ call[p] \in Call
         /\ call[p].pc # "idle" => clock <= Due(p)
         /\ call[p].pc = "sent" => call[p].at <= clock
         /\ call[p].pc # "idle" /\ call[p].for = "decision"
              => call[p].at + Rest(call[p].tries) < Latest(call[p].tok)
         /\ call[p].pc = "served" /\ call[p].for = "token"
              => call[p].at + Lasts(call[p].tok.life) <= call[p].tok.until
         /\ CachedInTime
BY DEF TokenInv, TokenTypeOK, Punctual, GoodForAll, JustIssued

LEMMA BeginEnforceInv ==
  ASSUME TokenInv, NEW p \in Callers, BeginEnforce(p)
  PROVE  TokenInv'
<1>1. clock \in Nat /\ cached \in [tok : Token, exp : Nat] /\ CachedInTime
  BY TokenInvOf
<1>2. UNCHANGED clock /\ cached' = cached /\ CachedInTime'
  BY <1>1 DEF BeginEnforce, CachedInTime
<1>3. CASE clock < cached.exp /\ call' = [call EXCEPT ![p] = Send("decision", cached.tok)]
  <2> DEFINE new == Send("decision", cached.tok)
  <2>1. new \in Call
    BY <1>1, SendType
  <2>2. /\ new.pc = "sent" /\ new.for = "decision" /\ new.tok = cached.tok
        /\ new.tries = 0 /\ new.at = clock
    BY DEF Send
  <2>3. clock + Rest(0) < Latest(cached.tok)
    BY <1>1, <1>3, Restful, LatestType DEF CachedInTime
  <2>4. call' = [call EXCEPT ![p] = new]
    BY <1>3
  <2> HIDE DEF new
  <2>5. clock <= new.at + Timeout /\ new.at <= clock
    BY <1>1, <2>2, TimeoutAssumption
  <2> QED
    BY <1>1, <1>2, <2>1, <2>2, <2>3, <2>4, <2>5, CallKeepsTokenInv
<1>4. CASE call' = [call EXCEPT ![p] = Send("token", NoToken)]
  <2> DEFINE new == Send("token", NoToken)
  <2>1. new \in Call
    BY <1>1, SendType, NoCallType
  <2>2. new.pc = "sent" /\ new.for = "token" /\ new.at = clock
    BY DEF Send
  <2>3. call' = [call EXCEPT ![p] = new]
    BY <1>4
  <2> HIDE DEF new
  <2>4. clock <= new.at + Timeout /\ new.at <= clock
    BY <1>1, <2>2, TimeoutAssumption
  <2> QED
    BY <1>1, <1>2, <2>1, <2>2, <2>3, <2>4, CallKeepsTokenInv
<1> QED
  BY <1>3, <1>4 DEF BeginEnforce

LEMMA CasdoorServesInv ==
  ASSUME TokenInv, NEW p \in Callers, CasdoorServes(p)
  PROVE  TokenInv'
<1>1. /\ clock \in Nat /\ cached \in [tok : Token, exp : Nat] /\ call[p] \in Call
      /\ call[p].pc = "sent" /\ clock <= call[p].at + Timeout /\ call[p].at <= clock
      /\ call[p].for = "decision"
           => call[p].at + Rest(call[p].tries) < Latest(call[p].tok)
  BY TokenInvOf DEF CasdoorServes, Due
<1>2. UNCHANGED clock /\ cached' = cached /\ CachedInTime'
  BY TokenInvOf DEF CasdoorServes, CachedInTime
<1>3. CASE call[p].for = "decision" /\ call' = [call EXCEPT ![p].pc = "served"]
  <2> DEFINE new == [call[p] EXCEPT !.pc = "served"]
  <2>1. new \in Call
    BY <1>1 DEF Call
  <2>2. /\ new.pc = "served" /\ new.for = "decision" /\ new.tok = call[p].tok
        /\ new.tries = call[p].tries /\ new.at = call[p].at
    BY <1>1, <1>3 DEF Call
  <2>3. call' = [call EXCEPT ![p] = new]
    BY <1>3
  <2> HIDE DEF new
  <2> QED
    BY <1>1, <1>2, <1>3, <2>1, <2>2, <2>3, CallKeepsTokenInv
<1>4. CASE /\ call[p].for = "token"
           /\ \E life \in Lifetimes :
                call' = [call EXCEPT ![p].pc = "served",
                                     ![p].tok = [life |-> life, until |-> clock + Lasts(life)]]
  <2>1. PICK life \in Lifetimes :
          call' = [call EXCEPT ![p].pc = "served",
                               ![p].tok = [life |-> life, until |-> clock + Lasts(life)]]
    BY <1>4
  <2>2. life \in Int /\ Lasts(life) \in Nat
    BY LifetimesAssumption, LastsType
  <2> DEFINE tok == [life |-> life, until |-> clock + Lasts(life)]
             new == [call[p] EXCEPT !.pc = "served", !.tok = tok]
  <2>3. tok \in Token
    BY <1>1, <2>2 DEF Token
  <2>4. new \in Call
    BY <1>1, <2>3 DEF Call
  <2>5. /\ new.pc = "served" /\ new.for = "token" /\ new.at = call[p].at
        /\ new.tok.life = life /\ new.tok.until = clock + Lasts(life)
    BY <1>1, <1>4 DEF Call
  <2>6. call' = [call EXCEPT ![p] = new]
    BY <2>1
  <2> HIDE DEF new, tok
  <2>7. call[p].at \in Nat
    BY <1>1 DEF Call
  <2>8. new.at + Lasts(new.tok.life) <= new.tok.until
    BY <1>1, <2>2, <2>5, <2>7
  <2> QED
    BY <1>1, <1>2, <2>2, <2>4, <2>5, <2>6, <2>8, CallKeepsTokenInv
<1> QED
  BY <1>3, <1>4 DEF CasdoorServes

(* A token that has just arrived is good for a whole call, and once cached *)
(* for every call that may still find it there.                            *)
LEMMA FreshToken ==
  ASSUME TokenInv, NEW p \in Callers, call[p].pc = "served", call[p].for = "token"
  PROVE  LET tok == call[p].tok
         IN  /\ Expiry(tok.life) \in Nat
             /\ Expiry(tok.life) > clock
             /\ clock + Rest(0) < Latest(tok)
             /\ Expiry(tok.life) + Rest(0) <= Latest(tok)
<1> DEFINE ttl == Lasts(call[p].tok.life)
<1>1. /\ clock \in Nat /\ call[p].at \in Nat
      /\ ttl \in Nat /\ ttl > 0 /\ call[p].tok.until \in Nat
      /\ clock <= call[p].at + Timeout
      /\ call[p].at + ttl <= call[p].tok.until
  <2>1. call[p] \in Call /\ call[p].tok.life \in Int /\ call[p].tok.until \in Nat
    BY TokenInvOf DEF Call, Token
  <2> QED
    BY <2>1, TokenInvOf, LastsType DEF Due, Call
<1>2. Rest(0) = 3 * Timeout + 3 * Backoff
  BY Restful
<1>3. /\ Expiry(call[p].tok.life) = IF ttl <= Margin THEN clock + ttl ELSE clock + ttl - Margin
      /\ Latest(call[p].tok) = call[p].tok.until + 4 * Timeout + 3 * Backoff
                                 - (IF ttl > Margin THEN Margin ELSE 0)
  BY DEF Expiry, Latest
<1> HIDE DEF ttl
<1> QED
  BY <1>1, <1>2, <1>3, TimeoutAssumption, MarginAssumption

LEMMA TokenArrivesInv ==
  ASSUME TokenInv, NEW p \in Callers, TokenArrives(p)
  PROVE  TokenInv'
<1> DEFINE tok == call[p].tok
           new == Send("decision", tok)
<1>1. clock \in Nat /\ tok \in Token
  BY TokenInvOf DEF Call
<1>2. /\ Expiry(tok.life) \in Nat
      /\ clock + Rest(0) < Latest(tok)
      /\ Expiry(tok.life) + Rest(0) <= Latest(tok)
  BY FreshToken DEF TokenArrives
<1>3. /\ UNCHANGED clock
      /\ cached' = [tok |-> tok, exp |-> Expiry(tok.life)]
      /\ call' = [call EXCEPT ![p] = new]
  BY DEF TokenArrives
<1>4. cached' \in [tok : Token, exp : Nat] /\ CachedInTime'
  BY <1>1, <1>2, <1>3 DEF CachedInTime
<1>5. new \in Call
  BY <1>1, SendType
<1>6. /\ new.pc = "sent" /\ new.for = "decision" /\ new.tok = tok
      /\ new.tries = 0 /\ new.at = clock
  BY DEF Send
<1> HIDE DEF new, tok
<1>7. clock <= new.at + Timeout /\ new.at <= clock
  BY <1>1, <1>6, TimeoutAssumption
<1> QED
  BY <1>1, <1>2, <1>3, <1>4, <1>5, <1>6, <1>7, CallKeepsTokenInv

(* An answer, or the end of a call that got none.                          *)
LEMMA NoCallInv ==
  ASSUME TokenInv, NEW p \in Callers, call' = [call EXCEPT ![p] = NoCall], UNCHANGED <<clock, cached>>
  PROVE  TokenInv'
<1>1. cached' \in [tok : Token, exp : Nat] /\ CachedInTime'
  BY TokenInvOf DEF CachedInTime
<1>2. NoCall.pc = "idle"
  BY DEF NoCall
<1> QED
  BY <1>1, <1>2, NoCallType, CallKeepsTokenInv

LEMMA BreakInv ==
  ASSUME TokenInv, NEW p \in Callers, Break(p)
  PROVE  TokenInv'
<1>1. CASE /\ call[p].tries + 1 < MaxAttempts
           /\ call' = [call EXCEPT ![p].pc = "pause", ![p].tries = @ + 1,
                         ![p].at = clock + (call[p].tries + 1) * Backoff]
  <2> DEFINE k == call[p].tries
             pause == (k + 1) * Backoff
             new == [call[p] EXCEPT !.pc = "pause", !.tries = @ + 1, !.at = clock + pause]
  <2>1. /\ clock \in Nat /\ call[p] \in Call /\ call[p].at \in Nat /\ call[p].tok \in Token
        /\ clock <= call[p].at + Timeout
        /\ call[p].for = "decision"
             => call[p].at + Rest(k) < Latest(call[p].tok)
    BY TokenInvOf DEF Break, Due, Call
  <2>2. k \in 0 .. 1
    BY <1>1, <2>1 DEF Call
  <2>3. pause \in Nat
    <3>1. k = 0 => pause = Backoff
      BY TimeoutAssumption
    <3>2. k = 1 => pause = 2 * Backoff
      BY TimeoutAssumption
    <3> QED
      BY <2>2, <3>1, <3>2, TimeoutAssumption
  <2>4. Timeout + pause + Rest(k + 1) <= Rest(k) /\ Rest(k) \in Nat /\ Rest(k + 1) \in Nat
    BY <2>2, Restful
  <2>5. /\ new.pc = "pause" /\ new.for = call[p].for /\ new.tok = call[p].tok
        /\ new.tries = k + 1 /\ new.at = clock + pause
    BY <2>1 DEF Call
  <2>6. k + 1 \in 0 .. MaxAttempts - 1 /\ clock + pause \in Nat
    BY <2>1, <2>2, <2>3
  <2>7. call' = [call EXCEPT ![p] = new]
    BY <1>1
  <2>8. new \in Call
    <3> HIDE DEF pause
    <3> QED
      BY <2>1, <2>6 DEF Call
  <2> HIDE DEF pause, k
  <2> HIDE DEF new
  <2>9. Latest(call[p].tok) \in Int
    BY <2>1, LatestType
  <2>10. call[p].for = "decision"
           => clock + pause + Rest(k + 1) < Latest(call[p].tok)
    BY <2>1, <2>3, <2>4, <2>9, TimeoutAssumption
  <2>11. clock <= clock + pause
    BY <2>1, <2>3
  <2>12. UNCHANGED clock /\ cached' \in [tok : Token, exp : Nat] /\ CachedInTime'
    BY TokenInvOf DEF Break, CachedInTime
  <2> QED
    BY <2>5, <2>7, <2>8, <2>10, <2>11, <2>12, CallKeepsTokenInv
<1>2. CASE call' = [call EXCEPT ![p] = NoCall]
  BY <1>2, NoCallInv DEF Break
<1> QED
  BY <1>1, <1>2 DEF Break

LEMMA ResumeInv ==
  ASSUME TokenInv, NEW p \in Callers, Resume(p)
  PROVE  TokenInv'
<1> DEFINE new == [call[p] EXCEPT !.pc = "sent"]
<1>1. /\ clock \in Nat /\ call[p] \in Call /\ call[p].pc = "pause" /\ call[p].at \in Nat
      /\ clock >= call[p].at /\ clock <= call[p].at
      /\ call[p].for = "decision"
           => call[p].at + Rest(call[p].tries) < Latest(call[p].tok)
  BY TokenInvOf DEF Resume, Due, Call
<1>2. UNCHANGED clock /\ cached' \in [tok : Token, exp : Nat] /\ CachedInTime'
  BY TokenInvOf DEF Resume, CachedInTime
<1>3. new \in Call
  BY <1>1 DEF Call
<1>4. /\ new.pc = "sent" /\ new.for = call[p].for /\ new.tok = call[p].tok
      /\ new.tries = call[p].tries /\ new.at = call[p].at
  BY <1>1 DEF Call
<1>5. call' = [call EXCEPT ![p] = new]
  BY DEF Resume
<1> HIDE DEF new
<1>6. clock <= new.at + Timeout
  BY <1>1, <1>4, TimeoutAssumption
<1> QED
  BY <1>1, <1>2, <1>3, <1>4, <1>5, <1>6, CallKeepsTokenInv

LEMMA TimePassesInv ==
  ASSUME TokenInv, TimePasses
  PROVE  TokenInv'
<1>1. clock \in Nat /\ clock' = clock + 1 /\ call' = call /\ cached' = cached
  BY DEF TimePasses, TokenInv, TokenTypeOK
<1>2. TokenTypeOK'
  BY <1>1 DEF TokenInv, TokenTypeOK
<1>3. Punctual'
  <2> SUFFICES ASSUME NEW p \in Callers
               PROVE  /\ call[p].pc # "idle" => clock + 1 <= Due(p)
                      /\ call[p].pc = "sent" => call[p].at <= clock + 1
    BY <1>1 DEF Punctual, Due
  <2>1. call[p].at \in Nat
    BY TokenInvOf DEF Call
  <2>2. Due(p) \in Nat
    BY <2>1, TimeoutAssumption DEF Due
  <2> QED
    BY <1>1, <2>1, <2>2, TokenInvOf DEF TimePasses
<1>4. GoodForAll' /\ JustIssued' /\ CachedInTime'
  BY <1>1 DEF TokenInv, GoodForAll, JustIssued, CachedInTime
<1> QED
  BY <1>2, <1>3, <1>4 DEF TokenInv

LEMMA TokenNextInv == TokenInv /\ [TokenNext]_tokenVars => TokenInv'
<1> SUFFICES ASSUME TokenInv, [TokenNext]_tokenVars PROVE TokenInv'
  OBVIOUS
<1>1. ASSUME NEW p \in Callers, EnforceStep(p) PROVE TokenInv'
  BY <1>1, BeginEnforceInv, CasdoorServesInv, TokenArrivesInv, NoCallInv, BreakInv, ResumeInv
     DEF EnforceStep, Finish
<1>2. CASE TimePasses
  BY <1>2, TimePassesInv
<1>3. CASE UNCHANGED tokenVars
  BY <1>3 DEF tokenVars, TokenInv, TokenTypeOK, Punctual, Due, GoodForAll, JustIssued, CachedInTime
<1> QED
  BY <1>1, <1>2, <1>3 DEF TokenNext

(* The invariant holds throughout.                                         *)
THEOREM TokenInvHolds == TokenSpec => []TokenInv
BY TokenInitInv, TokenNextInv, PTL DEF TokenSpec

(* The clock, the cache and the calls keep their types.                    *)
THEOREM TokensTyped == TokenSpec => []TokenTypeOK
BY TokenInvHolds, PTL DEF TokenInv

(* clientCredentialsToken and doJSON: how late the token of a question may *)
(* be when it reaches Casdoor, whatever attempt that is.                   *)
THEOREM Timely == TokenSpec => []TokenTimely
<1>1. TokenInv => TokenTimely
  <2> SUFFICES ASSUME TokenInv, NEW p \in Callers, call[p].pc = "sent", call[p].for = "decision"
               PROVE  clock < Latest(call[p].tok)
    BY DEF TokenTimely
  <2>1. /\ call[p] \in Call
        /\ clock <= call[p].at + Timeout
        /\ call[p].at + Rest(call[p].tries) < Latest(call[p].tok)
    BY TokenInvOf DEF Due
  <2>2. call[p].at \in Nat /\ call[p].tries \in 0 .. 2 /\ call[p].tok \in Token
    BY <2>1 DEF Call
  <2>3. Rest(call[p].tries) \in Nat /\ Timeout <= Rest(call[p].tries)
    BY <2>2, Restful
  <2>4. Latest(call[p].tok) \in Int /\ clock \in Nat
    BY <2>2, LatestType, TokenInvOf
  <2> QED
    BY <2>1, <2>2, <2>3, <2>4, TimeoutAssumption
<1> QED
  BY <1>1, TokenInvHolds, PTL

(* clientCredentialsToken: a token that is cached can be used from there.  *)
THEOREM CacheIsOfUse == TokenSpec => CachedIsOfUse
<1>1. TokenInv /\ [TokenNext]_tokenVars => [cached' # cached => clock < cached'.exp]_tokenVars
  <2> SUFFICES ASSUME TokenInv, TokenNext, cached' # cached
               PROVE  clock < cached'.exp
    OBVIOUS
  <2>1. PICK p \in Callers : TokenArrives(p)
    BY DEF TokenNext, EnforceStep, BeginEnforce, CasdoorServes, Finish, Break, Resume, TimePasses
  <2>2. Expiry(call[p].tok.life) \in Nat /\ Expiry(call[p].tok.life) > clock
    BY <2>1, FreshToken DEF TokenArrives
  <2>3. clock \in Nat
    BY DEF TokenInv, TokenTypeOK
  <2> QED
    BY <2>1, <2>2, <2>3 DEF TokenArrives
<1> QED
  BY <1>1, TokenInvHolds, PTL DEF TokenSpec, CachedIsOfUse
================================================================================
