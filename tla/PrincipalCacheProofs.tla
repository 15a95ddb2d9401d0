--------------------------- MODULE PrincipalCacheProofs ---------------------------
(***************************************************************************)
(* A session that is over lets nobody into the application for longer than *)
(* the life of a cache entry and one exchange with the auth service, and   *)
(* no permission outlives the policy by more than the age of the service's *)
(* decisions and one exchange: for any number of requests and sessions,    *)
(* any cache life, any age of decisions and any timeout.                   *)
(* The inductive invariant is IInv: an answer under way, a cache entry and *)
(* a request past the middleware each rest on a session that was open when *)
(* the question was asked, or later.                                       *)
(***************************************************************************)
EXTENDS PrincipalCache, TLAPS

(* The steps of the service leave the cache and the clock alone, and those *)
(* of the middleware the histories.                                        *)
LEMMA IdleType == Idle \in Call /\ Auth!Quiet \in Auth!Query
BY DEF Idle, Call, Auth!Quiet, Auth!Query

LEMMA InitInv == Init => IInv
<1> SUFFICES ASSUME Init PROVE IInv
  OBVIOUS
<1>1. TypeOK
  BY IdleType, TimesAssumption DEF Init, TypeOK, Auth!Status, Never
<1>2. HistoryIsCurrent /\ Punctual /\ AnswersAreRecent /\ CacheIsRecent /\ ChecksAreRecent
  BY TimesAssumption DEF Init, Never, HistoryIsCurrent, Punctual, AnswersAreRecent,
     CacheIsRecent, ChecksAreRecent, At, Idle
<1> QED
  BY <1>1, <1>2 DEF IInv

(* What the invariant says of one request.                                 *)
LEMMA InvOf ==
  ASSUME IInv, NEW p \in Procs
  PROVE  /\ now \in Nat /\ CacheTTL \in Nat /\ Latency \in Nat
         /\ call[p] \in Call /\ query[p] \in Auth!Query
         /\ ~At(p, "idle") => call[p].sid \in Ids /\ call[p].at <= now /\ InTime(p)
         /\ \A s \in Ids : lastOpen[s] \in Nat /\ lastAllowed[s] \in Int
BY TimesAssumption DEF IInv, TypeOK, Punctual

(* A request and the question it waits for in order, and so the cache.     *)
RequestInOrder(new, q) ==
  /\ new.pc # "idle" => new.sid \in Ids /\ new.at <= now
  /\ new.pc \in {"asked", "checking", "judged"} => now <= new.at + Latency
  /\ new.pc = "admitted" => now <= new.at
  /\ new.pc = "asked" =>
       /\ q.sid = new.sid
       /\ q.phase = "seen" \/ q.ans = "active" => new.at <= lastOpen[new.sid]
  /\ new.pc \in {"admitted", "checking", "judged"} =>
       /\ new.at <= lastOpen[new.sid] + CacheTTL + Latency
       /\ new.ok => new.at <= lastAllowed[new.sid] + DecisionAge

CacheInOrder(entries) ==
  /\ DOMAIN entries \subseteq Ids
  /\ \A s \in DOMAIN entries :
       entries[s] \in Nat /\ entries[s] <= lastOpen[s] + CacheTTL + Latency

Histories == <<now, status, allowed, lastOpen, lastAllowed>>

(* A step of the middleware that leaves the service's questions alone, or  *)
(* takes one that nobody else waits for, keeps the invariant if the        *)
(* request, as it is afterwards, and the cache are in order.               *)
LEMMA RequestKeepsInv ==
  ASSUME IInv, NEW p \in Procs, NEW new \in Call, NEW q \in Auth!Query,
         call' = [call EXCEPT ![p] = new],
         query' = [query EXCEPT ![p] = q],
         UNCHANGED Histories,
         CacheInOrder(cache'), RequestInOrder(new, q)
  PROVE  IInv'
<1>1. TypeOK'
  BY DEF IInv, TypeOK, CacheInOrder, Histories
<1>2. \A x \in Procs : /\ call'[x] = IF x = p THEN new ELSE call[x]
                       /\ query'[x] = IF x = p THEN q ELSE query[x]
  BY DEF IInv, TypeOK
<1>3. HistoryIsCurrent'
  BY DEF IInv, HistoryIsCurrent, Histories
<1>4. Punctual'
  <2>1. now \in Nat
    BY DEF IInv, TypeOK
  <2>2. new.pc \in {"idle", "asked", "admitted", "checking", "judged", "served"}
    BY DEF Call
  <2> QED
    BY <1>2, <2>1, <2>2 DEF IInv, Punctual, At, InTime, RequestInOrder, Histories
<1>5. AnswersAreRecent'
  BY <1>2 DEF IInv, AnswersAreRecent, At, RequestInOrder, Histories
<1>6. CacheIsRecent'
  BY DEF CacheIsRecent, CacheInOrder, Histories
<1>7. ChecksAreRecent'
  BY <1>2 DEF IInv, ChecksAreRecent, RequestInOrder, Histories
<1> QED
  BY <1>1, <1>3, <1>4, <1>5, <1>6, <1>7 DEF IInv

(* The cache as it is, and less of it, is in order.                        *)
LEMMA CacheOf == IInv => CacheInOrder(cache)
BY DEF IInv, TypeOK, CacheIsRecent, CacheInOrder

LEMMA SameQuery == IInv => \A p \in Procs : query = [query EXCEPT ![p] = query[p]]
BY DEF IInv, TypeOK

(* The end of a request.                                                   *)
LEMMA EndInv ==
  ASSUME IInv, NEW p \in Procs, NEW q \in Auth!Query,
         call' = [call EXCEPT ![p] = Idle], query' = [query EXCEPT ![p] = q],
         UNCHANGED <<cache, Histories>>
  PROVE  IInv'
<1>1. RequestInOrder(Idle, q)
  BY DEF Idle, RequestInOrder
<1> QED
  BY <1>1, IdleType, CacheOf, RequestKeepsInv

(* What a request is when it reaches a new place.                          *)
Placed(pc, sid) == [pc |-> pc, sid |-> sid, at |-> now, ok |-> FALSE]

LEMMA PlacedIs ==
  ASSUME now \in Nat, NEW sid \in Ids,
         NEW pc \in {"asked", "admitted", "checking", "served"}
  PROVE  /\ Placed(pc, sid) \in Call
         /\ Placed(pc, sid).pc = pc /\ Placed(pc, sid).sid = sid
         /\ Placed(pc, sid).at = now /\ Placed(pc, sid).ok = FALSE
BY DEF Placed, Call

LEMMA HitInv ==
  ASSUME IInv, NEW p \in Procs, Hit(p)
  PROVE  IInv'
<1>1. PICK sid \in Ids : Cached(sid) /\ Goto(p, "admitted", sid)
  BY DEF Hit
<1> DEFINE new == Placed("admitted", sid)
<1>2. /\ new \in Call
      /\ new.pc = "admitted" /\ new.sid = sid /\ new.at = now /\ new.ok = FALSE
      /\ call' = [call EXCEPT ![p] = new]
  <2>1. call' = [call EXCEPT ![p] = new]
    BY <1>1 DEF Goto, Placed
  <2> QED
    BY <2>1, <1>1, InvOf, PlacedIs
<1> HIDE DEF new
<1>3. now <= lastOpen[sid] + CacheTTL + Latency
  BY <1>1, InvOf, CacheOf DEF Cached, CacheInOrder
<1>4. RequestInOrder(new, query[p])
  BY <1>2, <1>3, InvOf DEF RequestInOrder
<1>5. query' = query /\ cache' = cache /\ UNCHANGED Histories
  BY DEF Hit, serviceVars, Histories
<1> QED
  BY <1>2, <1>4, <1>5, InvOf, CacheOf, SameQuery, RequestKeepsInv

LEMMA MissInv ==
  ASSUME IInv, NEW p \in Procs, Miss(p)
  PROVE  IInv'
<1>1. PICK sid \in Ids :
        /\ cache' = Without(sid)
        /\ Goto(p, "asked", sid)
        /\ query' = [query EXCEPT ![p] = [phase |-> "asked", op |-> "current",
                                          sid |-> sid, ans |-> "none"]]
  BY DEF Miss
<1> DEFINE new == Placed("asked", sid)
<1>2. /\ new \in Call
      /\ new.pc = "asked" /\ new.sid = sid /\ new.at = now /\ new.ok = FALSE
      /\ call' = [call EXCEPT ![p] = new]
  <2>1. call' = [call EXCEPT ![p] = new]
    BY <1>1 DEF Goto, Placed
  <2> QED
    BY <2>1, <1>1, InvOf, PlacedIs
<1> HIDE DEF new
<1> DEFINE q == [phase |-> "asked", op |-> "current", sid |-> sid, ans |-> "none"]
<1>3. q \in Auth!Query
  BY DEF Auth!Query
<1>4. q.sid = sid /\ q.phase = "asked" /\ q.ans = "none"
  OBVIOUS
<1>5. query' = [query EXCEPT ![p] = q]
  BY <1>1
<1> HIDE DEF q
<1>6. CacheInOrder(cache')
  BY <1>1, CacheOf DEF Without, CacheInOrder
<1>7. UNCHANGED Histories
  BY DEF Miss, Histories
<1>8. RequestInOrder(new, q)
  BY <1>2, <1>4, InvOf DEF RequestInOrder
<1> QED
  BY <1>2, <1>3, <1>5, <1>6, <1>7, <1>8, RequestKeepsInv

LEMMA ReceiveInv ==
  ASSUME IInv, NEW p \in Procs, Receive(p)
  PROVE  IInv'
<1> DEFINE sid == call[p].sid
<1>1. /\ sid \in Ids /\ now \in Nat /\ call[p].at \in Nat
      /\ now <= call[p].at + Latency /\ lastOpen[sid] \in Nat
  BY InvOf DEF Receive, At, InTime, Call
<1>2. UNCHANGED Histories /\ query' = [query EXCEPT ![p] = Auth!Quiet]
  BY DEF Receive, Histories
<1>3. CASE /\ query[p].ans = "active"
           /\ cache' = Put(sid)
           /\ Goto(p, "admitted", sid)
  <2>1. call[p].at <= lastOpen[sid]
    BY <1>3 DEF IInv, AnswersAreRecent, Receive
  <2>2. now <= lastOpen[sid] + Latency
    BY <1>1, <2>1, TimesAssumption
  <2> DEFINE new == Placed("admitted", sid)
  <2>3. /\ new \in Call
        /\ new.pc = "admitted" /\ new.sid = sid /\ new.at = now /\ new.ok = FALSE
        /\ call' = [call EXCEPT ![p] = new]
    <3>1. call' = [call EXCEPT ![p] = new]
      BY <1>1, <1>3 DEF Goto, Placed
    <3> QED
      BY <3>1, <1>1, <1>3, PlacedIs
  <2> HIDE DEF new
  <2>4. CacheInOrder(cache')
    <3>1. CASE CacheTTL = 0
      BY <1>3, <3>1, CacheOf DEF Put
    <3>2. CASE CacheTTL # 0
      <4>1. DOMAIN cache' = DOMAIN cache \cup {sid}
        BY <1>3, <3>2 DEF Put
      <4>2. \A s \in DOMAIN cache' : cache'[s] = IF s = sid THEN now + CacheTTL ELSE cache[s]
        BY <1>3, <3>2 DEF Put
      <4>3. now + CacheTTL \in Nat /\ now + CacheTTL <= lastOpen[sid] + CacheTTL + Latency
        BY <1>1, <2>2, TimesAssumption
      <4> QED
        BY <1>1, <4>1, <4>2, <4>3, CacheOf DEF CacheInOrder
    <3> QED
      BY <3>1, <3>2
  <2>5. now <= lastOpen[sid] + CacheTTL + Latency
    BY <1>1, <2>2, TimesAssumption
  <2>6. RequestInOrder(new, Auth!Quiet)
    BY <1>1, <2>3, <2>5 DEF RequestInOrder
  <2> QED
    BY <1>2, <2>3, <2>4, <2>6, IdleType, RequestKeepsInv
<1>4. CASE call' = [call EXCEPT ![p] = Idle] /\ UNCHANGED cache
  BY <1>2, <1>4, IdleType, EndInv
<1> QED
  BY <1>3, <1>4 DEF Receive

LEMMA CheckInv ==
  ASSUME IInv, NEW p \in Procs, Check(p)
  PROVE  IInv'
<1> DEFINE sid == call[p].sid
<1>1. sid \in Ids /\ now \in Nat /\ call[p].at = now
  BY InvOf DEF Check, At, InTime, Call
<1> DEFINE new == Placed("checking", sid)
<1>2. /\ new \in Call
      /\ new.pc = "checking" /\ new.sid = sid /\ new.at = now /\ new.ok = FALSE
      /\ call' = [call EXCEPT ![p] = new]
  <2>1. call' = [call EXCEPT ![p] = new]
    BY <1>1 DEF Check, Goto, Placed
  <2> QED
    BY <2>1, <1>1, PlacedIs
<1> HIDE DEF new
<1>3. now <= lastOpen[sid] + CacheTTL + Latency
  BY <1>1 DEF Check, At, IInv, ChecksAreRecent
<1>4. RequestInOrder(new, query[p])
  BY <1>1, <1>2, <1>3, InvOf DEF RequestInOrder
<1>5. query' = query /\ cache' = cache /\ UNCHANGED Histories
  BY DEF Check, serviceVars, Histories
<1> QED
  BY <1>2, <1>4, <1>5, InvOf, CacheOf, SameQuery, RequestKeepsInv

LEMMA PermitInv ==
  ASSUME IInv, NEW p \in Procs, Permit(p)
  PROVE  IInv'
<1>1. call[p].sid \in Ids /\ now \in Nat
  BY InvOf DEF Permit, At
<1> DEFINE new == Placed("served", call[p].sid)
<1>2. /\ new \in Call
      /\ new.pc = "served" /\ new.sid = call[p].sid /\ new.at = now /\ new.ok = FALSE
      /\ call' = [call EXCEPT ![p] = new]
  <2>1. call' = [call EXCEPT ![p] = new]
    BY <1>1 DEF Permit, Goto, Placed
  <2> QED
    BY <2>1, <1>1, PlacedIs
<1> HIDE DEF new
<1>3. RequestInOrder(new, query[p])
  BY <1>1, <1>2 DEF RequestInOrder
<1>4. query' = query /\ cache' = cache /\ UNCHANGED Histories
  BY DEF Permit, serviceVars, Histories
<1> QED
  BY <1>2, <1>3, <1>4, InvOf, CacheOf, SameQuery, RequestKeepsInv

(* GiveUp and Finish.                                                      *)
LEMMA LeaveInv ==
  ASSUME IInv, NEW p \in Procs, GiveUp(p) \/ Finish(p)
  PROVE  IInv'
<1>1. call' = [call EXCEPT ![p] = Idle] /\ query' = query /\ UNCHANGED <<cache, Histories>>
  BY DEF GiveUp, Finish, serviceVars, Histories
<1> QED
  BY <1>1, InvOf, SameQuery, EndInv

LEMMA JudgeInv ==
  ASSUME IInv, NEW p \in Procs, Judge(p)
  PROVE  IInv'
<1>1. /\ call[p] \in Call /\ call[p].sid \in Ids /\ call[p].at \in Nat
      /\ call[p].at <= now /\ now <= call[p].at + Latency
      /\ call[p].at <= lastOpen[call[p].sid] + CacheTTL + Latency
  BY InvOf DEF Judge, At, InTime, Call, IInv, ChecksAreRecent
<1>2. PICK ok \in BOOLEAN :
        /\ ok => now <= lastAllowed[call[p].sid] + DecisionAge
        /\ call' = [call EXCEPT ![p].pc = "judged", ![p].ok = ok]
  BY DEF Judge
<1> DEFINE new == [call[p] EXCEPT !.pc = "judged", !.ok = ok]
<1>3. call' = [call EXCEPT ![p] = new]
  BY <1>2
<1>4. new \in Call
  BY <1>1, <1>2 DEF Call
<1>5. new.pc = "judged" /\ new.sid = call[p].sid /\ new.at = call[p].at /\ new.ok = ok
  BY <1>1 DEF Call
<1> HIDE DEF new
<1>6. RequestInOrder(new, query[p])
  BY <1>1, <1>2, <1>5, InvOf, TimesAssumption DEF RequestInOrder
<1>7. query' = query /\ cache' = cache /\ UNCHANGED Histories
  BY DEF Judge, serviceVars, Histories
<1> QED
  BY <1>3, <1>4, <1>6, <1>7, InvOf, CacheOf, SameQuery, RequestKeepsInv

(* The steps of the service that change only a question: the request that  *)
(* waits for it, if one does, is told of an open session only if it is.    *)
LEMMA QueryKeepsInv ==
  ASSUME IInv, NEW p \in Procs, NEW q \in Auth!Query,
         query' = [query EXCEPT ![p] = q],
         UNCHANGED <<now, status, allowed, call, cache, lastOpen, lastAllowed>>,
         At(p, "asked") =>
           /\ q.sid = call[p].sid
           /\ q.phase = "seen" \/ q.ans = "active" => call[p].at <= lastOpen[call[p].sid]
  PROVE  IInv'
<1>1. \A x \in Procs : query'[x] = IF x = p THEN q ELSE query[x]
  BY DEF IInv, TypeOK
<1>2. TypeOK'
  BY DEF IInv, TypeOK
<1>3. HistoryIsCurrent' /\ Punctual' /\ CacheIsRecent' /\ ChecksAreRecent'
  BY DEF IInv, HistoryIsCurrent, Punctual, At, InTime, CacheIsRecent, ChecksAreRecent
<1>4. AnswersAreRecent'
  BY <1>1 DEF IInv, AnswersAreRecent, At
<1> QED
  BY <1>2, <1>3, <1>4 DEF IInv

LEMMA DirectAskInv ==
  ASSUME IInv, NEW p \in Procs, DirectAsk(p)
  PROVE  IInv'
<1>1. PICK op \in {"current", "logout"}, sid \in Ids :
        query' = [query EXCEPT ![p] = [phase |-> "asked", op |-> op, sid |-> sid, ans |-> "none"]]
  BY DEF DirectAsk
<1>2. [phase |-> "asked", op |-> op, sid |-> sid, ans |-> "none"] \in Auth!Query
  BY DEF Auth!Query
<1>3. ~At(p, "asked")
  BY DEF DirectAsk, At, Idle
<1> QED
  BY <1>1, <1>2, <1>3, QueryKeepsInv DEF DirectAsk

LEMMA SeeInv ==
  ASSUME IInv, NEW p \in Procs, See(p)
  PROVE  IInv'
<1> DEFINE new == [query[p] EXCEPT !.phase = "seen"]
<1>1. query[p] \in Auth!Query
  BY InvOf
<1>2. new \in Auth!Query /\ new.sid = query[p].sid
  BY <1>1 DEF Auth!Query
<1>3. At(p, "asked") => query[p].sid = call[p].sid /\ call[p].at <= lastOpen[call[p].sid]
  BY InvOf DEF See, At, IInv, AnswersAreRecent, HistoryIsCurrent
<1>4. query' = [query EXCEPT ![p] = new]
  BY DEF See
<1> HIDE DEF new
<1> QED
  BY <1>2, <1>3, <1>4, QueryKeepsInv DEF See

LEMMA ReplyInv ==
  ASSUME IInv, NEW p \in Procs, Reply(p)
  PROVE  IInv'
<1>1. PICK a \in {"none", "active", "ok", "err"} :
        /\ a = "active" => query[p].phase = "seen"
        /\ query' = [query EXCEPT ![p].phase = "done", ![p].ans = a]
  BY DEF Reply
<1> DEFINE new == [query[p] EXCEPT !.phase = "done", !.ans = a]
<1>2. query[p] \in Auth!Query
  BY InvOf
<1>3. new \in Auth!Query /\ new.sid = query[p].sid /\ new.phase = "done" /\ new.ans = a
  BY <1>2 DEF Auth!Query
<1>4. query' = [query EXCEPT ![p] = new]
  BY <1>1
<1> HIDE DEF new
<1>5. At(p, "asked") =>
        /\ query[p].sid = call[p].sid
        /\ query[p].phase = "seen" => call[p].at <= lastOpen[call[p].sid]
  BY DEF IInv, AnswersAreRecent
<1> QED
  BY <1>1, <1>3, <1>4, <1>5, QueryKeepsInv DEF Reply

LEMMA ClearInv ==
  ASSUME IInv, NEW p \in Procs, Clear(p)
  PROVE  IInv'
BY IdleType, QueryKeepsInv DEF Clear

LEMMA SameTimes ==
  ASSUME IInv, UNCHANGED <<now, call>>
  PROVE  \A p \in Procs : InTime(p)'
<1> SUFFICES ASSUME NEW p \in Procs PROVE InTime(p)
  BY DEF InTime
<1>1. CASE At(p, "idle")
  BY <1>1 DEF At, InTime
<1> QED
  BY <1>1, InvOf

(* Time passing, a session or the policy changing: histories only grow.    *)
LEMMA WorldKeepsInv ==
  ASSUME IInv, UNCHANGED <<query, call, cache>>,
         now' \in Nat, now <= now',
         \A p \in Procs : InTime(p)',
         status' \in [Ids -> Auth!Status], allowed' \in [Ids -> BOOLEAN],
         lastOpen' \in [Ids -> Nat], lastAllowed' \in [Ids -> Int],
         \A s \in Ids : lastOpen[s] <= lastOpen'[s] /\ lastAllowed[s] <= lastAllowed'[s],
         HistoryIsCurrent'
  PROVE  IInv'
<1>1. TypeOK'
  BY DEF IInv, TypeOK
<1>2. \A p \in Procs : ~At(p, "idle") => call[p].sid \in Ids /\ call[p].at \in Nat
  BY InvOf DEF Call
<1>3. now \in Nat /\ \A s \in Ids : /\ lastOpen[s] \in Nat /\ lastOpen'[s] \in Nat
                                    /\ lastAllowed[s] \in Int /\ lastAllowed'[s] \in Int
  BY DEF IInv, TypeOK
<1>4. Punctual'
  BY <1>2, <1>3 DEF IInv, Punctual, At
<1>5. AnswersAreRecent'
  BY <1>2, <1>3 DEF IInv, AnswersAreRecent, At
<1>6. CacheIsRecent'
  BY <1>3, CacheOf, TimesAssumption DEF IInv, CacheIsRecent, CacheInOrder
<1>7. ChecksAreRecent'
  BY <1>2, <1>3, TimesAssumption DEF IInv, ChecksAreRecent, At
<1> QED
  BY <1>1, <1>4, <1>5, <1>6, <1>7 DEF IInv

LEMMA ChangeInv ==
  ASSUME IInv, NEW sid \in Ids, Change(sid)
  PROVE  IInv'
<1>1. PICK st \in {"open", "lapsed", "gone"} :
        /\ status' = [status EXCEPT ![sid] = st]
        /\ lastOpen' = IF st = "open" THEN [lastOpen EXCEPT ![sid] = now] ELSE lastOpen
  BY DEF Change
<1>2. /\ now \in Nat /\ status \in [Ids -> Auth!Status]
      /\ lastOpen \in [Ids -> Nat] /\ lastAllowed \in [Ids -> Int]
      /\ allowed \in [Ids -> BOOLEAN]
      /\ \A s \in Ids : lastOpen[s] <= now
  BY DEF IInv, TypeOK, HistoryIsCurrent
<1>3. UNCHANGED <<now, query, allowed, call, cache, lastAllowed>>
  BY DEF Change
<1>4. lastOpen' \in [Ids -> Nat] /\ \A s \in Ids : lastOpen[s] <= lastOpen'[s]
  BY <1>1, <1>2
<1>5. status' \in [Ids -> Auth!Status]
  BY <1>1, <1>2 DEF Auth!Status
<1>6. HistoryIsCurrent'
  BY <1>1, <1>2, <1>3 DEF IInv, HistoryIsCurrent
<1>7. \A p \in Procs : InTime(p)'
  BY <1>3, SameTimes
<1> QED
  BY <1>2, <1>3, <1>4, <1>5, <1>6, <1>7, WorldKeepsInv

LEMMA AmendInv ==
  ASSUME IInv, NEW sid \in Ids, Amend(sid)
  PROVE  IInv'
<1>1. /\ now \in Nat /\ status \in [Ids -> Auth!Status]
      /\ lastOpen \in [Ids -> Nat] /\ lastAllowed \in [Ids -> Int]
      /\ allowed \in [Ids -> BOOLEAN]
      /\ \A s \in Ids : lastAllowed[s] <= now
  BY DEF IInv, TypeOK, HistoryIsCurrent
<1>2. /\ UNCHANGED <<now, status, query, call, cache, lastOpen>>
      /\ allowed' = [allowed EXCEPT ![sid] = ~@]
      /\ lastAllowed' = IF allowed[sid] THEN lastAllowed ELSE [lastAllowed EXCEPT ![sid] = now]
  BY DEF Amend
<1>3. lastAllowed' \in [Ids -> Int] /\ \A s \in Ids : lastAllowed[s] <= lastAllowed'[s]
  BY <1>1, <1>2
<1>4. allowed' \in [Ids -> BOOLEAN]
  BY <1>1, <1>2
<1>5. HistoryIsCurrent'
  BY <1>1, <1>2 DEF IInv, HistoryIsCurrent
<1>6. \A p \in Procs : InTime(p)'
  BY <1>2, SameTimes
<1> QED
  BY <1>1, <1>2, <1>3, <1>4, <1>5, <1>6, WorldKeepsInv

LEMMA TickInv ==
  ASSUME IInv, Tick
  PROVE  IInv'
<1>1. /\ now \in Nat /\ status \in [Ids -> Auth!Status]
      /\ lastOpen \in [Ids -> Nat] /\ lastAllowed \in [Ids -> Int]
      /\ allowed \in [Ids -> BOOLEAN]
      /\ \A s \in Ids : lastOpen[s] <= now /\ lastAllowed[s] <= now
  BY DEF IInv, TypeOK, HistoryIsCurrent
<1>2. /\ now' = now + 1
      /\ UNCHANGED <<status, query, allowed, call, cache>>
      /\ lastOpen' = [s \in Ids |-> IF status[s] = "open" THEN now + 1 ELSE lastOpen[s]]
      /\ lastAllowed' = [s \in Ids |-> IF allowed[s] THEN now + 1 ELSE lastAllowed[s]]
      /\ \A p \in Procs : InTime(p)'
  BY DEF Tick
<1>3. /\ lastOpen' \in [Ids -> Nat] /\ lastAllowed' \in [Ids -> Int]
      /\ \A s \in Ids : lastOpen[s] <= lastOpen'[s] /\ lastAllowed[s] <= lastAllowed'[s]
  BY <1>1, <1>2
<1>4. HistoryIsCurrent'
  BY <1>1, <1>2 DEF HistoryIsCurrent
<1>5. now' \in Nat /\ now <= now'
  BY <1>1, <1>2
<1> QED
  BY <1>1, <1>2, <1>3, <1>4, <1>5, WorldKeepsInv

LEMMA NextInv == IInv /\ [Next]_vars => IInv'
<1> SUFFICES ASSUME IInv, [Next]_vars PROVE IInv'
  OBVIOUS
<1>1. ASSUME NEW p \in Procs, Middleware(p) PROVE IInv'
  BY <1>1, HitInv, MissInv, ReceiveInv, LeaveInv, CheckInv, PermitInv DEF Middleware
<1>2. ASSUME NEW p \in Procs, Service(p) PROVE IInv'
  BY <1>2, DirectAskInv, SeeInv, ReplyInv, ClearInv, JudgeInv DEF Service
<1>3. CASE UNCHANGED vars
  BY <1>3 DEF vars, IInv, TypeOK, HistoryIsCurrent, Punctual, InTime, At, AnswersAreRecent,
              CacheIsRecent, ChecksAreRecent
<1> QED
  BY <1>1, <1>2, <1>3, ChangeInv, AmendInv, TickInv DEF Next

(* The invariant holds throughout.                                         *)
THEOREM InvHolds == Spec => []IInv
BY InitInv, NextInv, PTL DEF Spec

(* Requests, questions, cache and histories keep their types.              *)
THEOREM TypeCorrect == Spec => []TypeOK
BY InvHolds, PTL DEF IInv

(* Who enters where: a request is admitted by Hit or Receive, and served by *)
(* Permit, and none of them moves the clock or a history.                  *)
LEMMA EntersBy ==
  ASSUME IInv, Next, NEW p \in Procs, NEW pc \in {"admitted", "served"}, Enters(p, pc)
  PROVE  /\ pc = "admitted" => call'[p].at = now /\ UNCHANGED lastOpen
         /\ pc = "served" => Permit(p) /\ call'[p].sid = call[p].sid
<1>1. call' # call /\ call'[p] # call[p]
  BY DEF Enters, At
<1>2. PICK q \in Procs : Middleware(q) \/ Judge(q)
  BY <1>1 DEF Next, Service, DirectAsk, See, Reply, Clear, Change, Amend, Tick
<1>3. call \in [Procs -> Call]
  BY DEF IInv, TypeOK
<1>4. q = p
  <2> SUFFICES ASSUME q # p PROVE call'[p] = call[p]
    BY <1>1
  <2> QED
    BY <1>2, <1>3 DEF Middleware, Hit, Miss, Receive, GiveUp, Check, Permit, Finish, Judge, Goto
<1>5. CASE Hit(p) \/ Receive(p)
  <2>1. \/ call'[p] = Idle
        \/ call'[p].pc = "admitted" /\ call'[p].at = now
    <3>1. \/ call' = [call EXCEPT ![p] = Idle]
          \/ \E sid : call' = [call EXCEPT ![p] = Placed("admitted", sid)]
      BY <1>5 DEF Hit, Receive, Goto, Placed
    <3>2. \A sid : Placed("admitted", sid).pc = "admitted" /\ Placed("admitted", sid).at = now
      BY DEF Placed
    <3> QED
      BY <1>3, <3>1, <3>2
  <2> QED
    BY <1>5, <2>1 DEF Enters, Idle, Hit, Receive, serviceVars
<1>6. CASE Permit(p)
  BY <1>3, <1>6 DEF Permit, Enters, Goto
<1>7. CASE Miss(p) \/ GiveUp(p) \/ Check(p) \/ Finish(p) \/ Judge(p)
  <2>1. call'[p].pc \in {"idle", "asked", "checking", "judged"}
    BY <1>3, <1>7 DEF Miss, GiveUp, Check, Finish, Judge, Goto, Idle, Call
  <2> QED
    BY <2>1 DEF Enters
<1> QED
  BY <1>2, <1>4, <1>5, <1>6, <1>7 DEF Middleware

(* RequireLogin: a session that is over lets nobody in for longer than the *)
(* life of a cache entry and one exchange.                                 *)
THEOREM AdmissionRecent == Spec => AdmissionIsRecent
<1>1. IInv /\ IInv' /\ [Next]_vars
        => [\A p \in Procs : Enters(p, "admitted")
              => now <= lastOpen[call'[p].sid] + CacheTTL + Latency]_vars
  <2> SUFFICES ASSUME IInv, IInv', Next, NEW p \in Procs, Enters(p, "admitted")
               PROVE  now <= lastOpen[call'[p].sid] + CacheTTL + Latency
    OBVIOUS
  <2>1. call'[p].at <= lastOpen'[call'[p].sid] + CacheTTL + Latency
    BY DEF IInv, ChecksAreRecent, Enters
  <2> QED
    BY <2>1, EntersBy
<1> QED
  BY <1>1, InvHolds, PTL DEF Spec, AdmissionIsRecent

(* RequirePermission: a handler runs only for a user who was allowed       *)
(* within the age of a decision and one exchange, and whose session was    *)
(* open not much earlier.                                                  *)
THEOREM ServedRecent == Spec => ServedIsRecent
<1>1. IInv /\ [Next]_vars
        => [\A p \in Procs : Enters(p, "served")
              => /\ now <= lastAllowed[call'[p].sid] + DecisionAge + Latency
                 /\ now <= lastOpen[call'[p].sid] + CacheTTL + 2 * Latency]_vars
  <2> SUFFICES ASSUME IInv, Next, NEW p \in Procs, Enters(p, "served")
               PROVE  /\ now <= lastAllowed[call'[p].sid] + DecisionAge + Latency
                      /\ now <= lastOpen[call'[p].sid] + CacheTTL + 2 * Latency
    OBVIOUS
  <2>1. Permit(p) /\ call'[p].sid = call[p].sid
    BY EntersBy
  <2>2. /\ now \in Nat /\ call[p].at \in Nat /\ call[p].sid \in Ids
        /\ lastAllowed[call[p].sid] \in Int /\ lastOpen[call[p].sid] \in Nat
        /\ now <= call[p].at + Latency
    BY <2>1, InvOf DEF Permit, At, InTime, Call
  <2>3. /\ call[p].at <= lastAllowed[call[p].sid] + DecisionAge
        /\ call[p].at <= lastOpen[call[p].sid] + CacheTTL + Latency
    BY <2>1 DEF Permit, At, IInv, ChecksAreRecent
  <2> QED
    BY <2>1, <2>2, <2>3, TimesAssumption
<1> QED
  BY <1>1, InvHolds, PTL DEF Spec, ServedIsRecent
================================================================================
