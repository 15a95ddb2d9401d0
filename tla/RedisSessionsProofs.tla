--------------------------- MODULE RedisSessionsProofs ---------------------------
(***************************************************************************)
(* The Redis store behind the authn service, for any number of goroutines, *)
(* sessions and subjects, any TTL of two seconds or more, sliding or not,  *)
(* with replies lost and commands that never arrive: a logout is final, a  *)
(* session that is not over is never deleted as expired, and a revocation  *)
(* that reports success has left nothing that was there.  The inductive    *)
(* invariant is RedisSessions!IInv: the index covers what can be used and  *)
(* outlives it (IndexCovers), what revocations have read of it goes on     *)
(* covering (RevokeCovers), and no payload is ever rewritten               *)
(* (CopyIsPayload).  And the store implements SessionContract: each of its *)
(* steps is a step of the contract or none.                                *)
(***************************************************************************)
EXTENDS RedisSessions, SessionCallsProofs

LEMMA HasCallInv == IInv => CallInv
BY DEF IInv, TypeOK, CallInv

Key == [exp : Nat, ttlEnd : Nat]

(* SREM takes one id out of one set and leaves the rest, and its life.     *)
LEMMA UnindexFacts ==
  ASSUME IInv, NEW s \in DOMAIN index, NEW id
  PROVE  /\ DOMAIN Unindex(s, id) \subseteq DOMAIN index
         /\ \A t \in DOMAIN Unindex(s, id) :
              Unindex(s, id)[t] \in [ids : (SUBSET minted) \ {{}}, ttlEnd : Nat]
         /\ \A t \in DOMAIN index : \A x \in index[t].ids \ {id} :
              /\ t \in DOMAIN Unindex(s, id)
              /\ x \in Unindex(s, id)[t].ids
              /\ Unindex(s, id)[t].ttlEnd = index[t].ttlEnd
<1> DEFINE left == index[s].ids \ {id}
<1>1. /\ DOMAIN index \subseteq Subjects
      /\ \A t \in DOMAIN index : index[t] \in [ids : (SUBSET minted) \ {{}}, ttlEnd : Nat]
  BY DEF IInv, TypeOK
<1>2. Unindex(s, id) = IF left = {} THEN Keep(index, Subjects \ {s})
                       ELSE [index EXCEPT ![s].ids = left]
  BY DEF Unindex, Members
<1>3. CASE left = {}
  BY <1>1, <1>2, <1>3 DEF Keep
<1>4. CASE left # {}
  <2>1. left \in (SUBSET minted) \ {{}}
    BY <1>1, <1>4
  <2>2. Unindex(s, id) = [index EXCEPT ![s] = [index[s] EXCEPT !.ids = left]]
    BY <1>2, <1>4
  <2> DEFINE r == [index[s] EXCEPT !.ids = left]
  <2>3. r \in [ids : (SUBSET minted) \ {{}}, ttlEnd : Nat] /\ r.ids = left /\ r.ttlEnd = index[s].ttlEnd
    BY <1>1, <2>1
  <2> HIDE DEF r
  <2>4. /\ DOMAIN Unindex(s, id) = DOMAIN index
        /\ Unindex(s, id)[s] = r
        /\ \A t \in DOMAIN index \ {s} : Unindex(s, id)[t] = index[t]
    BY <2>2 DEF r
  <2> QED
    BY <1>1, <2>3, <2>4
<1> QED
  BY <1>3, <1>4

(* What the invariant says of one request, given the keys and the time.    *)
Holds(r, keys, t) ==
  /\ r.pc = "create" => r.exp <= t + TTL /\ r.sid \notin DOMAIN keys
  /\ r.pc \in {"decode", "check", "getdel", "svcdel"} /\ r.sid \in DOMAIN keys
       => keys[r.sid].exp = r.exp
  /\ r.pc = "decode" /\ ~r.saw => t > r.exp
  /\ r.pc \in {"getdel", "svcdel"} => t > r.exp
  /\ r.op = "logout" /\ r.ans = "ok" => r.sid \notin DOMAIN keys

LEMMA RequestHolds == ASSUME IInv, NEW p \in Procs PROVE Holds(call[p], kv, now)
BY DEF IInv, CopyIsPayload, LogoutTookIt, UnbornIsOut, Holds, At

LEMMA HoldsThen ==
  ASSUME \A p \in Procs : Holds(call'[p], kv', now')
  PROVE  CopyIsPayload' /\ LogoutTookIt' /\ UnbornIsOut'
BY DEF CopyIsPayload, LogoutTookIt, UnbornIsOut, Holds, At

(* What a callback is about to store is due to no revocation.              *)
Undue(r) == r.pc = "create" => \A v \in Revokers : r.sid \notin revoke[v].due

LEMMA RequestUndue == ASSUME IInv, NEW p \in Procs PROVE Undue(call[p])
BY DEF IInv, RevokeCovers, Undue, At

(* What a step keeps of a revocation under way: keys may go, time may pass.*)
LEMMA StillCovers ==
  ASSUME IInv, UNCHANGED revoke, now' \in {now, now + 1},
         \A v \in Revokers : \A x \in revoke[v].due \cap DOMAIN kv' :
           x \in DOMAIN kv /\ kv'[x].exp = kv[x].exp,
         \A q \in Procs : Undue(call'[q])
  PROVE  RevokeCovers'
<1> SUFFICES ASSUME NEW v \in Revokers
             PROVE  /\ \A x \in revoke[v].due \cap DOMAIN kv' :
                         now' < kv'[x].exp => x \in revoke[v].ids
                    /\ \A q \in Procs : At(q, "create")' => call'[q].sid \notin revoke[v].due
  BY DEF RevokeCovers
<1>1. now \in Nat
  BY DEF IInv, TypeOK, CallTypeOK
<1>2. ASSUME NEW x \in revoke[v].due \cap DOMAIN kv', now' < kv'[x].exp PROVE x \in revoke[v].ids
  <2>1. x \in revoke[v].due \cap DOMAIN kv /\ kv'[x].exp = kv[x].exp /\ kv[x].exp \in Nat
    BY <1>2 DEF IInv, TypeOK
  <2>2. now < kv[x].exp
    BY <1>1, <1>2, <2>1
  <2> QED
    BY <2>1, <2>2 DEF IInv, RevokeCovers
<1> QED
  BY <1>2 DEF At, Undue

(* A step that moves one request and leaves Redis alone.                   *)
LEMMA RequestOnly ==
  ASSUME IInv, NEW p \in Procs, CallInv', UNCHANGED redisVars,
         now' = now, minted \subseteq minted',
         Holds(call'[p], kv, now), Undue(call'[p]),
         \A q \in Procs \ {p} : call'[q] = call[q],
         ended' \cap DOMAIN kv = {}
  PROVE  IInv'
<1>1. kv' = kv /\ index' = index /\ revoke' = revoke /\ orphans' = orphans
  BY DEF redisVars
<1>2. \A q \in Procs : Holds(call'[q], kv', now')
  BY <1>1, RequestHolds
<1>3. CopyIsPayload' /\ LogoutTookIt' /\ UnbornIsOut'
  BY <1>2, HoldsThen
<1>4. TypeOK'
  <2>1. \A s \in DOMAIN index : index'[s] \in [ids : (SUBSET minted') \ {{}}, ttlEnd : Nat]
    BY <1>1 DEF IInv, TypeOK
  <2> QED
    BY <1>1, <2>1 DEF IInv, TypeOK, CallInv
<1>5. EndedStaysOut'
  BY <1>1 DEF EndedStaysOut
<1>6. IndexCovers' /\ KeysOutlivePayloads'
  BY <1>1 DEF IInv, IndexCovers, Listed, KeysOutlivePayloads
<1>7. RevokeCovers'
  <2>1. \A q \in Procs : Undue(call'[q])
    BY RequestUndue
  <2> QED
    BY <1>1, <2>1, StillCovers
<1> QED
  BY <1>3, <1>4, <1>5, <1>6, <1>7 DEF IInv, CallInv

LEMMA InitInv == Init => IInv
<1> SUFFICES ASSUME Init PROVE IInv
  OBVIOUS
<1>1. DOMAIN kv = {} /\ DOMAIN index = {}
  BY DEF Init
<1>2. CallInv /\ \A p \in Procs : call[p].pc = "idle" /\ call[p].op = "idle"
  BY CallInitInv DEF Init
<1>3. TypeOK
  BY <1>1, <1>2 DEF Init, CallInv, TypeOK, Returned
<1>4. LogoutTookIt /\ EndedStaysOut /\ CopyIsPayload /\ UnbornIsOut
  BY <1>1, <1>2 DEF LogoutTookIt, EndedStaysOut, CopyIsPayload, UnbornIsOut, At
<1>5. IndexCovers /\ RevokeCovers /\ KeysOutlivePayloads
  BY <1>1 DEF Init, Returned, IndexCovers, RevokeCovers, KeysOutlivePayloads
<1> QED
  BY <1>2, <1>3, <1>4, <1>5 DEF IInv, CallInv

--------------------------------------------------------------------------------
(* The id a callback stores is no browser's yet, so no other request works *)
(* with it; the index is given all of a session's life but a second.       *)
LEMMA CreateKeeps == ASSUME IInv, NEW p \in Procs, Create(p) PROVE IInv'
<1> DEFINE id == call[p].sid
           s == SubjectOf[id]
           key == [exp |-> call[p].exp, ttlEnd |-> now + TTL]
           set == [ids |-> Members(s) \cup {id}, ttlEnd |-> now + TTL - 1]
<1>0. RequestOK(call[p]) /\ OriginOK(call[p]) /\ call[p].pc = "create"
      /\ Holds(call[p], kv, now)
  BY HasCallInv, RequestsOK, RequestHolds DEF Create, At
<1>1. /\ id \in minted \ issued /\ ~call[p].late /\ call[p].op = "callback"
      /\ call[p].exp \in Nat /\ call[p].exp <= now + TTL /\ now \in Nat
      /\ id \in Ids /\ s \in Subjects
  BY <1>0, SubjectAssumption DEF RequestOK, OriginOK, Call, Holds, IInv, TypeOK, CallTypeOK
<1>2. UNCHANGED <<sliding, now, minted, issued, ended, revoke, orphans>>
  BY DEF Create
<1>3. /\ key \in Key /\ key.exp = call[p].exp /\ key.ttlEnd = now + TTL
      /\ set \in [ids : (SUBSET minted) \ {{}}, ttlEnd : Nat]
      /\ set.ids = Members(s) \cup {id} /\ set.ttlEnd = now + TTL - 1
  <2>1. Members(s) \subseteq minted
    BY DEF Members, IInv, TypeOK
  <2>2. now + TTL \in Nat /\ now + TTL - 1 \in Nat
    BY <1>1, TTLAssumption
  <2>3. set \in [ids : (SUBSET minted) \ {{}}, ttlEnd : Nat]
    BY <1>1, <2>1, <2>2
  <2>4. key \in Key
    BY <1>1, <2>2 DEF Key
  <2> QED
    BY <2>3, <2>4
<1> HIDE DEF key, set
<1>4. /\ DOMAIN kv' = DOMAIN kv \cup {id} /\ kv'[id] = key
      /\ \A x \in DOMAIN kv \ {id} : kv'[x] = kv[x]
  <2>1. kv' = Put(kv, id, key)
    BY DEF Create, key
  <2> QED
    BY <2>1 DEF Put
<1>5. /\ DOMAIN index' = DOMAIN index \cup {s} /\ index'[s] = set
      /\ \A t \in DOMAIN index \ {s} : index'[t] = index[t]
  <2>1. index' = Put(index, s, set)
    BY DEF Create, set
  <2> QED
    BY <2>1 DEF Put
<1>6. \A v \in Revokers : id \notin revoke[v].due
  BY <1>0, RequestUndue DEF Undue
<1>7. /\ CallInv' /\ call'[p].pc = "done" /\ call'[p].op = "callback"
      /\ \A q \in Procs \ {p} : call'[q] = call[q]
  <2>1. PICK a \in {"ok", "err"} : Answer(p, a)
    BY DEF Create, Replied, OnError
  <2> QED
    BY <1>0, <1>1, <1>2, <2>1, HasCallInv, AnswerMoves
<1> HIDE DEF id, s
<1>8. TypeOK'
  <2>1. \A x \in DOMAIN kv' : kv'[x] \in Key
    BY <1>3, <1>4 DEF IInv, TypeOK, Key
  <2>2. \A t \in DOMAIN index' : index'[t] \in [ids : (SUBSET minted') \ {{}}, ttlEnd : Nat]
    BY <1>2, <1>3, <1>5 DEF IInv, TypeOK
  <2>3. DOMAIN kv' \subseteq minted' /\ DOMAIN index' \subseteq Subjects
    BY <1>1, <1>2, <1>4, <1>5 DEF IInv, TypeOK
  <2> QED
    BY <1>2, <1>7, <2>1, <2>2, <2>3 DEF IInv, TypeOK, CallInv, Key
<1>9. CopyIsPayload' /\ LogoutTookIt' /\ UnbornIsOut'
  <2>1. ASSUME NEW q \in Procs PROVE Holds(call'[q], kv', now')
    <3>1. CASE q = p
      BY <1>7, <3>1 DEF Holds
    <3>2. CASE q # p
      <4>1. Holds(call[q], kv, now) /\ RequestOK(call[q]) /\ OriginOK(call[q])
        BY HasCallInv, RequestsOK, RequestHolds
      <4>2. call[q].op \in {"current", "logout"} => call[q].sid # id
        BY <1>1, <4>1 DEF OriginOK
      <4>3. call[q].pc \in {"decode", "check", "getdel", "svcdel"} => call[q].op = "current"
        BY <4>1 DEF RequestOK
      <4>4. call[q].pc = "create" => call[q].sid # id
        BY <1>1, <3>2, <4>1 DEF RequestOK, IInv, MintedOnce, id
      <4> QED
        BY <1>2, <1>4, <1>7, <3>2, <4>1, <4>2, <4>3, <4>4 DEF Holds
    <3> QED
      BY <3>1, <3>2
  <2> QED
    BY <2>1, HoldsThen
<1>10. EndedStaysOut'
  BY <1>1, <1>2, <1>4 DEF IInv, EndedStaysOut, TypeOK, CallTypeOK
<1>11. KeysOutlivePayloads'
  BY <1>1, <1>2, <1>3, <1>4 DEF IInv, KeysOutlivePayloads
<1>12. IndexCovers'
  <2> SUFFICES ASSUME NEW x \in DOMAIN kv' \ orphans', now' < kv'[x].exp PROVE Listed(x)'
    BY DEF IndexCovers
  <2>1. CASE x = id
    BY <1>1, <1>3, <1>4, <1>5, <2>1, TTLAssumption DEF Listed, s
  <2>2. CASE x # id
    <3>1. x \in DOMAIN kv \ orphans /\ kv'[x] = kv[x] /\ Listed(x)
      BY <1>2, <1>4, <2>2 DEF IInv, IndexCovers
    <3>2. CASE SubjectOf[x] = s
      <4>1. x \in set.ids
        BY <1>3, <3>1, <3>2 DEF Listed, Members
      <4>2. kv[x].exp \in Nat /\ kv[x].exp <= now + TTL
        BY <3>1 DEF IInv, TypeOK, KeysOutlivePayloads
      <4> QED
        BY <1>1, <1>3, <1>5, <3>1, <3>2, <4>1, <4>2, TTLAssumption DEF Listed
    <3>3. CASE SubjectOf[x] # s
      BY <1>5, <3>1, <3>3 DEF Listed
    <3> QED
      BY <3>2, <3>3
  <2> QED
    BY <2>1, <2>2
<1>13. RevokeCovers'
  <2>1. \A q \in Procs : Undue(call'[q])
    BY <1>7, RequestUndue DEF Undue
  <2>2. \A v \in Revokers : \A x \in revoke[v].due \cap DOMAIN kv' :
          x \in DOMAIN kv /\ kv'[x].exp = kv[x].exp
    BY <1>4, <1>6
  <2> QED
    BY <1>2, <2>1, <2>2, StillCovers
<1> QED
  BY <1>7, <1>8, <1>9, <1>10, <1>11, <1>12, <1>13 DEF IInv, CallInv

(* Get brings the request a copy of the payload, or an answer.             *)
LEMMA GetKeeps == ASSUME IInv, NEW p \in Procs, Get(p) PROVE IInv'
<1>0. RequestOK(call[p]) /\ OriginOK(call[p]) /\ call[p].pc = "get" /\ call[p].op = "current"
  BY HasCallInv, RequestsOK DEF Get, At, RequestOK
<1>1. UNCHANGED <<sliding, now, minted, issued, ended>> /\ UNCHANGED redisVars
  BY DEF Get
<1>2. CASE Answer(p, "none")
  <2>1. /\ CallInv' /\ call'[p].pc = "done" /\ call'[p].op = "current"
        /\ \A q \in Procs \ {p} : call'[q] = call[q]
    BY <1>0, <1>1, <1>2, HasCallInv, AnswerMoves
  <2> QED
    BY <1>1, <2>1, RequestOnly DEF Holds, Undue, IInv, EndedStaysOut
<1>3. CASE call[p].sid \in DOMAIN kv /\ GotRead(p, "decode", kv[call[p].sid].exp)
  <2>1. ~call[p].late
    BY <1>0, <1>3 DEF OriginOK, IInv, EndedStaysOut
  <2>2. kv[call[p].sid].exp \in Nat
    BY <1>3 DEF IInv, TypeOK
  <2>3. /\ CallInv' /\ call'[p].pc = "decode" /\ call'[p].exp = kv[call[p].sid].exp
        /\ (call'[p].saw <=> now <= kv[call[p].sid].exp)
        /\ call'[p].op = "current" /\ call'[p].sid = call[p].sid
        /\ \A q \in Procs \ {p} : call'[q] = call[q]
    BY <1>0, <1>1, <1>3, <2>1, <2>2, HasCallInv, ReadMoves
  <2>4. Holds(call'[p], kv, now)
    BY <2>2, <2>3 DEF Holds, IInv, TypeOK, CallTypeOK
  <2> QED
    BY <1>1, <2>3, <2>4, RequestOnly DEF Undue, IInv, EndedStaysOut
<1> QED
  BY <1>2, <1>3 DEF Get

LEMMA DecodeKeeps == ASSUME IInv, NEW p \in Procs, Decode(p) PROVE IInv'
<1>0. /\ RequestOK(call[p]) /\ call[p].pc = "decode" /\ call[p].op = "current"
      /\ Holds(call[p], kv, now)
  BY HasCallInv, RequestsOK, RequestHolds DEF Decode, At, RequestOK
<1>1. ~call[p].late
  BY <1>0 DEF RequestOK
<1>2. UNCHANGED <<sliding, now, minted, issued, ended>> /\ UNCHANGED redisVars
  BY DEF Decode
<1>3. PICK pc \in {"getdel", "check"} : Goto(p, pc) /\ (pc = "getdel" <=> now > call[p].exp)
  BY DEF Decode
<1>4. /\ CallInv' /\ call'[p].pc = pc /\ call'[p].exp = call[p].exp
      /\ call'[p].op = "current" /\ call'[p].sid = call[p].sid
      /\ \A q \in Procs \ {p} : call'[q] = call[q]
  <2>1. pc \in {"getdel", "check", "touch", "svcdel"} /\ (pc = "check" => call[p].saw)
    BY <1>0, <1>3 DEF Holds
  <2> QED
    BY <1>0, <1>1, <1>2, <1>3, <2>1, HasCallInv, GotoMoves
<1>5. Holds(call'[p], kv, now)
  BY <1>0, <1>3, <1>4 DEF Holds
<1> QED
  BY <1>2, <1>4, <1>5, RequestOnly DEF Undue, IInv, EndedStaysOut

LEMMA FailKeeps == ASSUME IInv, NEW p \in Procs, Fail(p) PROVE IInv'
<1> DEFINE a == OnError(call[p].pc)
<1>0. RequestOK(call[p]) /\ call[p].pc \in StorePC /\ Answer(p, a)
  BY HasCallInv, RequestsOK DEF Fail
<1>1. UNCHANGED <<sliding, now, minted, issued, ended>> /\ UNCHANGED redisVars
  BY DEF Fail
<1>2. a \in {"active", "none", "err"} /\ (call[p].late => a # "active")
  BY <1>0 DEF OnError, RequestOK
<1>3. call[p].pc \notin {"idle", "done"}
  BY <1>0 DEF StorePC
<1> HIDE DEF a
<1>4. /\ CallInv' /\ call'[p].pc = "done" /\ call'[p].ans = a
      /\ \A q \in Procs \ {p} : call'[q] = call[q]
  BY <1>0, <1>1, <1>2, <1>3, HasCallInv, AnswerMoves
<1> QED
  BY <1>1, <1>2, <1>4, RequestOnly DEF Holds, Undue, IInv, EndedStaysOut

--------------------------------------------------------------------------------
(* Keys that go, with their ids in the index or some other way, leave the  *)
(* rest covered.                                                           *)
LEMMA KeysGo ==
  ASSUME IInv,
         DOMAIN kv' \subseteq DOMAIN kv, \A x \in DOMAIN kv' : kv'[x] = kv[x],
         now' \in {now, now + 1},
         \A p \in Procs : call'[p] = call[p] \/ call'[p].pc = "done",
         \A p \in Procs : call'[p].op = call[p].op /\ call'[p].sid = call[p].sid,
         \A p \in Procs : call'[p].op = "logout" /\ call'[p].ans = "ok" =>
                            call[p].ans = "ok" \/ call'[p].sid \notin DOMAIN kv',
         UNCHANGED ended
  PROVE  CopyIsPayload' /\ LogoutTookIt' /\ UnbornIsOut' /\ EndedStaysOut' /\ KeysOutlivePayloads'
<1>0. now \in Nat /\ now <= now'
  BY DEF IInv, TypeOK, CallTypeOK
<1>1. ASSUME NEW q \in Procs PROVE Holds(call'[q], kv', now')
  <2>1. Holds(call[q], kv, now) /\ call[q].exp \in Nat
    BY HasCallInv, RequestsOK, RequestHolds DEF RequestOK, Call
  <2>2. CASE call'[q] = call[q]
    BY <1>0, <2>1, <2>2, TTLAssumption DEF Holds
  <2>3. CASE call'[q].pc = "done"
    BY <2>1, <2>3 DEF Holds
  <2> QED
    BY <2>2, <2>3
<1>2. CopyIsPayload' /\ LogoutTookIt' /\ UnbornIsOut'
  BY <1>1, HoldsThen
<1>3. EndedStaysOut'
  BY DEF IInv, EndedStaysOut
<1>4. KeysOutlivePayloads'
  BY <1>0, TTLAssumption DEF IInv, KeysOutlivePayloads, TypeOK
<1> QED
  BY <1>2, <1>3, <1>4

LEMMA DeleteKeeps == ASSUME IInv, NEW p \in Procs, Delete(p) PROVE IInv'
<1> DEFINE id == call[p].sid
<1>0. RequestOK(call[p]) /\ call[p].pc \in {"delete", "getdel", "svcdel"}
  BY HasCallInv, RequestsOK DEF Delete
<1>1. UNCHANGED <<sliding, now, minted, issued, ended, revoke, orphans>>
  BY DEF Delete
<1>2. DOMAIN kv' = DOMAIN kv \ {id} /\ \A x \in DOMAIN kv' : kv'[x] = kv[x]
  <2>1. DOMAIN kv \subseteq Ids
    BY DEF IInv, TypeOK, CallTypeOK
  <2> QED
    BY <2>1 DEF Delete, Keep
<1>3. /\ DOMAIN index' \subseteq DOMAIN index
      /\ \A t \in DOMAIN index' : index'[t] \in [ids : (SUBSET minted) \ {{}}, ttlEnd : Nat]
      /\ \A t \in DOMAIN index : \A x \in index[t].ids \ {id} :
           t \in DOMAIN index' /\ x \in index'[t].ids /\ index'[t].ttlEnd = index[t].ttlEnd
  <2>1. CASE index' = index
    BY <2>1 DEF IInv, TypeOK
  <2>2. CASE id \in Members(SubjectOf[id]) /\ index' = Unindex(SubjectOf[id], id)
    <3>1. SubjectOf[id] \in DOMAIN index
      BY <2>2 DEF Members
    <3> QED
      BY <2>2, <3>1, UnindexFacts
  <2> QED
    BY <2>1, <2>2 DEF Delete
<1>4. /\ CallInv'
      /\ \A q \in Procs : call'[q].op = call[q].op /\ call'[q].sid = call[q].sid
      /\ call'[p].pc = "done"
      /\ \A q \in Procs \ {p} : call'[q] = call[q]
  <2>1. PICK a \in {"ok", "none", "err"} : Answer(p, a)
    BY <1>0 DEF Delete, Replied, OnError
  <2> QED
    BY <1>0, <1>1, <2>1, HasCallInv, AnswerMoves
<1> HIDE DEF id
<1>5. CopyIsPayload' /\ LogoutTookIt' /\ UnbornIsOut' /\ EndedStaysOut' /\ KeysOutlivePayloads'
  <2>1. call'[p].sid = id
    BY <1>4 DEF id
  <2> QED
    BY <1>1, <1>2, <1>4, <2>1, KeysGo
<1>6. TypeOK'
  BY <1>1, <1>2, <1>3, <1>4 DEF IInv, TypeOK, CallInv
<1>7. IndexCovers'
  BY <1>1, <1>2, <1>3 DEF IInv, IndexCovers, Listed
<1>8. RevokeCovers'
  <2>1. \A q \in Procs : Undue(call'[q])
    BY <1>4, RequestUndue DEF Undue
  <2> QED
    BY <1>1, <1>2, <2>1, StillCovers
<1> QED
  BY <1>4, <1>5, <1>6, <1>7, <1>8 DEF IInv, CallInv

(* EXPIRE lengthens a key's life, if the key is there, and nothing else.   *)
LEMMA TouchKeeps == ASSUME IInv, NEW p \in Procs, Touch(p) PROVE IInv'
<1> DEFINE id == call[p].sid
<1>0. RequestOK(call[p]) /\ call[p].pc = "touch" /\ call[p].op = "current"
  BY HasCallInv, RequestsOK DEF Touch, At, RequestOK
<1>1. UNCHANGED <<sliding, now, minted, issued, ended, index, revoke, orphans>> /\ ~call[p].late
  BY <1>0 DEF Touch, RequestOK
<1>2. now \in Nat /\ now + TTL \in Nat
  BY TTLAssumption DEF IInv, TypeOK, CallTypeOK
<1>3. /\ DOMAIN kv' = DOMAIN kv
      /\ \A x \in DOMAIN kv : /\ kv'[x] \in Key
                              /\ kv'[x].exp = kv[x].exp
                              /\ kv'[x].ttlEnd \in {kv[x].ttlEnd, now + TTL}
  <2>1. \A x \in DOMAIN kv : kv[x] \in Key
    BY DEF IInv, TypeOK, Key
  <2>2. CASE kv' = kv
    BY <2>1, <2>2
  <2>3. CASE id \in DOMAIN kv /\ kv' = [kv EXCEPT ![id].ttlEnd = now + TTL]
    <3> DEFINE k == [kv[id] EXCEPT !.ttlEnd = now + TTL]
    <3>1. k \in Key /\ k.exp = kv[id].exp /\ k.ttlEnd = now + TTL
      BY <1>2, <2>1, <2>3 DEF Key
    <3>2. kv' = [kv EXCEPT ![id] = k]
      BY <2>3
    <3> HIDE DEF k
    <3> QED
      BY <2>1, <2>3, <3>1, <3>2
  <2> QED
    BY <2>2, <2>3 DEF Touch
<1>4. /\ CallInv' /\ call'[p].pc = "done" /\ call'[p].ans = "active"
      /\ \A q \in Procs \ {p} : call'[q] = call[q]
  BY <1>0, <1>1, HasCallInv, AnswerMoves DEF Touch
<1>5. CopyIsPayload' /\ LogoutTookIt' /\ UnbornIsOut'
  <2>1. ASSUME NEW q \in Procs PROVE Holds(call'[q], kv', now')
    BY <1>1, <1>3, <1>4, RequestHolds DEF Holds
  <2> QED
    BY <2>1, HoldsThen
<1>6. TypeOK'
  BY <1>1, <1>3, <1>4 DEF IInv, TypeOK, CallInv, Key
<1>7. EndedStaysOut' /\ KeysOutlivePayloads'
  <2>1. ASSUME NEW x \in DOMAIN kv' PROVE kv'[x].exp <= kv'[x].ttlEnd /\ kv'[x].exp <= now' + TTL
    BY <1>1, <1>2, <1>3 DEF IInv, KeysOutlivePayloads, TypeOK
  <2> QED
    BY <1>1, <1>3, <2>1 DEF IInv, EndedStaysOut, KeysOutlivePayloads
<1>8. IndexCovers'
  BY <1>1, <1>3 DEF IInv, IndexCovers, Listed
<1>9. RevokeCovers'
  <2>1. \A q \in Procs : Undue(call'[q])
    BY <1>4, RequestUndue DEF Undue
  <2> QED
    BY <1>1, <1>3, <2>1, StillCovers
<1> QED
  BY <1>4, <1>5, <1>6, <1>7, <1>8, <1>9 DEF IInv, CallInv

--------------------------------------------------------------------------------
(* One revoker's record is replaced; nobody else's.                        *)
LEMMA OneRevokes ==
  ASSUME IInv, NEW r \in Revokers,
         NEW v \in [subject : Subjects \cup {NoSubject}, ids : SUBSET Ids,
                    due : SUBSET minted, ok : BOOLEAN],
         revoke' = [revoke EXCEPT ![r] = v]
  PROVE  /\ revoke'[r] = v /\ \A q \in Revokers \ {r} : revoke'[q] = revoke[q]
         /\ revoke' \in [Revokers -> [subject : Subjects \cup {NoSubject}, ids : SUBSET Ids,
                                      due : SUBSET minted, ok : BOOLEAN]]
BY DEF IInv, TypeOK

LEMMA ReturnedType ==
  ASSUME NEW ok \in BOOLEAN
  PROVE  /\ Returned(ok) \in [subject : Subjects \cup {NoSubject}, ids : SUBSET Ids,
                               due : SUBSET minted, ok : BOOLEAN]
         /\ Returned(ok).due = {} /\ Returned(ok).ok = ok
BY DEF Returned

(* What SMEMBERS returns is all that the index covers.                     *)
LEMMA RevokeReadKeeps ==
  ASSUME IInv, NEW r \in Revokers, NEW s \in Subjects, RevokeRead(r, s) PROVE IInv'
<1> DEFINE v == [subject |-> s, ids |-> Members(s), ok |-> FALSE,
                 due |-> {id \in DOMAIN kv \ orphans : SubjectOf[id] = s}]
<1>1. UNCHANGED <<sliding, now, call, minted, issued, ended, kv, index, orphans>>
  BY DEF RevokeRead, callVars
<1>2. /\ revoke'[r] = v /\ \A q \in Revokers \ {r} : revoke'[q] = revoke[q]
      /\ revoke' \in [Revokers -> [subject : Subjects \cup {NoSubject}, ids : SUBSET Ids,
                                   due : SUBSET minted, ok : BOOLEAN]]
  <2>1. Members(s) \subseteq Ids /\ DOMAIN kv \subseteq minted
    BY DEF Members, IInv, TypeOK, CallTypeOK
  <2>2. v \in [subject : Subjects \cup {NoSubject}, ids : SUBSET Ids,
               due : SUBSET minted, ok : BOOLEAN]
    BY <2>1
  <2>3. revoke' = [revoke EXCEPT ![r] = v]
    BY DEF RevokeRead
  <2> HIDE DEF v
  <2> QED
    BY <2>2, <2>3, OneRevokes
<1>3. CallInv'
  BY <1>1, HasCallInv, ClockMoves
<1>4. TypeOK'
  BY <1>1, <1>2, <1>3 DEF IInv, TypeOK, CallInv
<1>5. RevokeCovers'
  <2> SUFFICES ASSUME NEW q \in Revokers
               PROVE  /\ \A x \in revoke'[q].due \cap DOMAIN kv :
                           now < kv[x].exp => x \in revoke'[q].ids
                      /\ \A p \in Procs : At(p, "create") => call[p].sid \notin revoke'[q].due
    BY <1>1 DEF RevokeCovers, At
  <2>1. CASE q = r
    BY <1>2, <2>1 DEF IInv, IndexCovers, Listed, Members, UnbornIsOut
  <2>2. CASE q # r
    BY <1>2, <2>2 DEF IInv, RevokeCovers
  <2> QED
    BY <2>1, <2>2
<1>6. /\ IndexCovers' /\ CopyIsPayload' /\ LogoutTookIt' /\ UnbornIsOut' /\ EndedStaysOut'
      /\ KeysOutlivePayloads'
  BY <1>1 DEF IInv, IndexCovers, Listed, CopyIsPayload, LogoutTookIt, UnbornIsOut,
              EndedStaysOut, KeysOutlivePayloads, At
<1> QED
  BY <1>3, <1>4, <1>5, <1>6 DEF IInv, CallInv

LEMMA RevokeFailKeeps == ASSUME IInv, NEW r \in Revokers, RevokeFail(r) PROVE IInv'
<1>1. UNCHANGED <<sliding, now, call, minted, issued, ended, kv, index, orphans>>
  BY DEF RevokeFail, callVars
<1>2. /\ revoke'[r].due = {} /\ \A q \in Revokers \ {r} : revoke'[q] = revoke[q]
      /\ revoke' \in [Revokers -> [subject : Subjects \cup {NoSubject}, ids : SUBSET Ids,
                                   due : SUBSET minted, ok : BOOLEAN]]
  BY OneRevokes, ReturnedType DEF RevokeFail
<1>3. CallInv'
  BY <1>1, HasCallInv, ClockMoves
<1>4. TypeOK'
  BY <1>1, <1>2, <1>3 DEF IInv, TypeOK, CallInv
<1>5. RevokeCovers'
  BY <1>1, <1>2 DEF IInv, RevokeCovers, At
<1>6. /\ IndexCovers' /\ CopyIsPayload' /\ LogoutTookIt' /\ UnbornIsOut' /\ EndedStaysOut'
      /\ KeysOutlivePayloads'
  BY <1>1 DEF IInv, IndexCovers, Listed, CopyIsPayload, LogoutTookIt, UnbornIsOut,
              EndedStaysOut, KeysOutlivePayloads, At
<1> QED
  BY <1>3, <1>4, <1>5, <1>6 DEF IInv, CallInv

(* The index of the subject goes; what it listed goes too, or is an orphan.*)
LEMMA RevokeDeleteKeeps == ASSUME IInv, NEW r \in Revokers, RevokeDelete(r) PROVE IInv'
<1> DEFINE s == revoke[r].subject
<1>1. UNCHANGED <<sliding, now, call, minted, issued, ended>>
  BY DEF RevokeDelete, callVars
<1>2. DOMAIN kv \subseteq Ids /\ DOMAIN index \subseteq Subjects
  BY DEF IInv, TypeOK, CallTypeOK
<1>3. DOMAIN kv' = DOMAIN kv \ revoke[r].ids /\ \A x \in DOMAIN kv' : kv'[x] = kv[x]
  BY <1>2 DEF RevokeDelete, Keep
<1>4. DOMAIN index' = DOMAIN index \ {s} /\ \A t \in DOMAIN index' : index'[t] = index[t]
  BY <1>2 DEF RevokeDelete, Keep
<1>5. orphans' = orphans \cup ((Members(s) \ revoke[r].ids) \cap DOMAIN kv)
  BY DEF RevokeDelete
<1> HIDE DEF s
<1>6. CallInv'
  BY <1>1, HasCallInv, ClockMoves
<1>7. /\ revoke'[r].due = {} /\ \A q \in Revokers \ {r} : revoke'[q] = revoke[q]
      /\ revoke' \in [Revokers -> [subject : Subjects \cup {NoSubject}, ids : SUBSET Ids,
                                   due : SUBSET minted, ok : BOOLEAN]]
  BY OneRevokes, ReturnedType DEF RevokeDelete
<1>8. TypeOK'
  BY <1>1, <1>2, <1>3, <1>4, <1>5, <1>6, <1>7 DEF IInv, TypeOK, CallInv
<1>9. CopyIsPayload' /\ LogoutTookIt' /\ UnbornIsOut' /\ EndedStaysOut' /\ KeysOutlivePayloads'
  BY <1>1, <1>3, KeysGo
<1>10. IndexCovers'
  <2> SUFFICES ASSUME NEW x \in DOMAIN kv' \ orphans', now < kv[x].exp PROVE Listed(x)'
    BY <1>1, <1>3 DEF IndexCovers
  <2>1. x \in DOMAIN kv \ orphans /\ x \notin revoke[r].ids /\ kv'[x] = kv[x]
    BY <1>3, <1>5
  <2>2. Listed(x)
    BY <2>1 DEF IInv, IndexCovers
  <2>3. SubjectOf[x] # s
    BY <1>5, <2>1, <2>2 DEF Listed, Members
  <2> QED
    BY <1>4, <2>1, <2>2, <2>3 DEF Listed
<1>11. RevokeCovers'
  BY <1>1, <1>3, <1>7 DEF IInv, RevokeCovers, At
<1> QED
  BY <1>6, <1>8, <1>9, <1>10, <1>11 DEF IInv, CallInv

(* Keys expire when their payloads have, and an index no sooner than the   *)
(* last second of what it lists.                                           *)
LEMMA TickKeeps == ASSUME IInv, RedisTick PROVE IInv'
<1>1. UNCHANGED <<sliding, call, minted, issued, ended, revoke, orphans>> /\ now' = now + 1
      /\ now \in Nat
  BY DEF RedisTick, Tick, IInv, TypeOK, CallTypeOK
<1>2. /\ DOMAIN kv' = {x \in DOMAIN kv : now' <= kv[x].ttlEnd}
      /\ \A x \in DOMAIN kv' : kv'[x] = kv[x]
  BY DEF RedisTick, Keep
<1>3. /\ DOMAIN index' = {t \in DOMAIN index : now' <= index[t].ttlEnd}
      /\ \A t \in DOMAIN index' : index'[t] = index[t]
  BY DEF RedisTick, Keep
<1>4. CallInv'
  BY <1>1, HasCallInv, ClockMoves
<1>5. TypeOK'
  BY <1>1, <1>2, <1>3, <1>4 DEF IInv, TypeOK, CallInv
<1>6. CopyIsPayload' /\ LogoutTookIt' /\ UnbornIsOut' /\ EndedStaysOut' /\ KeysOutlivePayloads'
  BY <1>1, <1>2, KeysGo
<1>7. IndexCovers'
  <2> SUFFICES ASSUME NEW x \in DOMAIN kv' \ orphans', now' < kv'[x].exp PROVE Listed(x)'
    BY DEF IndexCovers
  <2>1. x \in DOMAIN kv \ orphans /\ kv'[x] = kv[x] /\ kv[x].exp \in Nat
    BY <1>1, <1>2 DEF IInv, TypeOK
  <2>2. Listed(x)
    BY <1>1, <2>1 DEF IInv, IndexCovers
  <2>3. index[SubjectOf[x]].ttlEnd \in Nat
    BY <2>2 DEF Listed, IInv, TypeOK
  <2> QED
    BY <1>1, <1>3, <2>1, <2>2, <2>3 DEF Listed
<1>8. RevokeCovers'
  <2>1. \A q \in Procs : Undue(call'[q])
    BY <1>1, RequestUndue
  <2> QED
    BY <1>1, <1>2, <2>1, StillCovers
<1> QED
  BY <1>4, <1>5, <1>6, <1>7, <1>8 DEF IInv, CallInv

LEMMA ServiceKeeps ==
  ASSUME IInv, NEW p \in Procs, ServiceStep(p), UNCHANGED redisVars
  PROVE  IInv'
<1>0. ended \cap DOMAIN kv = {} /\ Holds(call[p], kv, now)
  BY RequestHolds DEF IInv, EndedStaysOut
<1>1. CASE BeginCallback(p) \/ BeginCurrent(p) \/ BeginLogout(p)
  <2>1. CallInv' /\ Began(p)
    BY <1>1, HasCallInv, CallbackMoves, CurrentMoves
  <2>2. Holds(call'[p], kv, now)
    <3>1. now + TTL \in Nat
      BY TTLAssumption DEF IInv, TypeOK, CallTypeOK
    <3>2. DOMAIN kv \subseteq minted
      BY DEF IInv, TypeOK
    <3> QED
      BY <2>1, <3>1, <3>2 DEF Began, Holds
  <2>3. Undue(call'[p])
    BY <2>1 DEF Began, Undue, IInv, TypeOK
  <2> QED
    BY <1>0, <2>1, <2>2, <2>3, RequestOnly DEF Began
<1>2. CASE CurrentCheck(p)
  <2>1. /\ CallInv' /\ UNCHANGED <<now, minted, ended>>
        /\ call'[p].op = "current" /\ call'[p].sid = call[p].sid
        /\ call'[p].exp = call[p].exp
        /\ \/ call'[p].pc = "svcdel" /\ now > call[p].exp
           \/ call'[p].pc \in {"touch", "done"}
        /\ \A q \in Procs \ {p} : call'[q] = call[q]
    BY <1>2, HasCallInv, CheckMoves
  <2>2. Holds(call'[p], kv, now)
    BY <1>0, <1>2, <2>1 DEF Holds, CurrentCheck, At
  <2> QED
    BY <1>0, <2>1, <2>2, RequestOnly DEF Undue
<1>3. CASE Respond(p)
  <2>1. /\ CallInv' /\ UNCHANGED <<now, minted>>
        /\ call'[p] = Idle /\ Idle.op = "idle" /\ Idle.pc = "idle"
        /\ \A q \in Procs \ {p} : call'[q] = call[q]
        /\ \/ ended' = ended
           \/ call[p].op = "logout" /\ call[p].ans = "ok" /\ ended' = ended \cup {call[p].sid}
    BY <1>3, HasCallInv, RespondMoves DEF Idle
  <2>2. ended' \cap DOMAIN kv = {}
    BY <1>0, <2>1 DEF Holds
  <2> QED
    BY <2>1, <2>2, RequestOnly DEF Holds, Undue
<1> QED
  BY <1>1, <1>2, <1>3 DEF ServiceStep

LEMMA NextInv == IInv /\ [Next]_vars => IInv'
<1> SUFFICES ASSUME IInv, [Next]_vars PROVE IInv'
  OBVIOUS
<1>1. ASSUME NEW p \in Procs, StoreStep(p) PROVE IInv'
  BY <1>1, CreateKeeps, GetKeeps, DecodeKeeps, DeleteKeeps, TouchKeeps, FailKeeps DEF StoreStep
<1>2. ASSUME NEW p \in Procs, ServiceStep(p), UNCHANGED redisVars PROVE IInv'
  BY <1>2, ServiceKeeps
<1>3. ASSUME NEW r \in Revokers, NEW s \in Subjects, RevokeRead(r, s) PROVE IInv'
  BY <1>3, RevokeReadKeeps
<1>4. ASSUME NEW r \in Revokers, RevokeFail(r) \/ RevokeDelete(r) PROVE IInv'
  BY <1>4, RevokeFailKeeps, RevokeDeleteKeeps
<1>5. CASE RedisTick
  BY <1>5, TickKeeps
<1>6. CASE UNCHANGED vars
  <2>1. UNCHANGED <<sliding, now, call, minted, issued, ended, kv, index, revoke, orphans>>
    BY <1>6 DEF vars, callVars, redisVars
  <2>2. CallInv'
    BY <2>1, HasCallInv, ClockMoves
  <2>3. TypeOK' /\ LogoutTookIt' /\ EndedStaysOut' /\ UnbornIsOut'
    BY <2>1, <2>2 DEF IInv, CallInv, TypeOK, LogoutTookIt, EndedStaysOut, UnbornIsOut, At
  <2>4. IndexCovers' /\ RevokeCovers' /\ KeysOutlivePayloads' /\ CopyIsPayload'
    BY <2>1 DEF IInv, IndexCovers, Listed, RevokeCovers, KeysOutlivePayloads, CopyIsPayload, At
  <2> QED
    BY <2>2, <2>3, <2>4 DEF IInv, CallInv
<1> QED
  BY <1>1, <1>2, <1>3, <1>4, <1>5, <1>6 DEF Next

--------------------------------------------------------------------------------
(* The invariant holds of every behaviour of the store and the service.    *)
THEOREM InvHolds == Spec => []IInv
BY InitInv, NextInv, PTL DEF Spec

(* No request that begins after a logout was acknowledged is told that the *)
(* session is active, with lost replies and refreshes under way.           *)
THEOREM LogoutFinality == Spec => []LogoutIsFinal
<1>1. IInv => LogoutIsFinal
  BY DEF IInv, LateIsBlind, LogoutIsFinal
<1> QED
  BY <1>1, InvHolds, PTL

(* When DeleteBySubject returns nil, nothing its subject had when the call *)
(* began is good for more than its last second, however many revocations   *)
(* and requests run at once; an error promises nothing.                    *)
THEOREM RevocationIsComplete == Spec => RevocationComplete
<1>1. IInv /\ [Next]_vars => [\A r \in Revokers : Revoking(r) /\ revoke'[r] = Returned(TRUE) =>
        \A id \in revoke[r].due \cap DOMAIN kv' : now >= kv'[id].exp]_vars
  <2> SUFFICES ASSUME IInv, Next, NEW r \in Revokers, Revoking(r), revoke'[r] = Returned(TRUE),
                      NEW id \in revoke[r].due \cap DOMAIN kv'
               PROVE  now >= kv'[id].exp
    OBVIOUS
  <2>1. revoke'[r] # revoke[r] /\ revoke'[r].subject = NoSubject /\ revoke'[r].ok
    BY DEF Returned, Revoking
  <2>2. RevokeDelete(r)
    <3>1. ASSUME NEW p \in Procs, StoreStep(p) PROVE FALSE
      BY <2>1, <3>1 DEF StoreStep, Create, Get, Decode, Delete, Touch, Fail, redisVars
    <3>2. ASSUME NEW p \in Procs, ServiceStep(p), UNCHANGED redisVars PROVE FALSE
      BY <2>1, <3>2 DEF redisVars
    <3>3. ASSUME NEW q \in Revokers, NEW s \in Subjects, RevokeRead(q, s) PROVE FALSE
      BY <2>1, <3>3, NoSubjectAssumption DEF RevokeRead, IInv, TypeOK
    <3>4. ASSUME NEW q \in Revokers, RevokeFail(q) PROVE FALSE
      BY <2>1, <3>4, ReturnedType DEF RevokeFail, IInv, TypeOK
    <3>5. ASSUME NEW q \in Revokers, RevokeDelete(q) PROVE q = r
      BY <2>1, <3>5 DEF RevokeDelete, IInv, TypeOK
    <3>6. CASE RedisTick
      BY <2>1, <3>6 DEF RedisTick
    <3> QED
      BY <3>1, <3>2, <3>3, <3>4, <3>5, <3>6 DEF Next
  <2>3. DOMAIN kv' = DOMAIN kv \ revoke[r].ids /\ kv'[id] = kv[id]
    <3>1. DOMAIN kv \subseteq Ids
      BY DEF IInv, TypeOK, CallTypeOK
    <3> QED
      BY <2>2, <3>1 DEF RevokeDelete, Keep
  <2>4. ~(now < kv[id].exp) /\ kv[id].exp \in Nat /\ now \in Nat
    BY <2>3 DEF IInv, RevokeCovers, TypeOK, CallTypeOK
  <2> QED
    BY <2>3, <2>4
<1> QED
  BY <1>1, InvHolds, PTL DEF Spec, RevocationComplete

(* Get's expiry delete, and Current's, take no session that is not over;   *)
(* Redis drops no key before its payload is over.                          *)
THEOREM UnexpiredStays == Spec => UnexpiredSurvives
<1>1. IInv /\ [Next]_vars => [\A id \in Ids : Open(id) /\ id \notin DOMAIN kv' =>
        \/ now' > kv[id].exp
        \/ \E r \in Revokers : id \in revoke[r].ids
        \/ \E p \in Procs : At(p, "delete") /\ call[p].sid = id]_vars
  <2> SUFFICES ASSUME IInv, Next, NEW id \in Ids, Open(id), id \notin DOMAIN kv',
                      ~ \E r \in Revokers : id \in revoke[r].ids,
                      ~ \E p \in Procs : At(p, "delete") /\ call[p].sid = id
               PROVE  now' > kv[id].exp
    OBVIOUS
  <2>0. id \in DOMAIN kv /\ now <= kv[id].exp /\ now \in Nat /\ kv[id].exp \in Nat
    BY DEF Open, IInv, TypeOK, CallTypeOK
  <2>1. ASSUME NEW p \in Procs, StoreStep(p) PROVE FALSE
    <3>1. CASE Create(p) \/ Get(p) \/ Decode(p) \/ Touch(p) \/ Fail(p)
      BY <2>0, <3>1 DEF Create, Get, Decode, Touch, Fail, redisVars, Put
    <3>2. CASE Delete(p)
      <4>1. call[p].sid = id /\ call[p].pc \in {"getdel", "svcdel"}
        BY <2>0, <3>2 DEF Delete, Keep, At
      <4>2. Holds(call[p], kv, now) /\ call[p].exp \in Nat
        BY HasCallInv, RequestsOK, RequestHolds DEF RequestOK, Call
      <4> QED
        BY <2>0, <4>1, <4>2 DEF Holds
    <3> QED
      BY <2>1, <3>1, <3>2 DEF StoreStep
  <2>2. CASE RedisTick
    <3>1. now' > kv[id].ttlEnd
      BY <2>0, <2>2 DEF RedisTick, Keep, Tick, IInv, TypeOK
    <3> QED
      BY <2>0, <2>2, <3>1 DEF IInv, KeysOutlivePayloads, TypeOK, RedisTick, Tick
  <2>3. ASSUME NEW r \in Revokers, RevokeDelete(r) PROVE FALSE
    BY <2>0, <2>3 DEF RevokeDelete, Keep
  <2> QED
    BY <2>0, <2>1, <2>2, <2>3 DEF Next, redisVars, RevokeRead, RevokeFail
<1> QED
  BY <1>1, InvHolds, PTL DEF Spec, UnexpiredSurvives

--------------------------------------------------------------------------------
(* The refinement: each step is, for every id, a step of its life, and for *)
(* every request a step of its query.                                      *)
Statuses == {"unborn", "open", "lapsed", "gone"}
Answers == {"none", "active", "ok", "full", "err"}

Seen(id) == \E p \in Procs : QueryOf(p).phase = "seen" /\ QueryOf(p).sid = id

Lives(id) ==
  \/ StatusOf(id)' = StatusOf(id)
  \/ StatusOf(id) = "unborn"
  \/ StatusOf(id) = "open" /\ StatusOf(id)' \in {"lapsed", "gone"}
  \/ StatusOf(id) = "lapsed" /\ StatusOf(id)' = "gone"
  \/ StatusOf(id) = "lapsed" /\ StatusOf(id)' = "open" /\ Seen(id)

Moves(p) ==
  \/ Silent(p)
  \/ Asks(p)
  \/ Sees(p) /\ StatusOf(call[p].sid) = "open"
  \/ \E a \in Answers :
       /\ Replies(p, a)
       /\ \A id \in Ids : call[p].op = "logout" /\ a = "ok" /\ call[p].sid = id
                            => StatusOf(id)' = "gone"
  \/ Clears(p)

LEMMA StatusFacts ==
  ASSUME IInv, NEW id
  PROVE  /\ StatusOf(id) \in Statuses
         /\ id \in DOMAIN kv => \/ StatusOf(id) = "open" /\ now <= kv[id].exp
                                \/ StatusOf(id) = "lapsed" /\ now > kv[id].exp
         /\ id \notin DOMAIN kv /\ Unborn(id) => StatusOf(id) = "unborn"
         /\ id \notin DOMAIN kv /\ ~Unborn(id) => StatusOf(id) = "gone"
<1>1. CASE id \in DOMAIN kv
  <2>1. kv[id].exp \in Nat /\ now \in Nat
    BY <1>1 DEF IInv, TypeOK, CallTypeOK
  <2> QED
    BY <1>1, <2>1 DEF StatusOf, Statuses
<1>2. CASE id \notin DOMAIN kv
  BY <1>2 DEF StatusOf, Statuses
<1> QED
  BY <1>1, <1>2

(* The life of an id goes on when only its callback stores it, its payload *)
(* is never rewritten, and ids are drawn once.                             *)
LEMMA LifeGoesOn ==
  ASSUME IInv, IInv', NEW id \in Ids, now <= now', minted \subseteq minted',
         id \in DOMAIN kv' \ DOMAIN kv => Unborn(id),
         id \in DOMAIN kv \cap DOMAIN kv' => kv'[id].exp = kv[id].exp,
         \A q \in Procs : call'[q].pc = "create" =>
           \/ call[q].pc = "create" /\ call'[q].sid = call[q].sid
           \/ call'[q].sid \notin minted
  PROVE  Lives(id)
<1>1. /\ StatusOf(id)' \in Statuses
      /\ id \in DOMAIN kv' => \/ StatusOf(id)' = "open" /\ now' <= kv'[id].exp
                              \/ StatusOf(id)' = "lapsed" /\ now' > kv'[id].exp
      /\ id \notin DOMAIN kv' /\ ~Unborn(id)' => StatusOf(id)' = "gone"
  <2>1. CASE id \in DOMAIN kv'
    <3>1. kv'[id].exp \in Nat /\ now' \in Nat
      BY <2>1 DEF IInv, TypeOK, CallTypeOK
    <3> QED
      BY <2>1, <3>1 DEF StatusOf, Statuses
  <2>2. CASE id \notin DOMAIN kv'
    BY <2>2 DEF StatusOf, Statuses
  <2> QED
    BY <2>1, <2>2
<1>2. ~Unborn(id) => ~Unborn(id)'
  BY DEF Unborn, At
<1>3. CASE id \in DOMAIN kv
  <2>1. ~Unborn(id)
    BY <1>3 DEF Unborn, IInv, UnbornIsOut, TypeOK
  <2>2. CASE id \notin DOMAIN kv'
    BY <1>1, <1>2, <1>3, <2>1, <2>2, StatusFacts DEF Lives
  <2>3. CASE id \in DOMAIN kv'
    <3>1. kv[id].exp \in Nat /\ now \in Nat /\ now' \in Nat /\ kv'[id].exp = kv[id].exp
      BY <1>3, <2>3 DEF IInv, TypeOK, CallTypeOK
    <3> QED
      BY <1>1, <1>3, <2>3, <3>1, StatusFacts DEF Lives
  <2> QED
    BY <1>3, <2>2, <2>3
<1>4. CASE id \notin DOMAIN kv
  BY <1>1, <1>2, <1>4, StatusFacts DEF Lives
<1> QED
  BY <1>3, <1>4

Simulated == (\A id \in Ids : Lives(id)) /\ (\A p \in Procs : Moves(p))

(* The goroutines that a step leaves alone are silent.                     *)
LEMMA OthersSilent ==
  ASSUME NEW p \in Procs, Moves(p), \A q \in Procs \ {p} : call'[q] = call[q]
  PROVE  \A q \in Procs : Moves(q)
<1> SUFFICES ASSUME NEW q \in Procs PROVE Moves(q)
  OBVIOUS
<1>1. CASE q = p
  BY <1>1
<1>2. CASE q # p
  BY <1>2, SilentWhen DEF Moves
<1> QED
  BY <1>1, <1>2

(* An answer of goroutine p, as SessionContract is shown it.               *)
LEMMA AnswerMovesQuery ==
  ASSUME IInv, NEW p \in Procs, NEW a \in Answers, Answer(p, a),
         call[p].pc \notin {"idle", "done"},
         a = "active" => call[p].saw,
         call[p].op = "current" => a \in {"active", "none"},
         call[p].op = "logout" => a # "ok"
  PROVE  Moves(p)
<1>1. Replies(p, a)
  BY HasCallInv, AnswerReplies
<1> QED
  BY <1>1 DEF Moves

(* A step that stores nothing new and rewrites no payload.                 *)
LEMMA StoreSimulated ==
  ASSUME IInv, IInv', NEW p \in Procs, Moves(p),
         \A q \in Procs \ {p} : call'[q] = call[q],
         call'[p].pc = "create" => call'[p].sid \notin minted,
         DOMAIN kv' \subseteq DOMAIN kv,
         \A id \in DOMAIN kv' : kv'[id].exp = kv[id].exp,
         now' = now, minted \subseteq minted'
  PROVE  Simulated
<1>1. ASSUME NEW id \in Ids PROVE Lives(id)
  <2>1. now <= now'
    BY DEF IInv, TypeOK, CallTypeOK
  <2>2. \A q \in Procs : call'[q].pc = "create" =>
           \/ call[q].pc = "create" /\ call'[q].sid = call[q].sid
           \/ call'[q].sid \notin minted
    OBVIOUS
  <2> QED
    BY <2>1, <2>2, LifeGoesOn
<1> QED
  BY <1>1, OthersSilent DEF Simulated

LEMMA CreateSimulated == ASSUME IInv, IInv', NEW p \in Procs, Create(p) PROVE Simulated
<1>0. RequestOK(call[p]) /\ call[p].pc = "create" /\ call[p].op = "callback"
      /\ call[p].sid \notin DOMAIN kv
  BY HasCallInv, RequestsOK, RequestHolds DEF Create, At, RequestOK, Holds
<1>1. UNCHANGED <<now, minted, issued, ended>>
  BY DEF Create
<1>2. /\ DOMAIN kv' = DOMAIN kv \cup {call[p].sid}
      /\ \A x \in DOMAIN kv : kv'[x] = kv[x]
  BY <1>0 DEF Create, Put
<1>3. PICK a \in {"err", "ok"} : Answer(p, a)
  BY DEF Create, Replied, OnError
<1>4. call'[p].pc = "done" /\ \A q \in Procs \ {p} : call'[q] = call[q]
  BY <1>3 DEF Answer, IInv, TypeOK, CallTypeOK, Call
<1>5. Moves(p)
  BY <1>0, <1>3, AnswerMovesQuery DEF Answers
<1>6. ASSUME NEW id \in Ids PROVE Lives(id)
  <2>1. id \in DOMAIN kv' \ DOMAIN kv => Unborn(id)
    BY <1>0, <1>2 DEF Unborn, At
  <2>2. now <= now' /\ minted \subseteq minted'
    BY <1>1 DEF IInv, TypeOK, CallTypeOK
  <2> QED
    BY <1>2, <1>4, <2>1, <2>2, LifeGoesOn
<1> QED
  BY <1>4, <1>5, <1>6, OthersSilent DEF Simulated

LEMMA GetSimulated == ASSUME IInv, IInv', NEW p \in Procs, Get(p) PROVE Simulated
<1> DEFINE id == call[p].sid
<1>0. /\ RequestOK(call[p]) /\ OriginOK(call[p])
      /\ call[p].pc = "get" /\ call[p].op = "current" /\ ~call[p].saw
  BY HasCallInv, RequestsOK DEF Get, At, RequestOK
<1>1. UNCHANGED <<sliding, now, minted, issued, ended, kv>>
  BY DEF Get, redisVars
<1>2. CASE Answer(p, "none")
  <2>1. call'[p].pc = "done" /\ \A q \in Procs \ {p} : call'[q] = call[q]
    BY <1>2 DEF Answer, IInv, TypeOK, CallTypeOK, Call
  <2>2. Moves(p)
    BY <1>0, <1>2, AnswerMovesQuery DEF Answers
  <2> QED
    BY <1>1, <2>1, <2>2, StoreSimulated
<1>3. CASE id \in DOMAIN kv /\ GotRead(p, "decode", kv[id].exp)
  <2>1. ~call[p].late
    BY <1>0, <1>3 DEF OriginOK, IInv, EndedStaysOut
  <2>2. kv[id].exp \in Nat
    BY <1>3 DEF IInv, TypeOK
  <2>3. /\ call'[p].pc = "decode" /\ (call'[p].saw <=> now <= kv[id].exp)
        /\ call'[p].op = call[p].op /\ call'[p].sid = id /\ call'[p].ans = call[p].ans
        /\ CallInv' /\ \A q \in Procs \ {p} : call'[q] = call[q]
    BY <1>0, <1>1, <1>3, <2>1, <2>2, HasCallInv, ReadMoves
  <2>4. CASE now <= kv[id].exp
    <3>1. Sees(p)
      BY <1>0, <2>3, <2>4, HasCallInv, ReadSees
    <3>2. StatusOf(id) = "open"
      BY <1>3, <2>2, <2>4, StatusFacts DEF IInv, TypeOK, CallTypeOK
    <3>3. Moves(p)
      BY <3>1, <3>2 DEF Moves
    <3> QED
      BY <1>1, <2>3, <3>3, StoreSimulated
  <2>5. CASE ~(now <= kv[id].exp)
    <3>1. call'[p].saw = call[p].saw
      <4>1. call[p].saw \in BOOLEAN /\ call'[p].saw \in BOOLEAN
        BY <2>3 DEF IInv, TypeOK, CallInv, CallTypeOK, Call
      <4> QED
        BY <1>0, <2>3, <2>5, <4>1
    <3>2. Moves(p)
      BY <1>0, <2>3, <3>1, SilentWhen DEF Moves
    <3> QED
      BY <1>1, <2>3, <3>2, StoreSimulated
  <2> QED
    BY <2>4, <2>5
<1> QED
  BY <1>2, <1>3 DEF Get

LEMMA DecodeSimulated == ASSUME IInv, IInv', NEW p \in Procs, Decode(p) PROVE Simulated
<1>1. UNCHANGED <<sliding, now, minted, issued, ended, kv>> /\ call[p].pc = "decode"
  BY DEF Decode, redisVars, At
<1>2. PICK pc \in {"getdel", "check"} : Goto(p, pc)
  BY DEF Decode
<1>3. /\ call'[p].pc = pc /\ call'[p].saw = call[p].saw
      /\ call'[p].op = call[p].op /\ call'[p].sid = call[p].sid /\ call'[p].ans = call[p].ans
      /\ \A q \in Procs \ {p} : call'[q] = call[q]
  BY <1>2 DEF Goto, IInv, TypeOK, CallTypeOK, Call
<1>4. Moves(p)
  BY <1>1, <1>3, SilentWhen DEF Moves
<1> QED
  BY <1>1, <1>3, <1>4, StoreSimulated

LEMMA FailSimulated == ASSUME IInv, IInv', NEW p \in Procs, Fail(p) PROVE Simulated
<1> DEFINE a == OnError(call[p].pc)
<1>0. RequestOK(call[p]) /\ call[p].pc \in StorePC /\ Answer(p, a)
  BY HasCallInv, RequestsOK DEF Fail
<1>1. UNCHANGED <<now, minted, issued, ended, kv>>
  BY DEF Fail, redisVars
<1>2. /\ a \in {"active", "none", "err"} /\ (a = "active" => call[p].saw)
      /\ call[p].op = "current" => a \in {"active", "none"}
      /\ call[p].pc \notin {"idle", "done"}
  BY <1>0 DEF OnError, RequestOK, StorePC
<1> HIDE DEF a
<1>3. call'[p].pc = "done" /\ \A q \in Procs \ {p} : call'[q] = call[q]
  BY <1>0 DEF Answer, IInv, TypeOK, CallTypeOK, Call
<1>4. Moves(p)
  BY <1>0, <1>2, AnswerMovesQuery DEF Answers
<1> QED
  BY <1>1, <1>3, <1>4, StoreSimulated

(* A logout is answered "ok" only as its session goes; one whose reply is  *)
(* lost is answered with an error.                                         *)
LEMMA DeleteSimulated == ASSUME IInv, IInv', NEW p \in Procs, Delete(p) PROVE Simulated
<1>0. /\ RequestOK(call[p]) /\ OriginOK(call[p])
      /\ call[p].pc \in {"delete", "getdel", "svcdel"}
  BY HasCallInv, RequestsOK DEF Delete
<1>1. UNCHANGED <<now, minted, issued, ended>>
  BY DEF Delete
<1>2. /\ DOMAIN kv' = DOMAIN kv \ {call[p].sid}
      /\ \A x \in DOMAIN kv' : kv'[x] = kv[x]
  <2>1. DOMAIN kv \subseteq Ids
    BY DEF IInv, TypeOK, CallTypeOK
  <2> QED
    BY <2>1 DEF Delete, Keep
<1>3. PICK a \in {"ok", "none", "err"} :
        Answer(p, a) /\ (call[p].op = "current" => a = "none")
  BY <1>0 DEF Delete, Replied, OnError, At, RequestOK
<1>4. call'[p].pc = "done" /\ \A q \in Procs \ {p} : call'[q] = call[q]
  BY <1>3 DEF Answer, IInv, TypeOK, CallTypeOK, Call
<1>5. Moves(p)
  <2>1. Replies(p, a)
    BY <1>0, <1>3, HasCallInv, AnswerReplies DEF RequestOK
  <2>2. ASSUME NEW c \in Ids, call[p].op = "logout", call[p].sid = c
        PROVE  StatusOf(c)' = "gone"
    <3>1. c \in issued' /\ c \in minted' /\ c \notin DOMAIN kv'
      BY <1>0, <1>1, <1>2, <2>2 DEF OriginOK, IInv, TypeOK, CallTypeOK
    <3>2. \A q \in Procs : call'[q].pc = "create" => call'[q].sid \notin issued'
      BY DEF IInv, StepsOfOps, MintedOnce, At
    <3>3. ~Unborn(c)'
      BY <3>1, <3>2 DEF Unborn, At
    <3> QED
      BY <3>1, <3>3 DEF StatusOf
  <2> QED
    BY <2>1, <2>2 DEF Moves, Answers
<1> QED
  BY <1>1, <1>2, <1>4, <1>5, StoreSimulated

LEMMA TouchSimulated == ASSUME IInv, IInv', NEW p \in Procs, Touch(p) PROVE Simulated
<1>0. RequestOK(call[p]) /\ call[p].pc = "touch" /\ call[p].op = "current" /\ call[p].saw
  BY HasCallInv, RequestsOK DEF Touch, At, RequestOK
<1>1. UNCHANGED <<now, minted, issued, ended>> /\ Answer(p, "active")
  BY DEF Touch
<1>2. DOMAIN kv' = DOMAIN kv /\ \A x \in DOMAIN kv' : kv'[x].exp = kv[x].exp
  BY DEF Touch, IInv, TypeOK
<1>3. call'[p].pc = "done" /\ \A q \in Procs \ {p} : call'[q] = call[q]
  BY <1>1 DEF Answer, IInv, TypeOK, CallTypeOK, Call
<1>4. Moves(p)
  BY <1>0, <1>1, AnswerMovesQuery DEF Answers
<1> QED
  BY <1>1, <1>2, <1>3, <1>4, StoreSimulated

(* The steps of the service: a request begins, looks at its copy, answers. *)
LEMMA ServiceSimulated ==
  ASSUME IInv, IInv', NEW p \in Procs, ServiceStep(p), UNCHANGED redisVars
  PROVE  Simulated
<1>0. kv' = kv
  BY DEF redisVars
<1>1. SUFFICES /\ Moves(p) /\ now' = now /\ minted \subseteq minted'
               /\ \A q \in Procs \ {p} : call'[q] = call[q]
               /\ call'[p].pc = "create" => call'[p].sid \notin minted
  BY <1>0, StoreSimulated
<1>2. CASE BeginCallback(p) \/ BeginCurrent(p) \/ BeginLogout(p)
  <2>1. Began(p)
    BY <1>2, HasCallInv, CallbackMoves, CurrentMoves
  <2>2. Moves(p)
    BY <2>1, HasCallInv, BeganAsks DEF Moves
  <2> QED
    BY <2>1, <2>2 DEF Began
<1>3. CASE CurrentCheck(p)
  <2>1. /\ UNCHANGED <<now, minted>> /\ call[p].op = "current" /\ call[p].pc = "check"
        /\ call[p].saw /\ call'[p].op = call[p].op /\ call'[p].sid = call[p].sid
        /\ call'[p].pc \in {"svcdel", "touch", "done"}
        /\ \/ call'[p].pc # "done" /\ call'[p].saw = call[p].saw /\ call'[p].ans = call[p].ans
           \/ Answer(p, "active")
        /\ \A q \in Procs \ {p} : call'[q] = call[q]
    BY <1>3, HasCallInv, CheckMoves
  <2>2. CASE Answer(p, "active")
    BY <2>1, <2>2, AnswerMovesQuery DEF Answers
  <2>3. CASE call'[p].pc # "done" /\ call'[p].saw = call[p].saw /\ call'[p].ans = call[p].ans
    BY <2>1, <2>3, SilentWhen DEF Moves
  <2> QED
    BY <2>1, <2>2, <2>3
<1>4. CASE Respond(p)
  <2>1. /\ UNCHANGED <<now, minted>> /\ call[p].pc = "done" /\ call'[p] = Idle
        /\ Idle.pc = "idle" /\ \A q \in Procs \ {p} : call'[q] = call[q]
    BY <1>4, HasCallInv, RespondMoves DEF Idle
  <2> QED
    BY <2>1, RespondClears DEF Moves
<1> QED
  BY <1>2, <1>3, <1>4 DEF ServiceStep

(* Revocation and the expiry of keys.                                      *)
LEMMA JanitorSimulated ==
  ASSUME IInv, IInv', DOMAIN kv' \subseteq DOMAIN kv, \A x \in DOMAIN kv' : kv'[x] = kv[x],
         UNCHANGED <<call, minted>>, now' \in {now, now + 1}
  PROVE  Simulated
<1>1. now <= now'
  BY DEF IInv, TypeOK, CallTypeOK
<1>2. \A id \in Ids : Lives(id)
  BY <1>1, LifeGoesOn
<1>3. \A p \in Procs : Moves(p)
  BY SilentWhen DEF Moves
<1> QED
  BY <1>2, <1>3 DEF Simulated

LEMMA NextSimulated == IInv /\ IInv' /\ [Next]_vars => Simulated
<1> SUFFICES ASSUME IInv, IInv', [Next]_vars PROVE Simulated
  OBVIOUS
<1>1. ASSUME NEW p \in Procs, StoreStep(p) PROVE Simulated
  BY <1>1, CreateSimulated, GetSimulated, DecodeSimulated, DeleteSimulated, TouchSimulated,
     FailSimulated DEF StoreStep
<1>2. ASSUME NEW p \in Procs, ServiceStep(p), UNCHANGED redisVars PROVE Simulated
  BY <1>2, ServiceSimulated
<1>3. ASSUME NEW r \in Revokers, NEW s \in Subjects, RevokeRead(r, s) PROVE Simulated
  BY <1>3, JanitorSimulated DEF RevokeRead, callVars
<1>4. ASSUME NEW r \in Revokers, RevokeFail(r) \/ RevokeDelete(r) PROVE Simulated
  <2>1. /\ UNCHANGED <<call, minted, now>> /\ DOMAIN kv' \subseteq DOMAIN kv
        /\ \A x \in DOMAIN kv' : kv'[x] = kv[x]
    BY <1>4 DEF RevokeFail, RevokeDelete, callVars, Keep
  <2> QED
    BY <2>1, JanitorSimulated
<1>5. CASE RedisTick
  BY <1>5, JanitorSimulated DEF RedisTick, Tick, Keep
<1>6. CASE UNCHANGED vars
  BY <1>6, JanitorSimulated DEF vars, callVars, redisVars
<1> QED
  BY <1>1, <1>2, <1>3, <1>4, <1>5, <1>6 DEF Next

(* What has been shown of each id and each request, in the contract's words.*)
LEMMA StatusTyped == IInv => [id \in Ids |-> StatusOf(id)] \in [Ids -> Statuses]
BY StatusFacts

LEMMA QueryTyped == IInv => [p \in Procs |-> QueryOf(p)] \in [Procs -> Contract!Query]
<1> SUFFICES ASSUME IInv, NEW p \in Procs PROVE QueryOf(p) \in Contract!Query
  OBVIOUS
<1> QED
  BY DEF IInv, TypeOK, CallTypeOK, Call, QueryOf, PhaseOf, Contract!Query

LEMMA ContractInit == Init => Contract!Init
<1> SUFFICES ASSUME Init PROVE Contract!Init
  OBVIOUS
<1>1. ASSUME NEW id \in Ids PROVE StatusOf(id) = "unborn"
  BY DEF Init, CallInit, StatusOf, Unborn
<1>2. ASSUME NEW p \in Procs PROVE QueryOf(p) = Contract!Quiet
  BY DEF Init, CallInit, QueryOf, PhaseOf, Idle, Contract!Quiet
<1> QED
  BY <1>1, <1>2 DEF Contract!Init

LEMMA AskedOfIds ==
  ASSUME IInv, NEW p \in Procs, QueryOf(p).phase \in {"asked", "seen"}
  PROVE  QueryOf(p).sid \in Ids /\ QueryOf(p).sid = call[p].sid /\ QueryOf(p).op = call[p].op
<1>1. call[p].pc \notin {"idle", "done"}
  BY DEF QueryOf, PhaseOf
<1>2. RequestOK(call[p])
  BY HasCallInv, RequestsOK
<1> QED
  BY <1>1, <1>2, QueryFields DEF RequestOK

LEMMA TypedNext ==
  IInv' => /\ ([id \in Ids |-> StatusOf(id)] \in [Ids -> Statuses])'
           /\ ([p \in Procs |-> QueryOf(p)] \in [Procs -> Contract!Query])'
BY StatusTyped, QueryTyped, PTL

LEMMA ContractStep == IInv /\ IInv' /\ Simulated => Contract!Next
<1> SUFFICES ASSUME IInv, IInv', Simulated PROVE Contract!Next
  OBVIOUS
<1>1. /\ [id \in Ids |-> StatusOf(id)]' \in [Ids -> Contract!Status]
      /\ [p \in Procs |-> QueryOf(p)]' \in [Procs -> Contract!Query]
  BY TypedNext DEF Contract!Status, Contract!Query, Statuses
<1>2. ASSUME NEW id \in Ids PROVE Contract!Lifecycle(id)
  BY DEF Simulated, Lives, Seen, Contract!Lifecycle, Contract!Witnessed
<1>3. ASSUME NEW p \in Procs PROVE Contract!Protocol(p)
  <2>0. /\ [q \in Procs |-> QueryOf(q)][p] = QueryOf(p)
        /\ [q \in Procs |-> QueryOf(q)]'[p] = QueryOf(p)'
    OBVIOUS
  <2>1. CASE Silent(p)
    BY <2>0, <2>1 DEF Silent, Contract!Protocol
  <2>2. CASE Asks(p)
    BY <2>0, <2>2 DEF Asks, Unasked, Contract!Protocol, Contract!Ask, Contract!Quiet
  <2>3. CASE Sees(p) /\ StatusOf(call[p].sid) = "open"
    BY <2>0, <2>3, AskedOfIds DEF Sees, Contract!Protocol, Contract!See
  <2>4. ASSUME NEW a \in Answers, Replies(p, a),
               \A id \in Ids : call[p].op = "logout" /\ a = "ok" /\ call[p].sid = id
                                => StatusOf(id)' = "gone"
        PROVE  Contract!Protocol(p)
    BY <2>0, <2>4, AskedOfIds DEF Replies, Answers, Contract!Protocol, Contract!Reply
  <2>5. CASE Clears(p)
    BY <2>0, <2>5 DEF Clears, Unasked, Contract!Protocol, Contract!Clear, Contract!Quiet
  <2> QED
    BY <2>1, <2>2, <2>3, <2>4, <2>5 DEF Simulated, Moves
<1> QED
  BY <1>1, <1>2, <1>3 DEF Contract!Next

(* session.RedisStore behind the authn service, with lost replies and keys *)
(* that expire, implements SessionContract.                                *)
THEOREM Implements == Spec => ImplementsContract
<1>1. IInv /\ IInv' /\ [Next]_vars =>
        [Contract!Next]_<<[id \in Ids |-> StatusOf(id)], [p \in Procs |-> QueryOf(p)]>>
  BY NextSimulated, ContractStep
<1> QED
  BY <1>1, ContractInit, InvHolds, PTL DEF Spec, ImplementsContract, Contract!Spec
================================================================================
