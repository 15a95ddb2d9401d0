-------------------------- MODULE MemorySessionsProofs --------------------------
(***************************************************************************)
(* A logout of the memory store is final, for any number of goroutines and *)
(* sessions, any TTL and any limit, sliding or not.  The inductive         *)
(* invariant is MemorySessions!IInv: Create stores only an id that no      *)
(* browser has yet (MintedOnce), Touch stores only over an entry that is   *)
(* there, and so what a logout took out (LogoutTookIt) stays out when the  *)
(* logout is acknowledged (EndedStaysOut).  And the store implements       *)
(* SessionContract: each of its steps is a step of the contract or none.   *)
(* Without sliding, no entry is written over: what a request has found     *)
(* expired is so for good (Foresight), hence FixedStays.                   *)
(***************************************************************************)
EXTENDS MemorySessions, SessionCallsProofs, FiniteSetTheorems

LEMMA HasCallInv == IInv => CallInv
BY DEF IInv, TypeOK, CallInv

--------------------------------------------------------------------------------
LEMMA WithoutFacts ==
  ASSUME NEW S
  PROVE  /\ DOMAIN Without(S) = Stored \ S
         /\ \A id \in Stored \ S : Without(S)[id] = sessions[id]
BY DEF Without

(* Only a callback that begins comes to store an id, a new one.            *)
LEMMA UnbornStays ==
  ASSUME IInv, Stored' \subseteq Stored,
         \A q \in Procs : call'[q].pc = "create" =>
           \/ call[q].pc = "create" /\ call'[q].sid = call[q].sid
           \/ call'[q].sid \notin minted
  PROVE  UnbornIsOut'
BY DEF IInv, UnbornIsOut, TypeOK, At

LEMMA InitInv == Init => IInv
<1> SUFFICES ASSUME Init PROVE IInv
  OBVIOUS
<1>1. Stored = {}
  BY DEF Init, Stored
<1>2. CallInv /\ \A p \in Procs : call[p].op = "idle"
  BY CallInitInv DEF Init
<1>3. TypeOK /\ LogoutTookIt /\ EndedStaysOut
  BY <1>1, <1>2 DEF Init, CallInv, TypeOK, NoTime, LogoutTookIt, EndedStaysOut
<1>4. UnbornIsOut
  BY <1>1 DEF UnbornIsOut
<1> QED
  BY <1>2, <1>3, <1>4 DEF IInv, CallInv

(* sessions.Create: the id it stores is nobody's but its callback's.       *)
LEMMA CreateKeeps == ASSUME IInv, NEW p \in Procs, Create(p) PROVE IInv'
<1> DEFINE id == call[p].sid
<1>0. RequestOK(call[p]) /\ OriginOK(call[p]) /\ call[p].pc = "create"
  BY HasCallInv, RequestsOK DEF Create, At
<1>1. id \in minted \ issued /\ ~call[p].late
  BY <1>0 DEF RequestOK, OriginOK
<1>2. DOMAIN Purged \subseteq Stored /\ \A x \in DOMAIN Purged : Purged[x] = sessions[x]
  BY WithoutFacts DEF Purged, Stored
<1>3. UNCHANGED <<sliding, now, minted, issued, ended, sweepAt>>
  BY DEF Create
<1>4. \/ sessions' = Purged /\ Answer(p, "full")
      \/ (\E end \in call[p].exp .. now + TTL : sessions' = With(Purged, id, end)) /\ Answer(p, "ok")
  BY DEF Create
<1>5. /\ Stored' \subseteq Stored \cup {id}
      /\ \A x \in Stored' : sessions'[x] \in Nat
  <2>1. CASE sessions' = Purged
    BY <2>1, <1>2 DEF Stored, IInv, TypeOK
  <2>2. CASE \E end \in call[p].exp .. now + TTL : sessions' = With(Purged, id, end)
    <3>1. PICK e \in Nat : sessions' = With(Purged, id, e)
      <4>1. call[p].exp \in Nat /\ now + TTL \in Nat
        BY TTLAssumption DEF IInv, TypeOK, CallTypeOK, Call
      <4> QED
        BY <2>2, <4>1
    <3>2. /\ Stored' = DOMAIN Purged \cup {id}
          /\ sessions'[id] = e
          /\ \A x \in DOMAIN Purged \ {id} : sessions'[x] = Purged[x]
      <4> HIDE DEF id
      <4> QED
        BY <3>1 DEF With, Stored
    <3> QED
      BY <3>1, <3>2, <1>2 DEF IInv, TypeOK
  <2> QED
    BY <1>4, <2>1, <2>2
<1>6. /\ CallInv'
      /\ \A q \in Procs : call'[q].op = call[q].op /\ call'[q].sid = call[q].sid
      /\ call'[p].pc = "done"
      /\ \A q \in Procs \ {p} : call'[q] = call[q]
  <2>1. PICK a \in {"full", "ok"} : Answer(p, a)
    BY <1>4
  <2> QED
    BY <2>1, <1>0, <1>1, <1>3, HasCallInv, AnswerMoves
<1>7. TypeOK'
  BY <1>1, <1>3, <1>5, <1>6 DEF CallInv, IInv, TypeOK
<1>8. LogoutTookIt'
  <2> SUFFICES ASSUME NEW q \in Procs, call'[q].op = "logout", call'[q].ans = "ok"
               PROVE  call'[q].sid \notin Stored'
    BY DEF LogoutTookIt
  <2>1. q # p
    BY <1>0, <1>6 DEF RequestOK
  <2>2. call[q].sid \notin Stored /\ call'[q] = call[q]
    BY <2>1, <1>6 DEF IInv, LogoutTookIt
  <2>3. call[q].sid # id
    BY <2>2, <1>1 DEF IInv, MintedOnce
  <2> QED
    BY <2>2, <2>3, <1>5
<1>9. EndedStaysOut'
  BY <1>1, <1>3, <1>5 DEF IInv, EndedStaysOut, TypeOK, CallTypeOK
<1>10. UnbornIsOut'
  <2> SUFFICES ASSUME NEW q \in Procs, call'[q].pc = "create" PROVE call'[q].sid \notin Stored'
    BY DEF UnbornIsOut, At
  <2>1. q # p /\ call'[q] = call[q]
    BY <1>6
  <2>2. call[q].op = "callback" /\ call[q].sid \notin Stored
    BY <2>1, HasCallInv, RequestsOK DEF RequestOK, IInv, UnbornIsOut, At
  <2>3. call[q].sid # id
    BY <1>0, <2>1, <2>2 DEF RequestOK, IInv, MintedOnce
  <2> QED
    BY <1>5, <2>1, <2>2, <2>3
<1> QED
  BY <1>6, <1>7, <1>8, <1>9, <1>10 DEF CallInv, IInv

(* Get and the cancelled operations move a request and no entry.           *)
LEMMA GetKeeps == ASSUME IInv, NEW p \in Procs, Get(p) PROVE IInv'
<1>0. RequestOK(call[p]) /\ call[p].pc = "get"
  BY HasCallInv, RequestsOK DEF Get, At
<1>1. UNCHANGED <<sliding, now, minted, issued, ended, sessions, sweepAt>>
  BY DEF Get, storeUnchanged
<1>2. call[p].late => call[p].sid \notin Stored
  BY HasCallInv, RequestsOK DEF OriginOK, IInv, EndedStaysOut
<1>3. /\ CallInv'
      /\ \A q \in Procs :
           call'[q].op = "logout" /\ call'[q].ans = "ok" =>
             call[q].op = "logout" /\ call[q].ans = "ok" /\ call'[q].sid = call[q].sid
      /\ call'[p].pc # "create" /\ \A q \in Procs \ {p} : call'[q] = call[q]
  <2>1. CASE Answer(p, "none")
    BY <2>1, <1>0, <1>1, HasCallInv, AnswerMoves
  <2>2. CASE call[p].sid \in Expired(now) /\ Goto(p, "getdel")
    <3>1. ~call[p].late
      BY <2>2, <1>2 DEF Expired
    <3> QED
      BY <2>2, <3>1, <1>0, <1>1, HasCallInv, GotoMoves
  <2>3. CASE call[p].sid \in Live /\ GotRead(p, "check", sessions[call[p].sid])
    <3>1. ~call[p].late
      BY <2>3, <1>2 DEF Live
    <3>2. sessions[call[p].sid] \in Nat
      BY <2>3 DEF Live, IInv, TypeOK
    <3>3. now <= sessions[call[p].sid]
      BY <2>3, <3>2 DEF Live, Expired, IInv, TypeOK, CallTypeOK
    <3> QED
      BY <2>3, <3>1, <3>2, <3>3, <1>0, <1>1, HasCallInv, ReadMoves
  <2> QED
    BY <2>1, <2>2, <2>3 DEF Get
<1>4. TypeOK' /\ EndedStaysOut'
  BY <1>1, <1>3 DEF CallInv, IInv, TypeOK, EndedStaysOut, Stored
<1>5. LogoutTookIt'
  BY <1>1, <1>3 DEF IInv, LogoutTookIt, Stored
<1>6. UnbornIsOut'
  BY <1>1, <1>3, UnbornStays DEF Stored
<1> QED
  BY <1>3, <1>4, <1>5, <1>6 DEF CallInv, IInv

LEMMA CancelledKeeps == ASSUME IInv, NEW p \in Procs, Cancelled(p) PROVE IInv'
<1> DEFINE a == OnError(call[p].pc)
<1>0. RequestOK(call[p]) /\ call[p].pc \in StorePC /\ Answer(p, a)
  BY HasCallInv, RequestsOK DEF Cancelled
<1>1. UNCHANGED <<sliding, now, minted, issued, ended, sessions, sweepAt>>
  BY DEF Cancelled, storeUnchanged
<1>2. a \in {"active", "none", "err"} /\ (call[p].late => a # "active")
  BY <1>0 DEF OnError, RequestOK
<1>3. call[p].pc \notin {"idle", "done"}
  BY <1>0 DEF StorePC
<1>4. /\ CallInv'
      /\ call'[p].pc = "done" /\ call'[p].ans = a
      /\ \A q \in Procs \ {p} : call'[q] = call[q]
  <2> HIDE DEF a
  <2> QED
    BY <1>0, <1>1, <1>2, <1>3, HasCallInv, AnswerMoves
<1>5. TypeOK' /\ EndedStaysOut'
  BY <1>1, <1>4 DEF CallInv, IInv, TypeOK, EndedStaysOut, Stored
<1>6. LogoutTookIt'
  <2> HIDE DEF a
  <2> QED
    BY <1>1, <1>2, <1>4 DEF IInv, LogoutTookIt, Stored
<1>7. UnbornIsOut'
  BY <1>1, <1>4, UnbornStays DEF Stored
<1> QED
  BY <1>4, <1>5, <1>6, <1>7 DEF CallInv, IInv

(* Delete: this is where a logout's session leaves the store.              *)
LEMMA DeleteKeeps == ASSUME IInv, NEW p \in Procs, Delete(p) PROVE IInv'
<1>0. RequestOK(call[p]) /\ call[p].pc \in {"delete", "getdel", "svcdel"}
  BY HasCallInv, RequestsOK DEF Delete
<1>1. UNCHANGED <<sliding, now, minted, issued, ended, sweepAt>>
  BY DEF Delete
<1>2. /\ Stored' = Stored \ {call[p].sid}
      /\ \A x \in Stored' : sessions'[x] = sessions[x]
  BY WithoutFacts DEF Delete, Stored
<1>3. /\ CallInv'
      /\ \A q \in Procs : call'[q].op = call[q].op /\ call'[q].sid = call[q].sid
      /\ call'[p].pc = "done" /\ \A q \in Procs \ {p} : call'[q] = call[q]
  <2>1. PICK a \in {"ok", "none"} : Answer(p, a)
    BY DEF Delete
  <2> QED
    BY <2>1, <1>0, <1>1, HasCallInv, AnswerMoves
<1>4. TypeOK' /\ EndedStaysOut'
  BY <1>1, <1>2, <1>3 DEF CallInv, IInv, TypeOK, EndedStaysOut
<1>5. LogoutTookIt'
  BY <1>2, <1>3 DEF IInv, LogoutTookIt
<1>6. UnbornIsOut'
  BY <1>2, <1>3, UnbornStays
<1> QED
  BY <1>3, <1>4, <1>5, <1>6 DEF CallInv, IInv

(* Touch writes over an entry that is there, or nothing.                   *)
LEMMA TouchKeeps == ASSUME IInv, NEW p \in Procs, Touch(p) PROVE IInv'
<1>0. RequestOK(call[p]) /\ call[p].pc = "touch" /\ call[p].op = "current"
  BY HasCallInv, RequestsOK DEF Touch, At, RequestOK
<1>1. UNCHANGED <<sliding, now, minted, issued, ended, sweepAt>> /\ ~call[p].late
  BY <1>0 DEF Touch, RequestOK
<1>2. now + TTL \in Nat
  BY TTLAssumption DEF IInv, TypeOK, CallTypeOK
<1>3. Stored' = Stored /\ \A x \in Stored' : sessions'[x] \in Nat
  BY <1>2 DEF Touch, Stored, IInv, TypeOK
<1>4. /\ CallInv'
      /\ call'[p].pc = "done" /\ call'[p].ans = "active"
      /\ \A q \in Procs \ {p} : call'[q] = call[q]
  BY <1>0, <1>1, HasCallInv, AnswerMoves DEF Touch
<1>5. TypeOK' /\ EndedStaysOut'
  BY <1>1, <1>3, <1>4 DEF CallInv, IInv, TypeOK, EndedStaysOut
<1>6. LogoutTookIt'
  BY <1>3, <1>4 DEF IInv, LogoutTookIt
<1>7. UnbornIsOut'
  BY <1>3, <1>4, UnbornStays
<1> QED
  BY <1>4, <1>5, <1>6, <1>7 DEF CallInv, IInv

(* Revocation, the sweep and the clock leave every request as it is.       *)
LEMMA JanitorKeeps ==
  ASSUME IInv, NEW S, sessions' = sessions \/ sessions' = Without(S),
         UNCHANGED <<sliding, call, minted, issued, ended>>,
         now' \in {now, now + 1},
         sweepAt' \in {NoTime, now, sweepAt}
  PROVE  IInv'
<1>1. /\ Stored' \subseteq Stored
      /\ \A x \in Stored' : sessions'[x] = sessions[x]
  <2>1. CASE sessions' = sessions
    BY <2>1 DEF Stored
  <2>2. CASE sessions' = Without(S)
    BY <2>2, WithoutFacts DEF Stored
  <2> QED
    BY <2>1, <2>2
<1>2. now' \in Nat /\ now <= now' /\ sweepAt' \in {NoTime} \cup 0 .. now'
  BY DEF IInv, TypeOK, CallTypeOK, NoTime
<1>3. CallInv'
  BY HasCallInv, ClockMoves
<1>4. TypeOK'
  BY <1>1, <1>2, <1>3 DEF CallInv, IInv, TypeOK
<1>5. LogoutTookIt' /\ EndedStaysOut'
  BY <1>1 DEF IInv, LogoutTookIt, EndedStaysOut
<1>6. UnbornIsOut'
  BY <1>1, UnbornStays
<1> QED
  BY <1>3, <1>4, <1>5, <1>6 DEF CallInv, IInv
--------------------------------------------------------------------------------
(* The steps of the service between the store's operations; LogoutTookIt   *)
(* is what keeps an id out that becomes ended.                             *)
LEMMA ServiceKeeps ==
  ASSUME IInv, NEW p \in Procs, ServiceStep(p) \/ Disconnect(p), storeUnchanged
  PROVE  IInv'
<1>0. Stored' = Stored /\ UNCHANGED <<sessions, sweepAt>>
  BY DEF storeUnchanged, Stored
<1>1. SUFFICES /\ CallInv' /\ now' = now /\ minted \subseteq minted'
               /\ LogoutTookIt' /\ EndedStaysOut' /\ UnbornIsOut'
  BY <1>0 DEF IInv, TypeOK, CallInv
<1>2. CASE BeginCallback(p) \/ BeginCurrent(p) \/ BeginLogout(p)
  <2>1. CallInv' /\ Began(p)
    BY <1>2, HasCallInv, CallbackMoves, CurrentMoves
  <2> QED
    BY <1>0, <2>1, UnbornStays DEF Began, IInv, LogoutTookIt, EndedStaysOut
<1>3. CASE CurrentCheck(p)
  <2>1. CallInv' /\ UNCHANGED <<now, minted, ended>> /\ call'[p].op = "current"
        /\ call'[p].pc # "create"
        /\ \A q \in Procs \ {p} : call'[q] = call[q]
    BY <1>3, HasCallInv, CheckMoves
  <2> QED
    BY <1>0, <2>1, UnbornStays DEF IInv, LogoutTookIt, EndedStaysOut
<1>4. CASE Respond(p)
  <2>1. /\ CallInv' /\ UNCHANGED <<now, minted>> /\ call'[p] = Idle
        /\ Idle.op = "idle" /\ Idle.pc = "idle"
        /\ \A q \in Procs \ {p} : call'[q] = call[q]
        /\ \/ ended' = ended
           \/ call[p].op = "logout" /\ call[p].ans = "ok" /\ ended' = ended \cup {call[p].sid}
    BY <1>4, HasCallInv, RespondMoves DEF Idle
  <2> QED
    BY <1>0, <2>1, UnbornStays DEF IInv, LogoutTookIt, EndedStaysOut
<1>5. CASE Disconnect(p)
  <2>1. CallInv' /\ UNCHANGED <<now, minted, ended>>
        /\ \A q \in Procs : /\ call'[q].op = call[q].op /\ call'[q].ans = call[q].ans
                            /\ call'[q].sid = call[q].sid /\ call'[q].pc = call[q].pc
    BY <1>5, HasCallInv, DisconnectMoves DEF Disconnect
  <2> QED
    BY <1>0, <2>1, UnbornStays DEF IInv, LogoutTookIt, EndedStaysOut
<1> QED
  BY <1>2, <1>3, <1>4, <1>5 DEF ServiceStep

LEMMA NextInv == IInv /\ [Next]_vars => IInv'
<1> SUFFICES ASSUME IInv, [Next]_vars PROVE IInv'
  OBVIOUS
<1>1. ASSUME NEW p \in Procs, StoreStep(p) PROVE IInv'
  BY <1>1, CreateKeeps, GetKeeps, DeleteKeeps, TouchKeeps, CancelledKeeps DEF StoreStep
<1>2. ASSUME NEW p \in Procs, ServiceStep(p) \/ Disconnect(p), storeUnchanged PROVE IInv'
  BY <1>2, ServiceKeeps
<1>3. ASSUME NEW s \in Subjects, DeleteBySubject(s) PROVE IInv'
  BY <1>3, JanitorKeeps DEF DeleteBySubject, callVars
<1>4. CASE Tick /\ storeUnchanged
  BY <1>4, JanitorKeeps DEF Tick, storeUnchanged
<1>5. CASE SweepRead
  BY <1>5, JanitorKeeps DEF SweepRead, callVars
<1>6. CASE Sweep
  BY <1>6, JanitorKeeps DEF Sweep, callVars
<1>7. CASE UNCHANGED vars
  BY <1>7, JanitorKeeps DEF vars, callVars
<1> QED
  BY <1>1, <1>2, <1>3, <1>4, <1>5, <1>6, <1>7 DEF Next

--------------------------------------------------------------------------------
(* The invariant holds of every behaviour of the store and the service.    *)
THEOREM InvHolds == Spec => []IInv
BY InitInv, NextInv, PTL DEF Spec

(* Every variable keeps its type, and the store only holds ids drawn by a  *)
(* callback.                                                               *)
THEOREM TypeCorrect == Spec => []TypeOK
<1>1. IInv => TypeOK
  BY DEF IInv
<1> QED
  BY <1>1, InvHolds, PTL

(* No request that begins after a logout was acknowledged is told that the *)
(* session is active: session.MemoryStore's Delete and Touch under any     *)
(* interleaving with Get, Create and the cleanup goroutine.                *)
THEOREM LogoutFinality == Spec => []LogoutIsFinal
<1>1. IInv => LogoutIsFinal
  BY DEF IInv, LateIsBlind, LogoutIsFinal
<1> QED
  BY <1>1, InvHolds, PTL

(* A logged-out session is never again in the store's map: no refresh      *)
(* still under way puts it back.                                           *)
THEOREM NoResurrection == Spec => []EndedStaysOut
<1>1. IInv => EndedStaysOut
  BY DEF IInv
<1> QED
  BY <1>1, InvHolds, PTL

--------------------------------------------------------------------------------
(* The limit on stored sessions, with the finiteness that counting needs.  *)
Bounded == IsFiniteSet(Stored) /\ WithinLimit

LEMMA Shrinks ==
  ASSUME Bounded, Stored' \subseteq Stored
  PROVE  Bounded'
<1>1. IsFiniteSet(Stored') /\ Cardinality(Stored') <= Cardinality(Stored)
  BY FS_Subset DEF Bounded
<1>2. Cardinality(Stored) \in Nat /\ Cardinality(Stored') \in Nat
  BY <1>1, FS_CardinalityType DEF Bounded
<1> QED
  BY <1>1, <1>2, MaxSessionsAssumption DEF Bounded, WithinLimit

(* Create adds an entry only when what it kept is below the limit.           *)
LEMMA CreateBounded == ASSUME Bounded, NEW p \in Procs, Create(p) PROVE Bounded'
<1> DEFINE id == call[p].sid
<1>1. DOMAIN Purged \subseteq Stored
  BY WithoutFacts DEF Purged, Stored
<1>2. IsFiniteSet(DOMAIN Purged) /\ Cardinality(DOMAIN Purged) \in Nat
  BY <1>1, FS_Subset, FS_CardinalityType DEF Bounded
<1>3. CASE sessions' = Purged
  BY <1>1, <1>3, Shrinks DEF Stored
<1>4. CASE ~Full(Purged) /\ \E end \in call[p].exp .. now + TTL : sessions' = With(Purged, id, end)
  <2>1. Cardinality(DOMAIN Purged) + 1 <= MaxSessions
    BY <1>2, <1>4, MaxSessionsAssumption DEF Full
  <2>2. Stored' = DOMAIN Purged \cup {id}
    <3> HIDE DEF id
    <3> QED
      BY <1>4 DEF With, Stored
  <2>3. /\ IsFiniteSet(Stored')
        /\ Cardinality(Stored') \in {Cardinality(DOMAIN Purged), Cardinality(DOMAIN Purged) + 1}
    BY <1>2, <2>2, FS_AddElement
  <2> QED
    BY <1>2, <2>1, <2>3, MaxSessionsAssumption DEF Bounded, WithinLimit
<1> QED
  BY <1>3, <1>4 DEF Create

LEMMA NextBounded == Bounded /\ [Next]_vars => Bounded'
<1> SUFFICES ASSUME Bounded, [Next]_vars PROVE Bounded'
  OBVIOUS
<1>1. ASSUME NEW p \in Procs, StoreStep(p) PROVE Bounded'
  <2>1. CASE Create(p)
    BY <2>1, CreateBounded
  <2>2. CASE Get(p) \/ Cancelled(p)
    BY <2>2, Shrinks DEF Get, Cancelled, storeUnchanged, Stored
  <2>3. CASE Delete(p)
    BY <2>3, WithoutFacts, Shrinks DEF Delete, Stored
  <2>4. CASE Touch(p)
    BY <2>4, Shrinks DEF Touch, Stored
  <2> QED
    BY <1>1, <2>1, <2>2, <2>3, <2>4 DEF StoreStep
<1>2. CASE storeUnchanged \/ SweepRead \/ UNCHANGED vars
  BY <1>2, Shrinks DEF storeUnchanged, SweepRead, vars, Stored
<1>3. CASE Sweep \/ \E s \in Subjects : DeleteBySubject(s)
  BY <1>3, WithoutFacts, Shrinks DEF Sweep, DeleteBySubject, Stored
<1> QED
  BY <1>1, <1>2, <1>3 DEF Next

LEMMA BoundedHolds == Spec => []Bounded
<1>1. Init => Bounded
  <2> SUFFICES ASSUME Init PROVE Bounded
    OBVIOUS
  <2>1. Stored = {}
    BY DEF Init, Stored
  <2> QED
    BY <2>1, FS_EmptySet, MaxSessionsAssumption DEF Bounded, WithinLimit
<1> QED
  BY <1>1, NextBounded, PTL DEF Spec

(* The store never holds more than maxMemorySessions entries, whatever     *)
(* callbacks run at once: Create's test and its write are one section.     *)
THEOREM LimitHolds == Spec => []WithinLimit
<1>1. Bounded => WithinLimit
  BY DEF Bounded
<1> QED
  BY <1>1, BoundedHolds, PTL

--------------------------------------------------------------------------------
(* The refinement: each step is, for every id, a step of its life, and for *)
(* every request a step of its query.                                      *)
Statuses == {"unborn", "open", "lapsed", "gone"}
Answers == {"none", "active", "ok", "full", "err"}

Seen(id) == \E p \in Procs : QueryOf(p).phase = "seen" /\ QueryOf(p).sid = id

Lives(id) ==
  \/ StatusOf(id)' = StatusOf(id)
  \/ StatusOf(id) = "unborn"
  \/ StatusOf(id) = "open" /\ StatusOf(id)' \in {"lapsed", "gone"}
  \/ StatusOf(id) = "lapsed" /\ StatusOf(id)' = "gone"
  \/ StatusOf(id) = "lapsed" /\ StatusOf(id)' = "open" /\ Seen(id)

Moves(p) ==
  \/ Silent(p)
  \/ Asks(p)
  \/ Sees(p) /\ StatusOf(call[p].sid) = "open"
  \/ \E a \in Answers :
       /\ Replies(p, a)
       /\ \A id \in Ids : call[p].op = "logout" /\ a = "ok" /\ call[p].sid = id
                            => StatusOf(id)' = "gone"
  \/ Clears(p)

LEMMA StatusFacts ==
  ASSUME IInv, NEW id
  PROVE  /\ StatusOf(id) \in Statuses
         /\ id \in Stored => \/ StatusOf(id) = "open" /\ now <= sessions[id]
                             \/ StatusOf(id) = "lapsed" /\ now > sessions[id]
         /\ id \notin Stored /\ Unborn(id) => StatusOf(id) = "unborn"
         /\ id \notin Stored /\ ~Unborn(id) => StatusOf(id) = "gone"
<1>1. CASE id \in Stored
  <2>1. sessions[id] \in Nat /\ now \in Nat
    BY <1>1 DEF IInv, TypeOK, CallTypeOK
  <2> QED
    BY <1>1, <2>1 DEF StatusOf, Statuses, Live, Expired
<1>2. CASE id \notin Stored
  BY <1>2 DEF StatusOf, Statuses, Live, Expired
<1> QED
  BY <1>1, <1>2

(* The life of an id goes on when only its callback stores it, only a      *)
(* request that has seen it open refreshes it, and ids are drawn once.     *)
LEMMA LifeGoesOn ==
  ASSUME IInv, IInv', NEW id \in Ids, now <= now', minted \subseteq minted',
         id \in Stored' \ Stored => Unborn(id),
         id \in Stored \cap Stored' => sessions'[id] = sessions[id] \/ Seen(id),
         \A q \in Procs : call'[q].pc = "create" =>
           \/ call[q].pc = "create" /\ call'[q].sid = call[q].sid
           \/ call'[q].sid \notin minted
  PROVE  Lives(id)
<1>1. /\ StatusOf(id)' \in Statuses
      /\ id \in Stored' => \/ StatusOf(id)' = "open" /\ now' <= sessions'[id]
                           \/ StatusOf(id)' = "lapsed" /\ now' > sessions'[id]
      /\ id \notin Stored' /\ ~Unborn(id)' => StatusOf(id)' = "gone"
  <2>1. CASE id \in Stored'
    <3>1. sessions'[id] \in Nat /\ now' \in Nat
      BY <2>1 DEF IInv, TypeOK, CallTypeOK
    <3> QED
      BY <2>1, <3>1 DEF StatusOf, Statuses, Live, Expired
  <2>2. CASE id \notin Stored'
    BY <2>2 DEF StatusOf, Statuses, Live, Expired
  <2> QED
    BY <2>1, <2>2
<1>2. ~Unborn(id) => ~Unborn(id)'
  BY DEF Unborn, At
<1>3. CASE id \in Stored
  <2>1. ~Unborn(id)
    BY <1>3 DEF Unborn, IInv, UnbornIsOut, TypeOK
  <2>2. CASE id \notin Stored'
    BY <1>1, <1>2, <1>3, <2>1, <2>2, StatusFacts DEF Lives
  <2>3. CASE id \in Stored' /\ sessions'[id] = sessions[id]
    <3>1. sessions[id] \in Nat /\ now \in Nat /\ now' \in Nat
      BY <1>3 DEF IInv, TypeOK, CallTypeOK
    <3> QED
      BY <1>1, <1>3, <2>3, <3>1, StatusFacts DEF Lives
  <2>4. CASE id \in Stored' /\ Seen(id)
    BY <1>1, <1>3, <2>4, StatusFacts DEF Lives
  <2> QED
    BY <1>3, <2>2, <2>3, <2>4
<1>4. CASE id \notin Stored
  BY <1>1, <1>2, <1>4, StatusFacts DEF Lives
<1> QED
  BY <1>3, <1>4

Simulated == (\A id \in Ids : Lives(id)) /\ (\A p \in Procs : Moves(p))

(* The goroutines that a step leaves alone are silent.                     *)
LEMMA OthersSilent ==
  ASSUME NEW p \in Procs, Moves(p), \A q \in Procs \ {p} : call'[q] = call[q]
  PROVE  \A q \in Procs : Moves(q)
<1> SUFFICES ASSUME NEW q \in Procs PROVE Moves(q)
  OBVIOUS
<1>1. CASE q = p
  BY <1>1
<1>2. CASE q # p
  BY <1>2, SilentWhen DEF Moves
<1> QED
  BY <1>1, <1>2

(* An answer of goroutine p, as SessionContract is shown it.               *)
LEMMA AnswerMovesQuery ==
  ASSUME IInv, NEW p \in Procs, NEW a \in Answers, Answer(p, a),
         call[p].pc \notin {"idle", "done"},
         a = "active" => call[p].saw,
         call[p].op = "current" => a \in {"active", "none"},
         call[p].op = "logout" => a # "ok"
  PROVE  Moves(p)
<1>1. Replies(p, a)
  BY HasCallInv, AnswerReplies
<1> QED
  BY <1>1 DEF Moves

LEMMA CreateSimulated == ASSUME IInv, IInv', NEW p \in Procs, Create(p) PROVE Simulated
<1>0. RequestOK(call[p]) /\ call[p].pc = "create" /\ call[p].op = "callback"
  BY HasCallInv, RequestsOK DEF Create, At, RequestOK
<1>1. UNCHANGED <<now, minted, issued, ended>>
  BY DEF Create
<1>2. DOMAIN Purged \subseteq Stored /\ \A x \in DOMAIN Purged : Purged[x] = sessions[x]
  BY WithoutFacts DEF Purged, Stored
<1>3. PICK a \in {"full", "ok"} : Answer(p, a)
  BY DEF Create
<1>4. /\ call'[p].pc = "done" /\ \A q \in Procs \ {p} : call'[q] = call[q]
  BY <1>3 DEF Answer, IInv, TypeOK, CallTypeOK, Call
<1>5. Moves(p)
  BY <1>0, <1>3, AnswerMovesQuery DEF Answers
<1>6. ASSUME NEW id \in Ids
      PROVE  /\ id \in Stored' \ Stored => id = call[p].sid
             /\ id \in Stored \cap Stored' => sessions'[id] = sessions[id]
  <2>1. CASE sessions' = Purged
    BY <2>1, <1>2 DEF Stored
  <2>2. ASSUME NEW e \in call[p].exp .. now + TTL, sessions' = With(Purged, call[p].sid, e)
        PROVE  /\ id \in Stored' \ Stored => id = call[p].sid
               /\ id \in Stored \cap Stored' => sessions'[id] = sessions[id]
    <3> DEFINE c == call[p].sid
    <3>1. c \notin Stored
      BY <1>0 DEF IInv, UnbornIsOut, At
    <3>2. sessions' = With(Purged, c, e)
      BY <2>2
    <3> HIDE DEF c
    <3>3. /\ Stored' = DOMAIN Purged \cup {c}
          /\ \A x \in DOMAIN Purged : x # c => sessions'[x] = Purged[x]
      BY <3>2 DEF With, Stored
    <3>4. c = call[p].sid
      BY DEF c
    <3> QED
      BY <3>1, <3>3, <3>4, <1>2
  <2> QED
    BY <2>1, <2>2 DEF Create
<1>7. ASSUME NEW id \in Ids PROVE Lives(id)
  <2>1. id \in Stored' \ Stored => Unborn(id)
    BY <1>0, <1>6 DEF Unborn, At
  <2>2. now <= now' /\ minted \subseteq minted'
    BY <1>1 DEF IInv, TypeOK, CallTypeOK
  <2> QED
    BY <1>4, <1>6, <2>1, <2>2, LifeGoesOn
<1> QED
  BY <1>4, <1>5, <1>7, OthersSilent DEF Simulated

(* A step that stores nothing new and refreshes only what has been seen.   *)
LEMMA StoreSimulated ==
  ASSUME IInv, IInv', NEW p \in Procs, Moves(p),
         \A q \in Procs \ {p} : call'[q] = call[q],
         call'[p].pc = "create" => call'[p].sid \notin minted,
         Stored' \subseteq Stored,
         \A id \in Stored' : sessions'[id] = sessions[id] \/ Seen(id),
         now' = now, minted \subseteq minted'
  PROVE  Simulated
<1>1. ASSUME NEW id \in Ids PROVE Lives(id)
  <2>1. now <= now'
    BY DEF IInv, TypeOK, CallTypeOK
  <2>2. \A q \in Procs : call'[q].pc = "create" =>
           \/ call[q].pc = "create" /\ call'[q].sid = call[q].sid
           \/ call'[q].sid \notin minted
    OBVIOUS
  <2> QED
    BY <2>1, <2>2, LifeGoesOn
<1> QED
  BY <1>1, OthersSilent DEF Simulated

LEMMA GetSimulated == ASSUME IInv, IInv', NEW p \in Procs, Get(p) PROVE Simulated
<1> DEFINE id == call[p].sid
<1>0. RequestOK(call[p]) /\ call[p].pc = "get" /\ call[p].op = "current" /\ id \in Ids
  BY HasCallInv, RequestsOK DEF Get, At, RequestOK
<1>1. UNCHANGED <<sliding, now, minted, issued, ended, sessions>> /\ Stored' = Stored
  BY DEF Get, storeUnchanged, Stored
<1>2. /\ Moves(p) /\ call'[p].pc # "create"
      /\ \A q \in Procs \ {p} : call'[q] = call[q]
  <2>1. CASE Answer(p, "none")
    <3>1. call'[p].pc = "done" /\ \A q \in Procs \ {p} : call'[q] = call[q]
      BY <2>1 DEF Answer, IInv, TypeOK, CallTypeOK, Call
    <3> QED
      BY <3>1, <1>0, <2>1, AnswerMovesQuery DEF Answers
  <2>2. CASE Goto(p, "getdel")
    <3>1. /\ call'[p].pc = "getdel" /\ call'[p].saw = call[p].saw
          /\ call'[p].op = call[p].op /\ call'[p].sid = call[p].sid /\ call'[p].ans = call[p].ans
          /\ \A q \in Procs \ {p} : call'[q] = call[q]
      BY <2>2 DEF Goto, IInv, TypeOK, CallTypeOK, Call
    <3> QED
      BY <3>1, <1>0, SilentWhen DEF Moves
  <2>3. CASE id \in Live /\ GotRead(p, "check", sessions[id])
    <3>1. sessions[id] \in Nat /\ now <= sessions[id] /\ id \notin ended
      BY <2>3 DEF Live, Expired, IInv, TypeOK, CallTypeOK, EndedStaysOut
    <3>2. ~call[p].late
      BY <3>1, HasCallInv, RequestsOK DEF OriginOK
    <3>3. /\ call'[p].pc = "check" /\ call'[p].saw
          /\ call'[p].op = call[p].op /\ call'[p].sid = call[p].sid /\ call'[p].ans = call[p].ans
          /\ \A q \in Procs \ {p} : call'[q] = call[q]
      BY <1>0, <1>1, <2>3, <3>1, <3>2, HasCallInv, ReadMoves
    <3>4. Sees(p)
      BY <1>0, <3>3, HasCallInv, ReadSees
    <3>5. StatusOf(id) = "open"
      BY <2>3, <3>1 DEF StatusOf, Live, Expired
    <3> QED
      BY <3>3, <3>4, <3>5 DEF Moves
  <2> QED
    BY <2>1, <2>2, <2>3 DEF Get
<1> QED
  BY <1>1, <1>2, StoreSimulated

LEMMA CancelledSimulated == ASSUME IInv, IInv', NEW p \in Procs, Cancelled(p) PROVE Simulated
<1> DEFINE a == OnError(call[p].pc)
<1>0. RequestOK(call[p]) /\ call[p].pc \in StorePC /\ Answer(p, a)
  BY HasCallInv, RequestsOK DEF Cancelled
<1>1. UNCHANGED <<now, minted, issued, ended, sessions>> /\ Stored' = Stored
  BY DEF Cancelled, storeUnchanged, Stored
<1>2. /\ a \in {"active", "none", "err"} /\ (a = "active" => call[p].saw)
      /\ call[p].op = "current" => a \in {"active", "none"}
      /\ call[p].pc \notin {"idle", "done"}
  BY <1>0 DEF OnError, RequestOK, StorePC
<1> HIDE DEF a
<1>3. call'[p].pc = "done" /\ \A q \in Procs \ {p} : call'[q] = call[q]
  BY <1>0 DEF Answer, IInv, TypeOK, CallTypeOK, Call
<1>4. Moves(p)
  BY <1>0, <1>2, AnswerMovesQuery DEF Answers
<1> QED
  BY <1>1, <1>3, <1>4, StoreSimulated

(* A logout is answered "ok" only as its session goes.                     *)
LEMMA DeleteSimulated == ASSUME IInv, IInv', NEW p \in Procs, Delete(p) PROVE Simulated
<1> DEFINE id == call[p].sid
<1>0. /\ RequestOK(call[p]) /\ OriginOK(call[p])
      /\ call[p].pc \in {"delete", "getdel", "svcdel"}
  BY HasCallInv, RequestsOK DEF Delete
<1>1. UNCHANGED <<now, minted, issued, ended>>
  BY DEF Delete
<1>2. /\ Stored' = Stored \ {id}
      /\ \A x \in Stored' : sessions'[x] = sessions[x]
  BY WithoutFacts DEF Delete, Stored
<1>3. PICK a \in {"ok", "none"} : Answer(p, a) /\ (a = "ok" <=> call[p].pc = "delete")
  BY DEF Delete, At
<1>4. call'[p].pc = "done" /\ \A q \in Procs \ {p} : call'[q] = call[q]
  BY <1>3 DEF Answer, IInv, TypeOK, CallTypeOK, Call
<1>5. Moves(p)
  <2>1. Replies(p, a)
    BY <1>0, <1>3, HasCallInv, AnswerReplies DEF RequestOK
  <2>2. ASSUME NEW c \in Ids, call[p].op = "logout", call[p].sid = c
        PROVE  StatusOf(c)' = "gone"
    <3>1. c \in issued' /\ c \in minted' /\ c \notin Stored'
      BY <1>0, <1>1, <1>2, <2>2 DEF OriginOK, IInv, TypeOK, CallTypeOK
    <3>2. \A q \in Procs : call'[q].pc = "create" => call'[q].sid \notin issued'
      BY DEF IInv, StepsOfOps, MintedOnce, At
    <3>3. ~Unborn(c)'
      BY <3>1, <3>2 DEF Unborn, At
    <3> QED
      BY <3>1, <3>3 DEF StatusOf, Live, Expired
  <2> QED
    BY <2>1, <2>2 DEF Moves, Answers
<1> QED
  BY <1>1, <1>2, <1>4, <1>5, StoreSimulated

(* The session a refresh brings back is one its request has seen open.     *)
LEMMA TouchSimulated == ASSUME IInv, IInv', NEW p \in Procs, Touch(p) PROVE Simulated
<1>0. RequestOK(call[p]) /\ call[p].pc = "touch" /\ call[p].op = "current" /\ call[p].saw
  BY HasCallInv, RequestsOK DEF Touch, At, RequestOK
<1>1. UNCHANGED <<now, minted, issued, ended>> /\ Answer(p, "active")
  BY DEF Touch
<1>2. Seen(call[p].sid)
  BY <1>0 DEF Seen, QueryOf, PhaseOf
<1>3. /\ Stored' = Stored
      /\ \A x \in Stored' : x # call[p].sid => sessions'[x] = sessions[x]
  BY DEF Touch, Stored
<1>4. call'[p].pc = "done" /\ \A q \in Procs \ {p} : call'[q] = call[q]
  BY <1>1 DEF Answer, IInv, TypeOK, CallTypeOK, Call
<1>5. Moves(p)
  BY <1>0, <1>1, AnswerMovesQuery DEF Answers
<1>6. \A x \in Stored' : sessions'[x] = sessions[x] \/ Seen(x)
  BY <1>2, <1>3
<1> QED
  BY <1>1, <1>3, <1>4, <1>5, <1>6, StoreSimulated

(* The steps of the service: a request begins, looks at its copy, answers. *)
LEMMA ServiceSimulated ==
  ASSUME IInv, IInv', NEW p \in Procs, ServiceStep(p) \/ Disconnect(p), storeUnchanged
  PROVE  Simulated
<1>0. Stored' = Stored /\ sessions' = sessions
  BY DEF storeUnchanged, Stored
<1>1. SUFFICES /\ Moves(p) /\ now' = now /\ minted \subseteq minted'
               /\ \A q \in Procs \ {p} : call'[q] = call[q]
               /\ call'[p].pc = "create" => call'[p].sid \notin minted
               \/ Disconnect(p)
  <2>1. CASE Disconnect(p)
    <3>1. /\ UNCHANGED <<now, minted>>
          /\ \A q \in Procs : /\ call'[q].op = call[q].op /\ call'[q].ans = call[q].ans
                              /\ call'[q].sid = call[q].sid /\ call'[q].pc = call[q].pc
                              /\ call'[q].saw = call[q].saw
      BY <2>1, HasCallInv, DisconnectMoves DEF Disconnect
    <3>2. \A q \in Procs : Moves(q)
      BY <3>1, SilentWhen DEF Moves
    <3>3. now <= now' /\ minted \subseteq minted'
      BY <3>1 DEF IInv, TypeOK, CallTypeOK
    <3>4. \A id \in Ids : Lives(id)
      BY <1>0, <3>1, <3>3, LifeGoesOn
    <3> QED
      BY <3>2, <3>4 DEF Simulated
  <2> QED
    BY <1>0, <2>1, StoreSimulated
<1>2. CASE BeginCallback(p) \/ BeginCurrent(p) \/ BeginLogout(p)
  <2>1. Began(p)
    BY <1>2, HasCallInv, CallbackMoves, CurrentMoves
  <2>2. Moves(p)
    BY <2>1, HasCallInv, BeganAsks DEF Moves
  <2> QED
    BY <2>1, <2>2 DEF Began
<1>3. CASE CurrentCheck(p)
  <2>1. /\ UNCHANGED <<now, minted>> /\ call[p].op = "current" /\ call[p].pc = "check"
        /\ call[p].saw /\ call'[p].op = call[p].op /\ call'[p].sid = call[p].sid
        /\ call'[p].pc \in {"svcdel", "touch", "done"}
        /\ \/ call'[p].pc # "done" /\ call'[p].saw = call[p].saw /\ call'[p].ans = call[p].ans
           \/ Answer(p, "active")
        /\ \A q \in Procs \ {p} : call'[q] = call[q]
    BY <1>3, HasCallInv, CheckMoves
  <2>2. CASE Answer(p, "active")
    BY <2>1, <2>2, AnswerMovesQuery DEF Answers
  <2>3. CASE call'[p].pc # "done" /\ call'[p].saw = call[p].saw /\ call'[p].ans = call[p].ans
    BY <2>1, <2>3, SilentWhen DEF Moves
  <2> QED
    BY <2>1, <2>2, <2>3
<1>4. CASE Respond(p)
  <2>1. /\ UNCHANGED <<now, minted>> /\ call[p].pc = "done" /\ call'[p] = Idle
        /\ Idle.pc = "idle" /\ \A q \in Procs \ {p} : call'[q] = call[q]
    BY <1>4, HasCallInv, RespondMoves DEF Idle
  <2> QED
    BY <2>1, RespondClears DEF Moves
<1> QED
  BY <1>2, <1>3, <1>4 DEF ServiceStep

(* Revocation, the sweep and the clock.                                    *)
LEMMA JanitorSimulated ==
  ASSUME IInv, IInv', NEW S, sessions' = sessions \/ sessions' = Without(S),
         UNCHANGED <<call, minted>>, now' \in {now, now + 1}
  PROVE  Simulated
<1>1. /\ Stored' \subseteq Stored
      /\ \A x \in Stored' : sessions'[x] = sessions[x]
  <2>1. CASE sessions' = sessions
    BY <2>1 DEF Stored
  <2>2. CASE sessions' = Without(S)
    BY <2>2, WithoutFacts DEF Stored
  <2> QED
    BY <2>1, <2>2
<1>2. now <= now'
  BY DEF IInv, TypeOK, CallTypeOK
<1>3. \A id \in Ids : Lives(id)
  BY <1>1, <1>2, LifeGoesOn
<1>4. \A p \in Procs : Moves(p)
  BY SilentWhen DEF Moves
<1> QED
  BY <1>3, <1>4 DEF Simulated

LEMMA NextSimulated == IInv /\ IInv' /\ [Next]_vars => Simulated
<1> SUFFICES ASSUME IInv, IInv', [Next]_vars PROVE Simulated
  OBVIOUS
<1>1. ASSUME NEW p \in Procs, StoreStep(p) PROVE Simulated
  BY <1>1, CreateSimulated, GetSimulated, DeleteSimulated, TouchSimulated, CancelledSimulated
  DEF StoreStep
<1>2. ASSUME NEW p \in Procs, ServiceStep(p) \/ Disconnect(p), storeUnchanged PROVE Simulated
  BY <1>2, ServiceSimulated
<1>3. ASSUME NEW s \in Subjects, DeleteBySubject(s) PROVE Simulated
  BY <1>3, JanitorSimulated DEF DeleteBySubject, callVars
<1>4. CASE Tick /\ storeUnchanged
  BY <1>4, JanitorSimulated DEF Tick, storeUnchanged
<1>5. CASE SweepRead
  BY <1>5, JanitorSimulated DEF SweepRead, callVars
<1>6. CASE Sweep
  BY <1>6, JanitorSimulated DEF Sweep, callVars
<1>7. CASE UNCHANGED vars
  BY <1>7, JanitorSimulated DEF vars, callVars
<1> QED
  BY <1>1, <1>2, <1>3, <1>4, <1>5, <1>6, <1>7 DEF Next

--------------------------------------------------------------------------------
(* What has been shown of each id and each request, in the contract's words.*)
LEMMA StatusTyped == IInv => [id \in Ids |-> StatusOf(id)] \in [Ids -> Statuses]
BY StatusFacts

LEMMA QueryTyped == IInv => [p \in Procs |-> QueryOf(p)] \in [Procs -> Contract!Query]
<1> SUFFICES ASSUME IInv, NEW p \in Procs PROVE QueryOf(p) \in Contract!Query
  OBVIOUS
<1> QED
  BY DEF IInv, TypeOK, CallTypeOK, Call, QueryOf, PhaseOf, Contract!Query

LEMMA ContractInit == Init => Contract!Init
<1> SUFFICES ASSUME Init PROVE Contract!Init
  OBVIOUS
<1>1. ASSUME NEW id \in Ids PROVE StatusOf(id) = "unborn"
  BY DEF Init, CallInit, StatusOf, Live, Expired, Stored, Unborn
<1>2. ASSUME NEW p \in Procs PROVE QueryOf(p) = Contract!Quiet
  BY DEF Init, CallInit, QueryOf, PhaseOf, Idle, Contract!Quiet
<1> QED
  BY <1>1, <1>2 DEF Contract!Init

LEMMA AskedOfIds ==
  ASSUME IInv, NEW p \in Procs, QueryOf(p).phase \in {"asked", "seen"}
  PROVE  QueryOf(p).sid \in Ids /\ QueryOf(p).sid = call[p].sid /\ QueryOf(p).op = call[p].op
<1>1. call[p].pc \notin {"idle", "done"}
  BY DEF QueryOf, PhaseOf
<1>2. RequestOK(call[p])
  BY HasCallInv, RequestsOK
<1> QED
  BY <1>1, <1>2, QueryFields DEF RequestOK

LEMMA TypedNext ==
  IInv' => /\ ([id \in Ids |-> StatusOf(id)] \in [Ids -> Statuses])'
           /\ ([p \in Procs |-> QueryOf(p)] \in [Procs -> Contract!Query])'
BY StatusTyped, QueryTyped, PTL

LEMMA ContractStep == IInv /\ IInv' /\ Simulated => Contract!Next
<1> SUFFICES ASSUME IInv, IInv', Simulated PROVE Contract!Next
  OBVIOUS
<1>1. /\ [id \in Ids |-> StatusOf(id)]' \in [Ids -> Contract!Status]
      /\ [p \in Procs |-> QueryOf(p)]' \in [Procs -> Contract!Query]
  BY TypedNext DEF Contract!Status, Contract!Query, Statuses
<1>2. ASSUME NEW id \in Ids PROVE Contract!Lifecycle(id)
  BY DEF Simulated, Lives, Seen, Contract!Lifecycle, Contract!Witnessed
<1>3. ASSUME NEW p \in Procs PROVE Contract!Protocol(p)
  <2>0. /\ [q \in Procs |-> QueryOf(q)][p] = QueryOf(p)
        /\ [q \in Procs |-> QueryOf(q)]'[p] = QueryOf(p)'
    OBVIOUS
  <2>1. CASE Silent(p)
    BY <2>0, <2>1 DEF Silent, Contract!Protocol
  <2>2. CASE Asks(p)
    BY <2>0, <2>2 DEF Asks, Unasked, Contract!Protocol, Contract!Ask, Contract!Quiet
  <2>3. CASE Sees(p) /\ StatusOf(call[p].sid) = "open"
    BY <2>0, <2>3, AskedOfIds DEF Sees, Contract!Protocol, Contract!See
  <2>4. ASSUME NEW a \in Answers, Replies(p, a),
               \A id \in Ids : call[p].op = "logout" /\ a = "ok" /\ call[p].sid = id
                                => StatusOf(id)' = "gone"
        PROVE  Contract!Protocol(p)
    BY <2>0, <2>4, AskedOfIds DEF Replies, Answers, Contract!Protocol, Contract!Reply
  <2>5. CASE Clears(p)
    BY <2>0, <2>5 DEF Clears, Unasked, Contract!Protocol, Contract!Clear, Contract!Quiet
  <2> QED
    BY <2>1, <2>2, <2>3, <2>4, <2>5 DEF Simulated, Moves
<1> QED
  BY <1>1, <1>2, <1>3 DEF Contract!Next

(* session.MemoryStore behind the authn service implements SessionContract. *)
THEOREM Implements == Spec => ImplementsContract
<1>1. IInv /\ IInv' /\ [Next]_vars =>
        [Contract!Next]_<<[id \in Ids |-> StatusOf(id)], [p \in Procs |-> QueryOf(p)]>>
  BY NextSimulated, ContractStep
<1> QED
  BY <1>1, ContractInit, InvHolds, PTL DEF Spec, ImplementsContract, Contract!Spec


--------------------------------------------------------------------------------
(* Who answers what: a step that makes some goroutine's answer a new one   *)
(* is the step that ends its request.                                      *)
LEMMA AnswerSets ==
  ASSUME IInv, NEW p \in Procs, NEW a, Answer(p, a), NEW q \in Procs
  PROVE  call'[q].ans = IF q = p THEN a ELSE call[q].ans
BY DEF Answer, IInv, TypeOK, CallTypeOK, Call

LEMMA ServiceNeverFull ==
  ASSUME IInv, NEW p \in Procs, ServiceStep(p) \/ Disconnect(p), NEW q \in Procs,
         call'[q].ans = "full"
  PROVE  call[q].ans = "full"
<1>1. CASE BeginCallback(p) \/ BeginCurrent(p) \/ BeginLogout(p)
  <2>1. Began(p)
    BY <1>1, HasCallInv, CallbackMoves, CurrentMoves
  <2> QED
    BY <2>1 DEF Began
<1>2. CASE CurrentCheck(p)
  <2>1. CASE Answer(p, "active")
    BY <2>1, AnswerSets
  <2>2. CASE Goto(p, "svcdel") \/ Goto(p, "touch")
    BY <2>2 DEF Goto, IInv, TypeOK, CallTypeOK, Call
  <2> QED
    BY <1>2, <2>1, <2>2 DEF CurrentCheck
<1>3. CASE Respond(p)
  BY <1>3, HasCallInv, RespondMoves DEF Idle
<1>4. CASE Disconnect(p)
  BY <1>4, HasCallInv, DisconnectMoves
<1> QED
  BY <1>1, <1>2, <1>3, <1>4 DEF ServiceStep

(* A callback that is told that the store is full finds in it live         *)
(* sessions only, and as many as the limit allows: what has expired is     *)
(* dropped first (memory_store.go:40-45).                                  *)
THEOREM FullHoldsLive == Spec => FullMeansLive
<1>1. IInv /\ Bounded /\ Bounded' /\ [Next]_vars =>
        [\A p \in Procs : call'[p].ans = "full" /\ call[p].ans # "full"
           => Live' = Stored' /\ Cardinality(Stored') = MaxSessions]_vars
  <2> SUFFICES ASSUME IInv, Bounded, Bounded', Next, NEW q \in Procs,
                      call'[q].ans = "full", call[q].ans # "full"
               PROVE  Live' = Stored' /\ Cardinality(Stored') = MaxSessions
    OBVIOUS
  <2>1. ASSUME NEW p \in Procs, StoreStep(p) PROVE Create(p)
    <3>1. CASE Get(p)
      <4>1. CASE Answer(p, "none")
        BY <4>1, AnswerSets
      <4>2. CASE Goto(p, "getdel") \/ GotRead(p, "check", sessions[call[p].sid])
        BY <4>2 DEF Goto, GotRead, IInv, TypeOK, CallTypeOK, Call
      <4> QED
        BY <3>1, <4>1, <4>2 DEF Get
    <3>2. CASE Delete(p)
      BY <3>2, AnswerSets DEF Delete
    <3>3. CASE Touch(p)
      BY <3>3, AnswerSets DEF Touch
    <3>4. CASE Cancelled(p)
      BY <3>4, AnswerSets DEF Cancelled, OnError
    <3> QED
      BY <2>1, <3>1, <3>2, <3>3, <3>4 DEF StoreStep
  <2>2. PICK p \in Procs : Create(p)
    BY <2>1, ServiceNeverFull DEF Next, Tick, SweepRead, Sweep, DeleteBySubject, callVars
  <2>3. Full(Purged) /\ sessions' = Purged /\ now' = now
    BY <2>2, AnswerSets DEF Create
  <2>4. Full(sessions) /\ sessions' = Without(Expired(now))
    BY <2>3 DEF Purged
  <2>5. /\ Stored' = Stored \ Expired(now)
        /\ \A id \in Stored' : sessions'[id] = sessions[id]
    BY <2>4, WithoutFacts DEF Stored
  <2>6. Live' = Stored'
    BY <2>3, <2>5 DEF Live, Expired
  <2>7. Cardinality(Stored') >= MaxSessions
    BY <2>3 DEF Full, Stored
  <2>8. Cardinality(Stored') <= MaxSessions /\ Cardinality(Stored') \in Nat
    BY FS_CardinalityType DEF Bounded, WithinLimit
  <2> QED
    BY <2>6, <2>7, <2>8, MaxSessionsAssumption
<1> QED
  BY <1>1, InvHolds, BoundedHolds, PTL DEF Spec, FullMeansLive

--------------------------------------------------------------------------------
(* Without sliding the expiry paths know what they delete: nothing writes  *)
(* over an entry, so that an entry a request has found expired is so for   *)
(* good, and the copy that Current looks at is the entry.                  *)
Foresees(p) ==
  ~sliding =>
    /\ ~At(p, "touch")
    /\ call[p].pc \in {"getdel", "svcdel"} /\ call[p].sid \in Stored
         => now > sessions[call[p].sid]
    /\ At(p, "check") /\ call[p].sid \in Stored => call[p].exp = sessions[call[p].sid]

Foresight == \A p \in Procs : Foresees(p)

(* A request that goes on as it was foresees as it did, if the store keeps *)
(* or drops its entry.                                                     *)
LEMMA KeepsForesight ==
  ASSUME IInv, NEW p \in Procs, Foresees(p), UNCHANGED sliding, now' \in {now, now + 1},
         call'[p].pc = call[p].pc, call'[p].sid = call[p].sid, call'[p].exp = call[p].exp,
         At(p, "getdel") \/ At(p, "svcdel") \/ At(p, "check") =>
           (call[p].sid \in Stored' => call[p].sid \in Stored
                                        /\ sessions'[call[p].sid] = sessions[call[p].sid])
  PROVE  Foresees(p)'
<1>1. now \in Nat /\ \A id \in Stored : sessions[id] \in Nat
  BY DEF IInv, TypeOK, CallTypeOK
<1> QED
  BY <1>1 DEF Foresees, At

LEMMA NextForesight == IInv /\ Foresight /\ [Next]_vars => Foresight'
<1> SUFFICES ASSUME IInv, Foresight, [Next]_vars, NEW q \in Procs PROVE Foresees(q)'
  BY DEF Foresight
<1>0. /\ Foresees(q) /\ call \in [Procs -> Call] /\ now \in Nat
      /\ RequestOK(call[q]) /\ OriginOK(call[q])
  BY HasCallInv, RequestsOK DEF Foresight, IInv, TypeOK, CallTypeOK
<1>1. ASSUME NEW p \in Procs, StoreStep(p), p # q PROVE Foresees(q)'
  <2>1. call'[q] = call[q] /\ UNCHANGED <<sliding, now>>
    BY <1>0, <1>1 DEF StoreStep, Create, Get, Delete, Touch, Cancelled, Answer, Goto, GotRead
  <2>2. CASE Create(p)
    <3>1. RequestOK(call[p]) /\ OriginOK(call[p])
      BY HasCallInv, RequestsOK
    <3>2. call[p].op = "callback" /\ call[p].sid \notin issued
      BY <2>2, <3>1 DEF Create, At, RequestOK, OriginOK
    <3>3. \A id \in DOMAIN Purged : id \in Stored /\ Purged[id] = sessions[id]
      BY WithoutFacts DEF Purged, Stored
    <3>4. \A id \in Stored' : id = call[p].sid \/ (id \in Stored /\ sessions'[id] = sessions[id])
      BY <2>2, <3>3 DEF Create, With, Stored
    <3>5. call[q].pc \in {"getdel", "svcdel", "check"} => call[q].sid # call[p].sid
      BY <1>0, <3>2 DEF RequestOK, OriginOK
    <3> QED
      BY <1>0, <2>1, <3>4, <3>5, KeepsForesight DEF At
  <2>3. CASE Get(p) \/ Cancelled(p)
    BY <1>0, <2>1, <2>3, KeepsForesight DEF Get, Cancelled, storeUnchanged, Stored
  <2>4. CASE Delete(p)
    BY <1>0, <2>1, <2>4, KeepsForesight, WithoutFacts DEF Delete, Stored
  <2>5. CASE Touch(p)
    <3>1. CASE sliding
      BY <2>1, <3>1 DEF Foresees
    <3>2. CASE ~sliding
      <4>1. ~At(p, "touch")
        BY <3>2 DEF Foresight, Foresees
      <4> QED
        BY <2>5, <4>1 DEF Touch
    <3> QED
      BY <3>1, <3>2
  <2> QED
    BY <1>1, <2>2, <2>3, <2>4, <2>5 DEF StoreStep
<1>2. CASE StoreStep(q)
  <2>1. UNCHANGED <<sliding, now>>
    BY <1>2 DEF StoreStep, Create, Get, Delete, Touch, Cancelled
  <2>2. ASSUME NEW a, Answer(q, a) PROVE Foresees(q)'
    <3>1. call'[q].pc = "done"
      BY <1>0, <2>2 DEF Answer, Call
    <3> QED
      BY <3>1 DEF Foresees, At
  <2>3. CASE Get(q)
    <3> DEFINE id == call[q].sid
    <3>1. UNCHANGED sessions
      BY <2>3 DEF Get, storeUnchanged
    <3>2. CASE id \in Expired(now) /\ Goto(q, "getdel")
      <4>1. call'[q].pc = "getdel" /\ call'[q].sid = id
        BY <1>0, <3>2 DEF Goto, Call
      <4> QED
        BY <2>1, <3>1, <3>2, <4>1 DEF Foresees, At, Expired
    <3>3. CASE id \in Live /\ GotRead(q, "check", sessions[id])
      <4>1. call'[q].pc = "check" /\ call'[q].sid = id /\ call'[q].exp = sessions[id]
        BY <1>0, <3>3 DEF GotRead, Call
      <4> QED
        BY <2>1, <3>1, <4>1 DEF Foresees, At
    <3> QED
      BY <2>2, <2>3, <3>2, <3>3 DEF Get
  <2> QED
    BY <1>2, <2>2, <2>3 DEF StoreStep, Create, Delete, Touch, Cancelled
<1>3. ASSUME NEW p \in Procs, ServiceStep(p) \/ Disconnect(p), storeUnchanged PROVE Foresees(q)'
  <2>1. UNCHANGED <<sliding, now, sessions>> /\ Stored' = Stored
    BY <1>3 DEF ServiceStep, Disconnect, BeginCallback, BeginCurrent, BeginLogout, CurrentCheck,
                Respond, storeUnchanged, Stored
  <2>2. CASE call'[q].pc = call[q].pc /\ call'[q].sid = call[q].sid /\ call'[q].exp = call[q].exp
    BY <1>0, <2>1, <2>2, KeepsForesight
  <2>6. ASSUME p # q, ~Disconnect(p) PROVE call'[q] = call[q]
    <3>1. CASE BeginCallback(p) \/ BeginCurrent(p) \/ BeginLogout(p)
      BY <1>0, <2>6, <3>1 DEF BeginCallback, BeginCurrent, BeginLogout, Begin
    <3>2. CASE CurrentCheck(p) \/ Respond(p)
      BY <1>0, <2>6, <3>2 DEF CurrentCheck, Respond, Answer, Goto
    <3> QED
      BY <1>3, <2>6, <3>1, <3>2 DEF ServiceStep
  <2>7. ASSUME Disconnect(p)
        PROVE  call'[q].pc = call[q].pc /\ call'[q].sid = call[q].sid /\ call'[q].exp = call[q].exp
    <3>1. call[p] \in Call /\ call[q] \in Call
      BY <1>0
    <3> QED
      BY <1>0, <2>7, <3>1 DEF Disconnect, Call
  <2>3. CASE p = q /\ (BeginCallback(q) \/ BeginCurrent(q) \/ BeginLogout(q))
    <3>1. Began(q)
      BY <2>3, HasCallInv, CallbackMoves, CurrentMoves
    <3> QED
      BY <3>1 DEF Began, Foresees, At
  <2>4. CASE p = q /\ CurrentCheck(q)
    <3>1. CASE now > call[q].exp /\ Goto(q, "svcdel")
      <4>1. call'[q].pc = "svcdel" /\ call'[q].sid = call[q].sid /\ At(q, "check")
        BY <1>0, <2>4, <3>1 DEF Goto, Call, CurrentCheck
      <4> QED
        BY <1>0, <2>1, <3>1, <4>1 DEF Foresees, At
    <3>2. CASE sliding
      BY <2>1, <3>2 DEF Foresees
    <3>3. CASE Answer(q, "active")
      <4>1. call'[q].pc = "done"
        BY <1>0, <3>3 DEF Answer, Call
      <4> QED
        BY <4>1 DEF Foresees, At
    <3> QED
      BY <2>4, <3>1, <3>2, <3>3 DEF CurrentCheck
  <2>5. CASE p = q /\ Respond(q)
    <3>1. call'[q].pc = "idle"
      BY <1>0, <2>5 DEF Respond, Idle
    <3> QED
      BY <3>1 DEF Foresees, At
  <2> QED
    BY <1>3, <2>2, <2>3, <2>4, <2>5, <2>6, <2>7 DEF ServiceStep
<1>4. CASE (Tick /\ storeUnchanged) \/ SweepRead \/ UNCHANGED vars
  BY <1>0, <1>4, KeepsForesight DEF Tick, storeUnchanged, SweepRead, vars, callVars, Stored
<1>5. CASE Sweep \/ \E s \in Subjects : DeleteBySubject(s)
  <2>1. PICK S \in SUBSET Stored : sessions' = Without(S)
    <3>1. CASE Sweep
      BY <3>1 DEF Sweep, Expired
    <3>2. ASSUME NEW s \in Subjects, DeleteBySubject(s)
          PROVE  \E S \in SUBSET Stored : sessions' = Without(S)
      BY <3>2 DEF DeleteBySubject
    <3> QED
      BY <1>5, <3>1, <3>2
  <2>2. \A id \in Stored' : id \in Stored /\ sessions'[id] = sessions[id]
    BY <2>1, WithoutFacts DEF Stored
  <2>3. UNCHANGED <<sliding, now, call>>
    BY <1>5 DEF Sweep, DeleteBySubject, callVars
  <2> QED
    BY <1>0, <2>2, <2>3, KeepsForesight
<1> QED
  BY <1>1, <1>2, <1>3, <1>4, <1>5 DEF Next

(* Without sliding a session that has not expired leaves the store only by *)
(* a logout or a revocation (service_impl.go:127).                         *)
THEOREM FixedStays == Spec => FixedSurvives
<1>1. Init => Foresight
  BY CallInitInv DEF Init, Foresight, Foresees, At
<1>2. IInv /\ Foresight /\ [Next]_vars => [~sliding => TakenOnPurpose]_vars
  <2> SUFFICES ASSUME IInv, Foresight, Next, ~sliding, NEW id \in Live \ Stored',
                      ~ \E s \in Subjects : DeleteBySubject(s)
               PROVE  \E p \in Procs : /\ At(p, "delete") /\ call[p].sid = id
                                       /\ call'[p].ans = "ok"
    BY DEF TakenOnPurpose
  <2>1. id \in Stored /\ ~(now > sessions[id]) /\ id \notin Expired(now)
    BY DEF Live, Expired
  <2>2. ASSUME NEW p \in Procs, Delete(p)
        PROVE  At(p, "delete") /\ call[p].sid = id /\ call'[p].ans = "ok"
    <3>1. call[p].sid = id
      BY <2>1, <2>2, WithoutFacts DEF Delete, Stored
    <3>2. call[p].pc \notin {"getdel", "svcdel"}
      BY <2>1, <3>1 DEF Foresight, Foresees
    <3>3. At(p, "delete")
      BY <2>2, <3>2 DEF Delete, At
    <3> QED
      BY <2>2, <3>1, <3>3, AnswerSets DEF Delete
  <2>3. ASSUME NEW p \in Procs, Create(p) PROVE FALSE
    <3>1. id \in DOMAIN Purged
      BY <2>1, WithoutFacts DEF Purged, Stored
    <3> QED
      BY <2>3, <3>1 DEF Create, With, Stored
  <2>4. ASSUME NEW p \in Procs, Get(p) \/ Touch(p) \/ Cancelled(p) PROVE FALSE
    BY <2>1, <2>4 DEF Get, Touch, Cancelled, storeUnchanged, Stored
  <2>5. CASE Sweep
    <3>1. sweepAt \in 0 .. now /\ now \in Nat /\ sessions[id] \in Nat
      BY <2>1, <2>5 DEF Sweep, IInv, TypeOK, CallTypeOK
    <3>2. id \notin Expired(sweepAt)
      BY <2>1, <3>1 DEF Expired
    <3> QED
      BY <2>1, <2>5, <3>2, WithoutFacts DEF Sweep, Stored
  <2>6. CASE storeUnchanged \/ SweepRead
    BY <2>1, <2>6 DEF storeUnchanged, SweepRead, Stored
  <2> QED
    BY <2>2, <2>3, <2>4, <2>5, <2>6 DEF Next, StoreStep
<1> QED
  BY <1>1, <1>2, NextForesight, InvHolds, PTL DEF Spec, FixedSurvives
================================================================================
