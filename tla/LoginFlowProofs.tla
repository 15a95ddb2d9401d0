----------------------------- MODULE LoginFlowProofs -----------------------------
(***************************************************************************)
(* A login opens one session at most, and none on a state that is out of   *)
(* date, for any number of callbacks, states and codes, with either state  *)
(* store; and no login pushes out another.  The inductive invariant is     *)
(* LoginFlow!IInv: Consume takes the state out of the store in the step in *)
(* which it looks at it, so two callbacks never work on one state.         *)
(***************************************************************************)
EXTENDS LoginFlow, FiniteSetTheorems, TLAPS

(* Stored states are drawn ones.                                           *)
LEMMA StoredAreStates == ASSUME IInv PROVE DOMAIN items \subseteq States /\ DOMAIN born \subseteq States
BY DEF IInv, TypeOK

LEMMA InitInv == Init => IInv
<1> SUFFICES ASSUME Init PROVE IInv
  OBVIOUS
<1>1. DOMAIN items = {} /\ DOMAIN born = {} /\ DOMAIN used = {}
  BY DEF Init
<1>2. Idle \in Callback /\ Idle.pc = "idle"
  BY DEF Idle, Callback, Redirects, MaxAttempts
<1>3. \A p \in Procs : cb[p] = Idle
  BY DEF Init
<1>4. TypeOK
  BY <1>1, <1>2 DEF Init, TypeOK
<1>5. StateIsSpent /\ NoStaleLogin
  BY <1>2, <1>3 DEF StateIsSpent, NoStaleLogin, AtWork
<1>6. OneSessionPerState /\ StoredIsUnspent
  BY <1>1 DEF Init, OneSessionPerState, StoredIsUnspent
<1>7. FromLogins
  BY <1>2, <1>3 DEF Init, FromLogins, At
<1> QED
  BY <1>4, <1>5, <1>6, <1>7 DEF IInv

(* A callback moves on without a change of the states: whoever is at work  *)
(* on one now was before.                                                  *)
LEMMA CallbackMoves ==
  ASSUME IInv, NEW p \in Procs, NEW r \in Callback,
         cb' = [cb EXCEPT ![p] = r],
         r.pc # "idle" => <<r.code, r.st>> \in urls,
         r.pc \in AtWork => cb[p].pc \in AtWork /\ r.st = cb[p].st /\ r.at = cb[p].at,
         UNCHANGED <<provider, now, items, drawn, born, urls, opened>>,
         DOMAIN used' = DOMAIN used, \A c \in DOMAIN used : used'[c] \in BOOLEAN
  PROVE  IInv'
<1>1. cb' \in [Procs -> Callback] /\ cb'[p] = r /\ \A q \in Procs \ {p} : cb'[q] = cb[q]
  BY DEF IInv, TypeOK
<1>2. TypeOK'
  BY <1>1 DEF IInv, TypeOK
<1>3. \A q \in Procs : cb'[q].pc \in AtWork =>
        cb[q].pc \in AtWork /\ cb'[q].st = cb[q].st /\ cb'[q].at = cb[q].at
  BY <1>1
<1>4. StateIsSpent' /\ NoStaleLogin'
  BY <1>3 DEF IInv, StateIsSpent, NoStaleLogin
<1>5. OneSessionPerState' /\ StoredIsUnspent'
  BY DEF IInv, OneSessionPerState, StoredIsUnspent
<1>6. FromLogins'
  BY <1>1 DEF IInv, FromLogins, At
<1> QED
  BY <1>2, <1>4, <1>5, <1>6 DEF IInv

(* What is stored becomes less, and time may pass.                         *)
LEMMA StoreShrinks ==
  ASSUME IInv, DOMAIN items' \subseteq DOMAIN items,
         \A st \in DOMAIN items' : items'[st] = items[st],
         now' \in Nat,
         UNCHANGED <<provider, drawn, born, used, urls, cb, opened>>
  PROVE  IInv'
<1>1. TypeOK'
  BY DEF IInv, TypeOK
<1>2. StateIsSpent' /\ NoStaleLogin' /\ OneSessionPerState' /\ StoredIsUnspent' /\ FromLogins'
  BY DEF IInv, StateIsSpent, NoStaleLogin, OneSessionPerState, StoredIsUnspent, FromLogins, At
<1> QED
  BY <1>1, <1>2 DEF IInv

(* The callback of p and what it is about.                                 *)
LEMMA CallbackFacts ==
  ASSUME IInv, NEW p \in Procs
  PROVE  /\ cb[p] \in Callback
         /\ ~At(p, "idle") =>
              /\ <<cb[p].code, cb[p].st>> \in urls
              /\ cb[p].st \in DOMAIN born /\ cb[p].st \in States
              /\ cb[p].code \in DOMAIN used
<1>1. cb[p] \in Callback
  BY DEF IInv, TypeOK
<1>2. ASSUME ~At(p, "idle")
      PROVE  /\ <<cb[p].code, cb[p].st>> \in urls
             /\ cb[p].st \in DOMAIN born /\ cb[p].st \in States
             /\ cb[p].code \in DOMAIN used
  BY <1>2 DEF IInv, FromLogins, TypeOK
<1> QED
  BY <1>1, <1>2

LEMMA AnswerKeeps ==
  ASSUME IInv, NEW p \in Procs, ~At(p, "idle"), NEW a \in {"ok", "invalid", "err"},
         Answer(p, a), UNCHANGED <<provider, now, items, drawn, born, urls, opened>>,
         DOMAIN used' = DOMAIN used, \A c \in DOMAIN used : used'[c] \in BOOLEAN
  PROVE  IInv'
<1> DEFINE r == [cb[p] EXCEPT !.pc = "done", !.ans = a]
<1>1. cb[p] \in Callback /\ <<cb[p].code, cb[p].st>> \in urls
  BY CallbackFacts
<1>2. r \in Callback /\ r.pc = "done" /\ r.code = cb[p].code /\ r.st = cb[p].st
  BY <1>1 DEF Callback
<1>3. cb' = [cb EXCEPT ![p] = r]
  BY DEF Answer, IInv, TypeOK
<1> HIDE DEF r
<1> QED
  BY <1>1, <1>2, <1>3, CallbackMoves DEF AtWork

LEMMA GotoKeeps ==
  ASSUME IInv, NEW p \in Procs, cb[p].pc \in AtWork, NEW pc \in AtWork,
         Goto(p, pc), UNCHANGED <<provider, now, items, drawn, born, urls, opened>>,
         DOMAIN used' = DOMAIN used, \A c \in DOMAIN used : used'[c] \in BOOLEAN
  PROVE  IInv'
<1> DEFINE r == [cb[p] EXCEPT !.pc = pc, !.tries = 0]
<1>1. cb[p] \in Callback /\ <<cb[p].code, cb[p].st>> \in urls
  <2>1. ~At(p, "idle")
    BY DEF At, AtWork
  <2> QED
    BY <2>1, CallbackFacts
<1>2. r \in Callback /\ r.pc = pc /\ r.code = cb[p].code /\ r.st = cb[p].st /\ r.at = cb[p].at
  <2>1. pc \in {"idle", "consume", "exchange", "userinfo", "create", "done"}
        /\ 0 \in 0 .. MaxAttempts - 1
    BY DEF AtWork, MaxAttempts
  <2> QED
    BY <1>1, <2>1 DEF Callback
<1>3. cb' = [cb EXCEPT ![p] = r]
  BY DEF Goto, IInv, TypeOK
<1> HIDE DEF r
<1> QED
  BY <1>1, <1>2, <1>3, CallbackMoves

LEMMA RetryKeeps ==
  ASSUME IInv, NEW p \in Procs, cb[p].pc \in AtWork,
         Retry(p), UNCHANGED <<provider, now, items, drawn, born, urls, opened>>,
         DOMAIN used' = DOMAIN used, \A c \in DOMAIN used : used'[c] \in BOOLEAN
  PROVE  IInv'
<1> DEFINE r == [cb[p] EXCEPT !.tries = cb[p].tries + 1]
<1>1. cb[p] \in Callback /\ <<cb[p].code, cb[p].st>> \in urls /\ ~At(p, "idle")
  BY CallbackFacts DEF At, AtWork
<1>2. CASE cb[p].tries + 1 < MaxAttempts /\ cb' = [cb EXCEPT ![p].tries = @ + 1]
  <2>1. /\ r \in Callback /\ r.pc = cb[p].pc /\ r.code = cb[p].code
        /\ r.st = cb[p].st /\ r.at = cb[p].at
    BY <1>1, <1>2 DEF Callback, MaxAttempts
  <2>2. cb' = [cb EXCEPT ![p] = r]
    BY <1>2 DEF IInv, TypeOK
  <2> HIDE DEF r
  <2> QED
    BY <1>1, <2>1, <2>2, CallbackMoves
<1>3. CASE Answer(p, "err")
  BY <1>1, <1>3, AnswerKeeps
<1> QED
  BY <1>2, <1>3 DEF Retry

--------------------------------------------------------------------------------
LEMMA PurgedFacts ==
  ASSUME IInv
  PROVE  /\ DOMAIN Purged \subseteq DOMAIN items
         /\ \A st \in DOMAIN Purged : Purged[st] = items[st]
         /\ \A st \in DOMAIN items \ Expired(now) : st \in DOMAIN Purged
<1>1. DOMAIN items \subseteq States
  BY DEF IInv, TypeOK
<1> QED
  BY <1>1 DEF Purged, Keep

LEMMA LoginKeeps == ASSUME IInv, NEW value \in Redirects, Login(value) PROVE IInv'
<1>1. PICK st \in States \ drawn :
        /\ drawn' = drawn \cup {st}
        /\ \/ items' = Purged /\ UNCHANGED born
           \/ items' = Put(Purged, st, Item(value)) /\ born' = Put(born, st, now)
        /\ UNCHANGED <<provider, now, used, urls, cb, opened>>
  BY DEF Login
<1>2. Item(value) \in [redirect : Redirects, exp : Nat] /\ Item(value).exp = now + StateTTL
  BY StateTTLAssumption DEF Item, IInv, TypeOK, normalizeRedirect, Redirects
<1>3. st \notin DOMAIN born /\ st \notin DOMAIN items /\ opened[st] = 0
  BY DEF IInv, TypeOK, FromLogins
<1>4. \A p \in Procs : cb[p].pc \in AtWork => cb[p].st # st /\ cb[p].st \in DOMAIN born
  BY <1>3, CallbackFacts DEF At, AtWork
<1>5. /\ DOMAIN items' \subseteq DOMAIN items \cup {st}
      /\ \A x \in DOMAIN items' \ {st} : items'[x] = items[x]
      /\ st \in DOMAIN items' => items'[st] = Item(value) /\ born'[st] = now
      /\ DOMAIN items' \subseteq DOMAIN born'
  <2>1. CASE items' = Purged /\ UNCHANGED born
    BY <1>3, <2>1, PurgedFacts DEF IInv, TypeOK
  <2>2. CASE items' = Put(Purged, st, Item(value)) /\ born' = Put(born, st, now)
    <3>1. /\ DOMAIN items' = DOMAIN Purged \cup {st} /\ items'[st] = Item(value)
          /\ \A x \in DOMAIN Purged \ {st} : items'[x] = Purged[x]
          /\ DOMAIN born' = DOMAIN born \cup {st} /\ born'[st] = now
      BY <2>2 DEF Put
    <3> QED
      BY <1>3, <3>1, PurgedFacts DEF IInv, TypeOK
  <2> QED
    BY <1>1, <2>1, <2>2
<1>6. /\ DOMAIN born \subseteq DOMAIN born' /\ DOMAIN born' \subseteq DOMAIN born \cup {st}
      /\ \A x \in DOMAIN born : born'[x] = born[x]
      /\ st \in DOMAIN born' => born'[st] = now
  BY <1>1, <1>3 DEF Put
<1>7. TypeOK'
  BY <1>1, <1>2, <1>5, <1>6 DEF IInv, TypeOK
<1>8. StateIsSpent' /\ NoStaleLogin'
  BY <1>1, <1>4, <1>5, <1>6 DEF IInv, StateIsSpent, NoStaleLogin
<1>9. OneSessionPerState' /\ FromLogins'
  BY <1>1, <1>6 DEF IInv, OneSessionPerState, FromLogins, At
<1>10. StoredIsUnspent'
  BY <1>1, <1>2, <1>3, <1>5, <1>6 DEF IInv, StoredIsUnspent, TypeOK
<1> QED
  BY <1>7, <1>8, <1>9, <1>10 DEF IInv

LEMMA SignInKeeps == ASSUME IInv, SignIn PROVE IInv'
<1>1. PICK st \in DOMAIN born, code \in Codes \ DOMAIN used :
        /\ used' = Put(used, code, FALSE)
        /\ urls' = urls \cup {<<code, st>>}
        /\ UNCHANGED <<provider, now, items, drawn, born, cb, opened>>
  BY DEF SignIn
<1>2. DOMAIN used' = DOMAIN used \cup {code}
      /\ used'[code] = FALSE /\ \A c \in DOMAIN used : used'[c] = used[c]
  BY <1>1 DEF Put
<1>3. TypeOK'
  <2>1. urls' \subseteq (DOMAIN used') \X (DOMAIN born')
    <3>1. urls \subseteq (DOMAIN used) \X (DOMAIN born) /\ born' = born
      BY <1>1 DEF IInv, TypeOK
    <3>2. (DOMAIN used) \X (DOMAIN born) \subseteq (DOMAIN used') \X (DOMAIN born')
      BY <1>2, <3>1
    <3>3. <<code, st>> \in (DOMAIN used') \X (DOMAIN born')
      BY <1>2, <3>1
    <3> QED
      BY <1>1, <3>1, <3>2, <3>3
  <2>2. DOMAIN used' \subseteq Codes /\ \A c \in DOMAIN used' : used'[c] \in BOOLEAN
    BY <1>1, <1>2 DEF IInv, TypeOK
  <2> QED
    BY <1>1, <2>1, <2>2 DEF IInv, TypeOK
<1>4. StateIsSpent' /\ NoStaleLogin' /\ OneSessionPerState' /\ StoredIsUnspent' /\ FromLogins'
  BY <1>1 DEF IInv, StateIsSpent, NoStaleLogin, OneSessionPerState, StoredIsUnspent,
              FromLogins, At
<1> QED
  BY <1>3, <1>4 DEF IInv

LEMMA BeginCallbackKeeps == ASSUME IInv, NEW p \in Procs, BeginCallback(p) PROVE IInv'
<1>1. PICK url \in urls :
        cb' = [cb EXCEPT ![p] = [Idle EXCEPT !.pc = "consume", !.code = url[1], !.st = url[2]]]
  BY DEF BeginCallback
<1>2. PICK code \in Codes, st \in States : url = <<code, st>>
  <2>1. url \in (DOMAIN used) \X (DOMAIN born) /\ DOMAIN used \subseteq Codes
    BY DEF IInv, TypeOK
  <2> QED
    BY <2>1, StoredAreStates
<1> DEFINE r == [Idle EXCEPT !.pc = "consume", !.code = code, !.st = st]
<1>3. r \in Callback /\ r.pc = "consume" /\ r.code = code /\ r.st = st
  <2>1. Idle \in Callback
    BY DEF Idle, Callback, Redirects, MaxAttempts
  <2> QED
    BY <2>1 DEF Callback
<1>4. cb' = [cb EXCEPT ![p] = r]
  BY <1>1, <1>2
<1> HIDE DEF r
<1>5. <<r.code, r.st>> \in urls
  BY <1>2, <1>3
<1>6. UNCHANGED <<provider, now, items, drawn, born, used, urls, opened>>
  BY DEF BeginCallback
<1> QED
  BY <1>3, <1>4, <1>5, <1>6, CallbackMoves DEF AtWork, IInv, TypeOK

(* Consume: from here on the state is this callback's alone.               *)
LEMMA ConsumeKeeps == ASSUME IInv, NEW p \in Procs, Consume(p) PROVE IInv'
<1> DEFINE st == cb[p].st
<1>1. /\ cb[p] \in Callback /\ cb[p].pc = "consume" /\ items' = Keep(States \ {st})
      /\ UNCHANGED <<provider, now, drawn, born, used, urls, opened>>
      /\ <<cb[p].code, st>> \in urls /\ st \in DOMAIN born /\ st \in States
  BY CallbackFacts DEF Consume, At
<1>2. /\ DOMAIN items' = DOMAIN items \ {st}
      /\ \A x \in DOMAIN items' : items'[x] = items[x]
  BY <1>1, StoredAreStates DEF Keep
<1>3. PICK r \in Callback :
        /\ cb' = [cb EXCEPT ![p] = r]
        /\ r.pc \in {"exchange", "done"} /\ r.code = cb[p].code /\ r.st = st
        /\ r.pc = "exchange" => r.at = now /\ st \in DOMAIN items \ Expired(now)
  <2>1. CASE /\ st \in DOMAIN items \ Expired(now)
             /\ cb' = [cb EXCEPT ![p].pc = "exchange", ![p].at = now,
                                 ![p].redirect = items[st].redirect]
    <3> DEFINE r == [cb[p] EXCEPT !.pc = "exchange", !.at = now,
                                  !.redirect = items[st].redirect]
    <3>1. items[st].redirect \in Redirects /\ now \in Nat
      BY <2>1 DEF IInv, TypeOK
    <3>2. /\ r \in Callback /\ r.pc = "exchange" /\ r.code = cb[p].code
          /\ r.st = st /\ r.at = now
      BY <1>1, <3>1 DEF Callback
    <3>3. cb' = [cb EXCEPT ![p] = r]
      BY <2>1 DEF IInv, TypeOK
    <3> QED
      BY <2>1, <3>2, <3>3
  <2>2. CASE Answer(p, "invalid")
    <3> DEFINE r == [cb[p] EXCEPT !.pc = "done", !.ans = "invalid"]
    <3>1. r \in Callback /\ r.pc = "done" /\ r.code = cb[p].code /\ r.st = st
      BY <1>1 DEF Callback
    <3>2. cb' = [cb EXCEPT ![p] = r]
      BY <2>2 DEF Answer, IInv, TypeOK
    <3> QED
      BY <3>1, <3>2
  <2> QED
    BY <2>1, <2>2 DEF Consume
<1>4. cb' \in [Procs -> Callback] /\ cb'[p] = r /\ \A q \in Procs \ {p} : cb'[q] = cb[q]
  BY <1>3 DEF IInv, TypeOK
<1>5. TypeOK'
  BY <1>1, <1>2, <1>4 DEF IInv, TypeOK
<1>6. r.pc = "exchange" =>
        /\ opened[st] = 0
        /\ \A q \in Procs : cb[q].pc \in AtWork => cb[q].st # st
        /\ now - born[st] <= StateTTL
  <2> SUFFICES ASSUME r.pc = "exchange"
               PROVE  /\ opened[st] = 0
                      /\ \A q \in Procs : cb[q].pc \in AtWork => cb[q].st # st
                      /\ now - born[st] <= StateTTL
    OBVIOUS
  <2>1. st \in DOMAIN items /\ now <= items[st].exp
    BY <1>3 DEF Expired, IInv, TypeOK
  <2>2. opened[st] = 0 /\ items[st].exp = born[st] + StateTTL
    BY <2>1 DEF IInv, StoredIsUnspent
  <2>3. \A q \in Procs : cb[q].pc \in AtWork => cb[q].st # st
    BY <2>1 DEF IInv, StateIsSpent
  <2> QED
    BY <1>1, <2>1, <2>2, <2>3, StateTTLAssumption DEF IInv, TypeOK
<1>7. StateIsSpent' /\ NoStaleLogin'
  BY <1>1, <1>2, <1>3, <1>4, <1>6 DEF IInv, StateIsSpent, NoStaleLogin, AtWork
<1>8. OneSessionPerState' /\ StoredIsUnspent'
  BY <1>1, <1>2 DEF IInv, OneSessionPerState, StoredIsUnspent
<1>9. FromLogins'
  BY <1>1, <1>3, <1>4 DEF IInv, FromLogins, At
<1> QED
  BY <1>5, <1>7, <1>8, <1>9 DEF IInv

LEMMA ExchangeKeeps == ASSUME IInv, NEW p \in Procs, Exchange(p) PROVE IInv'
<1>1. cb[p].pc \in AtWork /\ ~At(p, "idle")
      /\ UNCHANGED <<provider, now, items, drawn, born, urls, opened>>
  BY DEF Exchange, At, AtWork
<1>2. DOMAIN used' = DOMAIN used /\ \A c \in DOMAIN used : used'[c] \in BOOLEAN
  BY DEF Exchange, IInv, TypeOK
<1>3. Goto(p, "userinfo") \/ Retry(p) \/ Answer(p, "err")
  BY DEF Exchange
<1> QED
  BY <1>1, <1>2, <1>3, GotoKeeps, RetryKeeps, AnswerKeeps DEF AtWork

LEMMA GetUserInfoKeeps == ASSUME IInv, NEW p \in Procs, GetUserInfo(p) PROVE IInv'
<1>1. cb[p].pc \in AtWork /\ ~At(p, "idle")
      /\ UNCHANGED <<provider, now, items, drawn, born, used, urls, opened>>
  BY DEF GetUserInfo, At, AtWork
<1>2. \A c \in DOMAIN used : used'[c] \in BOOLEAN
  BY <1>1 DEF IInv, TypeOK
<1>3. Goto(p, "create") \/ Retry(p) \/ Answer(p, "err")
  BY DEF GetUserInfo
<1> QED
  BY <1>1, <1>2, <1>3, GotoKeeps, RetryKeeps, AnswerKeeps DEF AtWork

(* A session is opened: the first of its state, and its callback is over.  *)
LEMMA CreateSessionKeeps == ASSUME IInv, NEW p \in Procs, CreateSession(p) PROVE IInv'
<1> DEFINE st == cb[p].st
<1>1. /\ cb[p] \in Callback /\ cb[p].pc = "create" /\ ~At(p, "idle")
      /\ UNCHANGED <<provider, now, items, drawn, born, used, urls>>
      /\ <<cb[p].code, st>> \in urls /\ st \in DOMAIN born /\ st \in States
      /\ \A c \in DOMAIN used : used'[c] \in BOOLEAN
  BY CallbackFacts DEF CreateSession, At, IInv, TypeOK
<1>2. CASE Answer(p, "err") /\ UNCHANGED opened
  BY <1>1, <1>2, AnswerKeeps
<1>3. CASE Answer(p, "ok") /\ opened' = [opened EXCEPT ![st] = @ + 1]
  <2> DEFINE r == [cb[p] EXCEPT !.pc = "done", !.ans = "ok"]
  <2>1. r \in Callback /\ r.pc = "done" /\ r.code = cb[p].code /\ r.st = st
    BY <1>1 DEF Callback
  <2>2. cb' = [cb EXCEPT ![p] = r]
    BY <1>3 DEF Answer, IInv, TypeOK
  <2> HIDE DEF r
  <2>3. cb' \in [Procs -> Callback] /\ cb'[p] = r /\ \A q \in Procs \ {p} : cb'[q] = cb[q]
    BY <2>1, <2>2 DEF IInv, TypeOK
  <2>4. /\ opened[st] = 0 /\ st \notin DOMAIN items
        /\ \A q \in Procs \ {p} : cb[q].pc \in AtWork => cb[q].st # st
    BY <1>1 DEF IInv, StateIsSpent, AtWork
  <2>5. /\ opened' \in [States -> Nat] /\ opened'[st] = 1
        /\ \A x \in States \ {st} : opened'[x] = opened[x]
    BY <1>1, <1>3, <2>4 DEF IInv, TypeOK
  <2>6. TypeOK'
    BY <1>1, <2>3, <2>5 DEF IInv, TypeOK
  <2>7. \A q \in Procs : cb'[q].pc \in AtWork => q # p /\ cb[q].st \in States
    BY <2>1, <2>3, CallbackFacts DEF AtWork, At
  <2>8. StateIsSpent' /\ NoStaleLogin'
    BY <1>1, <2>3, <2>4, <2>5, <2>7 DEF IInv, StateIsSpent, NoStaleLogin
  <2>9. OneSessionPerState'
    BY <2>5 DEF IInv, OneSessionPerState
  <2>10. StoredIsUnspent'
    BY <1>1, <2>4, <2>5 DEF IInv, StoredIsUnspent, TypeOK
  <2>11. FromLogins'
    BY <1>1, <2>1, <2>3, <2>5 DEF IInv, FromLogins, At
  <2> QED
    BY <2>6, <2>8, <2>9, <2>10, <2>11 DEF IInv
<1> QED
  BY <1>2, <1>3 DEF CreateSession

LEMMA CancelledKeeps == ASSUME IInv, NEW p \in Procs, Cancelled(p) PROVE IInv'
<1>1. ~At(p, "idle") /\ UNCHANGED <<provider, now, items, drawn, born, used, urls, opened>>
      /\ (Answer(p, "invalid") \/ Answer(p, "err"))
      /\ \A c \in DOMAIN used : used'[c] \in BOOLEAN
  BY DEF Cancelled, At, IInv, TypeOK
<1> QED
  BY <1>1, AnswerKeeps

LEMMA RespondKeeps == ASSUME IInv, NEW p \in Procs, Respond(p) PROVE IInv'
<1>1. Idle \in Callback /\ Idle.pc = "idle"
  BY DEF Idle, Callback, Redirects, MaxAttempts
<1>2. /\ cb' = [cb EXCEPT ![p] = Idle]
      /\ UNCHANGED <<provider, now, items, drawn, born, used, urls, opened>>
      /\ \A c \in DOMAIN used : used'[c] \in BOOLEAN
  BY DEF Respond, IInv, TypeOK
<1>3. Idle.pc \notin AtWork
  BY <1>1 DEF AtWork
<1> QED
  BY <1>1, <1>2, <1>3, CallbackMoves

LEMMA SweepKeeps == ASSUME IInv, Sweep PROVE IInv'
<1>1. PICK at \in 0 .. now : items' = Keep(States \ Expired(at))
  BY DEF Sweep
<1>2. DOMAIN items' \subseteq DOMAIN items /\ \A st \in DOMAIN items' : items'[st] = items[st]
  BY <1>1 DEF Keep
<1> QED
  BY <1>2, StoreShrinks DEF Sweep, IInv, TypeOK

LEMMA TickKeeps == ASSUME IInv, Tick PROVE IInv'
<1>1. DOMAIN items' \subseteq DOMAIN items /\ \A st \in DOMAIN items' : items'[st] = items[st]
  BY DEF Tick, Keep
<1>2. now' \in Nat /\ UNCHANGED <<provider, drawn, born, used, urls, cb, opened>>
  BY DEF Tick, IInv, TypeOK
<1> QED
  BY <1>1, <1>2, StoreShrinks

LEMMA NextInv == IInv /\ [Next]_vars => IInv'
<1> SUFFICES ASSUME IInv, [Next]_vars PROVE IInv'
  OBVIOUS
<1>1. CASE UNCHANGED vars
  BY <1>1, StoreShrinks DEF vars, IInv, TypeOK
<1> QED
  BY <1>1, LoginKeeps, SignInKeeps, BeginCallbackKeeps, ConsumeKeeps, ExchangeKeeps,
     GetUserInfoKeeps, CreateSessionKeeps, CancelledKeeps, RespondKeeps, SweepKeeps, TickKeeps
     DEF Next, Serve

--------------------------------------------------------------------------------
THEOREM InvHolds == Spec => []IInv
<1> QED
  BY InitInv, NextInv, PTL DEF Spec

(* A login opens one session at most.                                      *)
THEOREM OneSession == Spec => []OneSessionPerState
<1>1. IInv => OneSessionPerState
  BY DEF IInv
<1> QED
  BY <1>1, InvHolds, PTL

(* No login is completed on a state out of date.                           *)
THEOREM NotStale == Spec => []NoStaleLogin
<1>1. IInv => NoStaleLogin
  BY DEF IInv
<1> QED
  BY <1>1, InvHolds, PTL

(* A login that has not expired leaves the store by its own callback only. *)
THEOREM Survives == Spec => LoginSurvives
<1> DEFINE Survive ==
      \A st \in DOMAIN items \ Expired(now) : st \notin DOMAIN items' =>
        \/ now' > items[st].exp
        \/ \E p \in Procs : cb[p].st = st /\ At(p, "consume")
<1>1. IInv /\ [Next]_vars => [Survive]_vars
  <2> SUFFICES ASSUME IInv, [Next]_vars, NEW st \in DOMAIN items \ Expired(now),
                      st \notin DOMAIN items'
               PROVE  \/ now' > items[st].exp
                      \/ \E p \in Procs : cb[p].st = st /\ At(p, "consume")
    BY DEF vars
  <2>1. st \in States /\ items[st].exp \in Nat /\ now \in Nat /\ now <= items[st].exp
    BY DEF IInv, TypeOK, Expired
  <2>2. ASSUME NEW value \in Redirects, Login(value) PROVE FALSE
    BY <2>2, PurgedFacts DEF Login, Put
  <2>3. ASSUME NEW p \in Procs, Consume(p) PROVE cb[p].st = st /\ At(p, "consume")
    BY <2>1, <2>3 DEF Consume, Keep
  <2>4. ASSUME Sweep PROVE FALSE
    <3>1. PICK at \in 0 .. now : items' = Keep(States \ Expired(at))
      BY <2>4 DEF Sweep
    <3>2. st \notin Expired(at)
      BY <2>1, <3>1 DEF Expired
    <3> QED
      BY <2>1, <3>1, <3>2 DEF Keep
  <2>5. ASSUME Tick PROVE now' > items[st].exp
    <3>1. items' = Keep(States \ Expired(now'))
      BY <2>5 DEF Tick
    <3> QED
      BY <2>1, <3>1 DEF Keep, Expired
  <2>6. items' # items
    OBVIOUS
  <2> QED
    BY <2>2, <2>3, <2>4, <2>5, <2>6
       DEF Next, Serve, SignIn, BeginCallback, Exchange, GetUserInfo, CreateSession,
           Cancelled, Respond, vars
<1>2. Spec => [][Survive]_vars
  BY <1>1, InvHolds, PTL DEF Spec
<1> QED
  BY <1>2 DEF LoginSurvives

--------------------------------------------------------------------------------
(* The limit on stored states, with the finiteness that counting needs.    *)
Bounded == provider = "memory" => IsFiniteSet(DOMAIN items) /\ Cardinality(DOMAIN items) <= MaxStates

LEMMA FewerAreBounded ==
  ASSUME Bounded, provider' = provider, DOMAIN items' \subseteq DOMAIN items
  PROVE  Bounded'
<1> SUFFICES ASSUME provider = "memory"
             PROVE  IsFiniteSet(DOMAIN items') /\ Cardinality(DOMAIN items') <= MaxStates
  BY DEF Bounded
<1>1. IsFiniteSet(DOMAIN items') /\ Cardinality(DOMAIN items') <= Cardinality(DOMAIN items)
  BY FS_Subset DEF Bounded
<1>2. Cardinality(DOMAIN items) \in Nat /\ Cardinality(DOMAIN items') \in Nat
  BY <1>1, FS_CardinalityType DEF Bounded
<1> QED
  BY <1>1, <1>2, MaxStatesAssumption DEF Bounded

LEMMA LoginIsBounded ==
  ASSUME IInv, Bounded, NEW value \in Redirects, Login(value) PROVE Bounded'
<1>1. provider' = provider
  BY DEF Login
<1>2. DOMAIN Purged \subseteq DOMAIN items
  BY PurgedFacts
<1>3. CASE items' = Purged
  BY <1>1, <1>2, <1>3, FewerAreBounded
<1>4. ASSUME NEW st, ~Full(Purged), items' = Put(Purged, st, Item(value)) PROVE Bounded'
  <2> SUFFICES ASSUME provider = "memory"
               PROVE  IsFiniteSet(DOMAIN items') /\ Cardinality(DOMAIN items') <= MaxStates
    BY <1>1 DEF Bounded
  <2>1. IsFiniteSet(DOMAIN Purged) /\ Cardinality(DOMAIN Purged) \in Nat
    BY <1>2, FS_Subset, FS_CardinalityType DEF Bounded
  <2>2. Cardinality(DOMAIN Purged) + 1 <= MaxStates
    BY <1>4, <2>1, MaxStatesAssumption DEF Full
  <2>3. DOMAIN items' = DOMAIN Purged \cup {st}
    BY <1>4 DEF Put
  <2>4. /\ IsFiniteSet(DOMAIN items')
        /\ Cardinality(DOMAIN items') \in {Cardinality(DOMAIN Purged), Cardinality(DOMAIN Purged) + 1}
    BY <2>1, <2>3, FS_AddElement
  <2> QED
    BY <2>1, <2>2, <2>4, MaxStatesAssumption
<1> QED
  BY <1>3, <1>4 DEF Login

LEMMA NextBounded == IInv /\ Bounded /\ [Next]_vars => Bounded'
<1> SUFFICES ASSUME IInv, Bounded, [Next]_vars PROVE Bounded'
  OBVIOUS
<1>1. CASE \E value \in Redirects : Login(value)
  BY <1>1, LoginIsBounded
<1>2. ASSUME NEW p \in Procs, Consume(p) PROVE Bounded'
  BY <1>2, FewerAreBounded DEF Consume, Keep
<1>3. CASE Sweep
  <2>1. PICK at \in 0 .. now : items' = Keep(States \ Expired(at))
    BY <1>3 DEF Sweep
  <2> QED
    BY <1>3, <2>1, FewerAreBounded DEF Sweep, Keep
<1>4. CASE Tick
  BY <1>4, FewerAreBounded DEF Tick, Keep
<1>5. CASE UNCHANGED <<provider, items>>
  BY <1>5, FewerAreBounded
<1> QED
  BY <1>1, <1>2, <1>3, <1>4, <1>5
     DEF Next, Serve, SignIn, BeginCallback, Exchange, GetUserInfo, CreateSession, Cancelled,
         Respond, vars

(* The memory store never holds more than maxMemoryLoginStates, however    *)
(* many logins begin at once: Create's test and its write are one section. *)
THEOREM LimitHolds == Spec => []WithinLimit
<1>1. Init => Bounded
  <2> SUFFICES ASSUME Init PROVE Bounded
    OBVIOUS
  <2>1. DOMAIN items = {}
    BY DEF Init
  <2> QED
    BY <2>1, FS_EmptySet, MaxStatesAssumption DEF Bounded
<1>2. Bounded => WithinLimit
  BY DEF Bounded, WithinLimit
<1> QED
  BY <1>1, <1>2, NextBounded, InvHolds, PTL DEF Spec
================================================================================
