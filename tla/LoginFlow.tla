-------------------------------- MODULE LoginFlow --------------------------------
(***************************************************************************)
(* The OAuth login: GET /auth/login draws a state and stores it, the user  *)
(* signs in at Casdoor, and GET /auth/callback/casdoor consumes the state, *)
(* exchanges the code, reads the user and opens a session.  The state      *)
(* store is the memory one or the Redis one, as session.provider says.     *)
(*                                                                         *)
(* Casdoor and the browsers are external: Casdoor gives a code for every   *)
(* sign-in and honours a code once; a browser may sign in again from the   *)
(* same login page, and may send one callback URL any number of times.     *)
(***************************************************************************)
EXTENDS Integers, FiniteSets

CONSTANTS
  Procs,          \* goroutines serving callbacks
  States,         \* the values randomState() can draw in a run
  Codes,          \* the authorization codes Casdoor can give in a run
  None,           \* no state, no code
  StateTTL,       \* the ten minutes of LoginURL
  MaxStates,      \* maxMemoryLoginStates
  Providers,      \* the values of session.provider to consider
  MaxTime         \* bound of the model: the clock stops here

ASSUME NoneAssumption == None \notin States \cup Codes
ASSUME StateTTLAssumption == StateTTL \in Nat \ {0}
ASSUME MaxStatesAssumption == MaxStates \in Nat \ {0}
ASSUME ProvidersAssumption == Providers \subseteq {"memory", "redis"}
ASSUME MaxTimeAssumption == MaxTime \in Nat

VARIABLES
  provider,       \* session.provider; no step changes it
  now,            \* time.Now()
  items,          \* stored login states: state -> [redirect, exp]
  drawn,          \* states drawn so far
  born,           \* history: when each drawn state was stored
  used,           \* codes Casdoor has given -> whether it was exchanged
  urls,           \* callback URLs browsers hold: <<code, state>>
  cb,             \* the callback each goroutine serves
  opened          \* history: sessions opened on the strength of each state

vars == <<provider, now, items, drawn, born, used, urls, cb, opened>>

MaxAttempts == 3                                      \* doJSON

(* What a login request can ask to be sent back to, as normalizeRedirect   *)
(* tells them apart: nothing; a path of this site; an http(s) URL of       *)
(* localhost or a private address; any other absolute URL; a value that is *)
(* malformed ("//", backslash, control character, relative path).          *)
Redirects == {"empty", "path", "localURL", "otherURL", "malformed"}

normalizeRedirect(value, fallback) ==
  IF value \in {"path", "localURL"} THEN value ELSE fallback

Callback == [pc : {"idle", "consume", "exchange", "userinfo", "create", "done"},
             st : States \cup {None}, code : Codes \cup {None},
             redirect : Redirects, at : Nat, tries : 0 .. MaxAttempts - 1,
             ans : {"none", "ok", "invalid", "err"}]

Idle == [pc |-> "idle", st |-> None, code |-> None, redirect |-> "empty",
         at |-> 0, tries |-> 0, ans |-> "none"]

At(p, pc) == cb[p].pc = pc
AtWork == {"exchange", "userinfo", "create"}     \* its state has been consumed
Goto(p, pc) == cb' = [cb EXCEPT ![p].pc = pc, ![p].tries = 0]
Answer(p, a) == cb' = [cb EXCEPT ![p].pc = "done", ![p].ans = a]

Keep(S) == [st \in DOMAIN items \cap S |-> items[st]]
Put(f, x, v) == [y \in DOMAIN f \cup {x} |-> IF y = x THEN v ELSE f[y]]
Expired(at) == {st \in DOMAIN items : at > items[st].exp}

--------------------------------------------------------------------------------
(* Definitions named Bad_ are slips of the code that the runs must notice; *)
(* each stands before what it would replace, and nothing uses it.          *)
Full(f) == provider = "memory" /\ Cardinality(DOMAIN f) >= MaxStates

Bad_Purged == IF Full(items) THEN Keep({}) ELSE items
Purged == IF Full(items) THEN Keep(States \ Expired(now)) ELSE items

Bad_Item(value) == [redirect |-> normalizeRedirect(value, "path"), exp |-> now + 2 * StateTTL]
Item(value) == [redirect |-> normalizeRedirect(value, "path"), exp |-> now + StateTTL]

(* LoginURL: a fresh state with ten minutes to live.  A full memory store  *)
(* drops what has expired, and refuses the login if that frees nothing.    *)
Login(value) ==
  \E st \in States \ drawn :
    /\ drawn' = drawn \cup {st}
    /\ IF Full(Purged)
       THEN items' = Purged /\ UNCHANGED born
       ELSE items' = Put(Purged, st, Item(value)) /\ born' = Put(born, st, now)
    /\ UNCHANGED <<provider, now, used, urls, cb, opened>>

(* Casdoor: the user signs in from the page the login led to, and the      *)
(* browser is redirected to the callback URL.                              *)
SignIn ==
  \E st \in DOMAIN born, code \in Codes \ DOMAIN used :
    /\ used' = Put(used, code, FALSE)
    /\ urls' = urls \cup {<<code, st>>}
    /\ UNCHANGED <<provider, now, items, drawn, born, cb, opened>>

BeginCallback(p) ==
  /\ At(p, "idle")
  /\ \E url \in urls :
       cb' = [cb EXCEPT ![p] = [Idle EXCEPT !.pc = "consume", !.code = url[1], !.st = url[2]]]
  /\ UNCHANGED <<provider, now, items, drawn, born, used, urls, opened>>

(* states.Consume: whatever comes of the callback, the state is spent.  An *)
(* expired one is removed and refused; Redis has dropped it already.  When *)
(* Redis's reply is lost, the state is spent and the callback fails.       *)
Bad_ConsumePeeks(p) ==
  LET st == cb[p].st IN
  /\ At(p, "consume")
  /\ IF st \in DOMAIN items \ Expired(now)
     THEN cb' = [cb EXCEPT ![p].pc = "exchange", ![p].at = now,
                           ![p].redirect = items[st].redirect]
     ELSE Answer(p, "invalid")
  /\ UNCHANGED <<provider, now, items, drawn, born, used, urls, opened>>

Bad_ConsumeLate(p) ==
  LET st == cb[p].st IN
  /\ At(p, "consume")
  /\ items' = Keep(States \ {st})
  /\ IF st \in DOMAIN items
     THEN cb' = [cb EXCEPT ![p].pc = "exchange", ![p].at = now,
                           ![p].redirect = items[st].redirect]
     ELSE Answer(p, "invalid")
  /\ UNCHANGED <<provider, now, drawn, born, used, urls, opened>>

Consume(p) ==
  LET st == cb[p].st IN
  /\ At(p, "consume")
  /\ items' = Keep(States \ {st})
  /\ \/ st \in DOMAIN items \ Expired(now)
          /\ cb' = [cb EXCEPT ![p].pc = "exchange", ![p].at = now,
                              ![p].redirect = items[st].redirect]
     \/ st \notin DOMAIN items \ Expired(now) /\ Answer(p, "invalid")
     \/ provider = "redis" /\ Answer(p, "invalid")
  /\ UNCHANGED <<provider, now, drawn, born, used, urls, opened>>

(* doJSON: a transport error or a 5xx is tried again, three times in all.  *)
Bad_RetryForever(p) == cb' = [cb EXCEPT ![p].tries = (@ + 1) % MaxAttempts]

Retry(p) ==
  \/ cb[p].tries + 1 < MaxAttempts /\ cb' = [cb EXCEPT ![p].tries = @ + 1]
  \/ cb[p].tries + 1 = MaxAttempts /\ Answer(p, "err")

(* One attempt at ExchangeCode.  Casdoor honours an unused code, and the   *)
(* reply arrives or is lost; it refuses a used one, or any for reasons of  *)
(* its own; or the attempt never reaches it.                               *)
Exchange(p) ==
  LET code == cb[p].code IN
  /\ At(p, "exchange")
  /\ \/ ~used[code] /\ used' = [used EXCEPT ![code] = TRUE] /\ Goto(p, "userinfo")
     \/ ~used[code] /\ used' = [used EXCEPT ![code] = TRUE] /\ Retry(p)
     \/ Answer(p, "err") /\ UNCHANGED used
     \/ Retry(p) /\ UNCHANGED used
  /\ UNCHANGED <<provider, now, items, drawn, born, urls, opened>>

GetUserInfo(p) ==
  /\ At(p, "userinfo")
  /\ Goto(p, "create") \/ Answer(p, "err") \/ Retry(p)
  /\ UNCHANGED <<provider, now, items, drawn, born, used, urls, opened>>

(* sessions.Create, which MemorySessions and RedisSessions detail.         *)
CreateSession(p) ==
  /\ At(p, "create")
  /\ \/ Answer(p, "ok") /\ opened' = [opened EXCEPT ![cb[p].st] = @ + 1]
     \/ Answer(p, "err") /\ UNCHANGED opened
  /\ UNCHANGED <<provider, now, items, drawn, born, used, urls>>

(* The browser goes away: the next operation finds its context cancelled.  *)
Cancelled(p) ==
  /\ cb[p].pc \notin {"idle", "done"}
  /\ Answer(p, IF At(p, "consume") THEN "invalid" ELSE "err")
  /\ UNCHANGED <<provider, now, items, drawn, born, used, urls, opened>>

(* The handler redirects to where the login came from, or answers 401.     *)
Respond(p) ==
  /\ At(p, "done")
  /\ cb' = [cb EXCEPT ![p] = Idle]
  /\ UNCHANGED <<provider, now, items, drawn, born, used, urls, opened>>

(* cleanupLoop of the memory store, with a time read before it had the     *)
(* lock.                                                                   *)
Sweep ==
  /\ provider = "memory"
  /\ \E at \in 0 .. now : items' = Keep(States \ Expired(at))
  /\ UNCHANGED <<provider, now, drawn, born, used, urls, cb, opened>>

(* Time passes; Redis drops a key when its time to live is over.           *)
Tick ==
  /\ now < MaxTime
  /\ now' = now + 1
  /\ items' = IF provider = "redis" THEN Keep(States \ Expired(now')) ELSE items
  /\ UNCHANGED <<provider, drawn, born, used, urls, cb, opened>>

--------------------------------------------------------------------------------
Init ==
  /\ provider \in Providers
  /\ now = 0
  /\ items = << >>
  /\ drawn = {}
  /\ born = << >>
  /\ used = << >>
  /\ urls = {}
  /\ cb = [p \in Procs |-> Idle]
  /\ opened = [st \in States |-> 0]

Serve(p) ==
  \/ Consume(p)
  \/ Exchange(p)
  \/ GetUserInfo(p)
  \/ CreateSession(p)
  \/ Respond(p)

Next ==
  \/ \E value \in Redirects : Login(value)
  \/ SignIn
  \/ \E p \in Procs : BeginCallback(p)
  \/ \E p \in Procs : Serve(p)
  \/ \E p \in Procs : Cancelled(p)
  \/ Sweep
  \/ Tick

(* A goroutine that can run runs, and every HTTP attempt ends, if only by  *)
(* the client's 15-second timeout.                                         *)
Fairness == \A p \in Procs : WF_vars(Serve(p))

Spec == Init /\ [][Next]_vars
FairSpec == Spec /\ Fairness

--------------------------------------------------------------------------------
TypeOK ==
  /\ provider \in Providers
  /\ now \in Nat
  /\ drawn \subseteq States
  /\ DOMAIN items \subseteq DOMAIN born
  /\ DOMAIN born \subseteq drawn
  /\ \A st \in DOMAIN items : items[st] \in [redirect : Redirects, exp : Nat]
  /\ \A st \in DOMAIN born : born[st] \in Nat
  /\ DOMAIN used \subseteq Codes /\ \A c \in DOMAIN used : used[c] \in BOOLEAN
  /\ urls \subseteq (DOMAIN used) \X (DOMAIN born)
  /\ cb \in [Procs -> Callback]
  /\ opened \in [States -> Nat]

(* A login opens at most one session, however often its callback URL is    *)
(* sent, concurrently or again, with whichever of its codes, and whatever  *)
(* is retried (memory_state_store.go:54-72, redis_state_store.go:55-73).   *)
OneSessionPerState == \A st \in States : opened[st] <= 1

(* Two callbacks never work on the same login at once, which is what       *)
(* OneSessionPerState rests on: a state that is being worked on is no      *)
(* longer stored, and opens no session if it has opened one already.       *)
StateIsSpent ==
  \A p \in Procs : cb[p].pc \in AtWork =>
    /\ cb[p].st \notin DOMAIN items
    /\ opened[cb[p].st] = 0
    /\ \A q \in Procs \ {p} : cb[q].pc \in AtWork => cb[q].st # cb[p].st

(* No session is opened on a login whose state was given back later than   *)
(* the ten minutes it had (service_impl.go:68).                            *)
NoStaleLogin ==
  \A p \in Procs : cb[p].pc \in AtWork => cb[p].at - born[cb[p].st] <= StateTTL

(* A state that is stored has not been used, and has what is left of its   *)
(* ten minutes.                                                            *)
StoredIsUnspent ==
  \A st \in DOMAIN items : opened[st] = 0 /\ items[st].exp = born[st] + StateTTL

(* Sessions and callbacks are of states that were stored once.             *)
FromLogins ==
  /\ \A st \in States : opened[st] # 0 => st \in DOMAIN born
  /\ \A p \in Procs : ~At(p, "idle") => <<cb[p].code, cb[p].st>> \in urls

(* The inductive invariant.                                                *)
IInv ==
  /\ TypeOK
  /\ StateIsSpent
  /\ OneSessionPerState
  /\ NoStaleLogin
  /\ StoredIsUnspent
  /\ FromLogins

(* A login that has not expired is not pushed out by others: it leaves the *)
(* store only when its own callback takes it (memory_state_store.go:44-50).*)
LoginSurvives ==
  [][\A st \in DOMAIN items \ Expired(now) : st \notin DOMAIN items' =>
        \/ now' > items[st].exp
        \/ \E p \in Procs : cb[p].st = st /\ At(p, "consume")]_vars

(* The memory store holds no more states than its limit, however many      *)
(* logins begin at once (memory_state_store.go:44-50).                     *)
WithinLimit == provider = "memory" => Cardinality(DOMAIN items) <= MaxStates

(* Every callback is answered, in spite of the retries.                    *)
CallbackAnswered ==
  \A p \in Procs : At(p, "consume") ~> At(p, "done")
================================================================================
