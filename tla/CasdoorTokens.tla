------------------------------- MODULE CasdoorTokens -------------------------------
(***************************************************************************)
(* The Casdoor client's Enforce and the client-credentials token it sends: *)
(* the token is cached under a mutex, fetched by every goroutine that does *)
(* not find one (several may fetch at once, and the last answer to arrive  *)
(* is kept), and given up a minute before Casdoor would refuse it.  Every  *)
(* request is attempted up to three times.                                 *)
(*                                                                         *)
(* Casdoor is external: it issues tokens with a lifetime that it states,   *)
(* or does not; then the client supposes an hour, and all that is said of  *)
(* such a token is said of that hour.                                      *)
(* Timers are punctual: an attempt ends when the client's timeout says so, *)
(* and the next one is sent when the pause between them is over.           *)
(***************************************************************************)
EXTENDS Integers

CONSTANTS
  Callers,          \* goroutines in Enforce
  Lifetimes,      \* the values of expires_in; one that is not positive states none
  Hour,           \* the life of a token whose answer states none
  Timeout,        \* http.Client.Timeout, for one attempt
  Backoff,        \* the 150 ms before the second attempt, twice that before the third
  Margin,         \* the minute of clientCredentialsToken
  MaxClock         \* bound of the model: the clock stops here

ASSUME LifetimesAssumption == Lifetimes \subseteq Int /\ Hour \in Nat \ {0}
ASSUME TimeoutAssumption == Timeout \in Nat /\ Backoff \in Nat
ASSUME MarginAssumption == Margin \in Nat
ASSUME MaxClockAssumption == MaxClock \in Nat

VARIABLES
  clock,            \* time.Now()
  cached,         \* serviceToken and tokenExpiry
  call            \* the Enforce each goroutine is in

tokenVars == <<clock, cached, call>>

(* A token is how long it is stated to be good for, and till when it is.   *)
(* NoToken is long out of date.                                            *)
Token == [life : Int, until : Nat]
NoToken == [life |-> 0, until |-> 0]

MaxAttempts == 3                                             \* doJSON

Call == [pc    : {"idle", "sent", "served", "pause"},
         for   : {"token", "decision"},   \* what the request is to get
         tok   : Token,                   \* the token it carries, or has got
         tries : 0 .. MaxAttempts - 1,
         at    : Nat]                     \* when this attempt is, or is to be, sent

NoCall == [pc |-> "idle", for |-> "decision", tok |-> NoToken, tries |-> 0, at |-> 0]

Send(for, tok) == [pc |-> "sent", for |-> for, tok |-> tok, tries |-> 0, at |-> clock]

--------------------------------------------------------------------------------
(* Definitions named Bad_ are slips of the code that the runs must notice; *)
(* each stands before what it would replace, and nothing uses it.          *)

(* The expiry the client gives a token that arrives now.  One that is good *)
(* for no longer than the margin is kept without it.                       *)
Bad_Lasts(life) == life
Lasts(life) == IF life <= 0 THEN Hour ELSE life

Bad_Expiry(life) == clock + Lasts(life)
Expiry(life) ==
  IF Lasts(life) <= Margin THEN clock + Lasts(life) ELSE clock + Lasts(life) - Margin

(* Enforce: the cached token if it will do, else a request for one.        *)
BeginEnforce(p) ==
  /\ call[p] = NoCall
  /\ \/ clock < cached.exp /\ call' = [call EXCEPT ![p] = Send("decision", cached.tok)]
     \/ clock >= cached.exp /\ call' = [call EXCEPT ![p] = Send("token", NoToken)]
  /\ UNCHANGED <<clock, cached>>

(* Casdoor serves the attempt: it issues a token, or looks at the one that *)
(* came with the question.                                                 *)
CasdoorServes(p) ==
  /\ call[p].pc = "sent"
  /\ \/ call[p].for = "decision" /\ call' = [call EXCEPT ![p].pc = "served"]
     \/ /\ call[p].for = "token"
        /\ \E life \in Lifetimes :
             call' = [call EXCEPT ![p].pc = "served",
                                  ![p].tok = [life |-> life, until |-> clock + Lasts(life)]]
  /\ UNCHANGED <<clock, cached>>

(* A token arrives: it is cached, over whatever another goroutine may have *)
(* cached meanwhile, and the question is sent with it.                     *)
TokenArrives(p) ==
  /\ call[p].pc = "served" /\ call[p].for = "token"
  /\ cached' = [tok |-> call[p].tok, exp |-> Expiry(call[p].tok.life)]
  /\ call' = [call EXCEPT ![p] = Send("decision", call[p].tok)]
  /\ UNCHANGED clock

(* The decision arrives; or Casdoor says no to the request as such, which  *)
(* is not tried again; or the caller has gone.                             *)
Finish(p) ==
  /\ \/ call[p].pc = "served" \/ call[p].pc = "pause"
  /\ call' = [call EXCEPT ![p] = NoCall]
  /\ UNCHANGED <<clock, cached>>

(* An attempt fails on its way there or back, with a 5xx, or in time.      *)
Break(p) ==
  /\ call[p].pc \in {"sent", "served"}
  /\ \/ /\ call[p].tries + 1 < MaxAttempts
        /\ call' = [call EXCEPT ![p].pc = "pause", ![p].tries = @ + 1,
                      ![p].at = clock + (call[p].tries + 1) * Backoff]
     \/ /\ call[p].tries + 1 = MaxAttempts
        /\ call' = [call EXCEPT ![p] = NoCall]
  /\ UNCHANGED <<clock, cached>>

Resume(p) ==
  /\ call[p].pc = "pause" /\ clock >= call[p].at
  /\ call' = [call EXCEPT ![p].pc = "sent"]
  /\ UNCHANGED <<clock, cached>>

Due(p) == IF call[p].pc = "pause" THEN call[p].at ELSE call[p].at + Timeout

TimePasses ==
  /\ clock < MaxClock
  /\ \A p \in Callers : call[p].pc # "idle" => clock < Due(p)
  /\ clock' = clock + 1
  /\ UNCHANGED <<cached, call>>

--------------------------------------------------------------------------------
TokenInit ==
  /\ clock = 0
  /\ cached = [tok |-> NoToken, exp |-> 0]
  /\ call = [p \in Callers |-> NoCall]

EnforceStep(p) ==
  \/ BeginEnforce(p)
  \/ CasdoorServes(p)
  \/ TokenArrives(p)
  \/ Finish(p)
  \/ Break(p)
  \/ Resume(p)

TokenNext ==
  \/ \E p \in Callers : EnforceStep(p)
  \/ TimePasses

TokenSpec == TokenInit /\ [][TokenNext]_tokenVars

--------------------------------------------------------------------------------
TokenTypeOK ==
  /\ clock \in Nat
  /\ cached \in [tok : Token, exp : Nat]
  /\ call \in [Callers -> Call]

(* How long after its attempt was sent the last one may still arrive.      *)
Rest(tries) ==
  CASE tries = 0 -> 3 * Timeout + 3 * Backoff
    [] tries = 1 -> 2 * Timeout + 2 * Backoff
    [] tries = 2 -> Timeout

(* A call takes up to three attempts, and the token was up to one attempt  *)
(* old when it came: a question may be that late.  A token that outlives   *)
(* the margin is given up that much before its end, and no other is.       *)
Latest(tok) ==
  tok.until + 4 * Timeout + 3 * Backoff - (IF Lasts(tok.life) > Margin THEN Margin ELSE 0)

(* The token a question carries is not late beyond that when it reaches    *)
(* Casdoor, on the third attempt too, and whichever of several tokens that *)
(* were fetched at once was cached (http_client.go:184-236,269-304).  The  *)
(* client's minute falls 450 ms short of four timeouts of 15 s and three   *)
(* pauses: a question may be that late, and a minute more for a token that *)
(* lives no longer than the minute.                                        *)
TokenTimely ==
  \A p \in Callers : call[p].pc = "sent" /\ call[p].for = "decision"
    => clock < Latest(call[p].tok)

(* A token that is cached can be used from the cache, however short its    *)
(* life, stated or not (http_client.go:223-230).                           *)
CachedIsOfUse == [][cached' # cached => clock < cached'.exp]_tokenVars

(* The invariant behind TokenTimely: the calls run to their timers, and    *)
(* what is left of a token is enough for the attempts that are left.       *)
Punctual ==
  \A p \in Callers :
    /\ call[p].pc # "idle" => clock <= Due(p)
    /\ call[p].pc = "sent" => call[p].at <= clock

GoodForAll ==
  \A p \in Callers : call[p].pc # "idle" /\ call[p].for = "decision"
    => call[p].at + Rest(call[p].tries) < Latest(call[p].tok)

JustIssued ==
  \A p \in Callers : call[p].pc = "served" /\ call[p].for = "token"
    => call[p].at + Lasts(call[p].tok.life) <= call[p].tok.until

CachedInTime == cached.exp > 0 => cached.exp + Rest(0) <= Latest(cached.tok)

TokenInv ==
  /\ TokenTypeOK
  /\ Punctual
  /\ GoodForAll
  /\ JustIssued
  /\ CachedInTime
================================================================================
