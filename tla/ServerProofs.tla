------------------------------ MODULE ServerProofs ------------------------------
(***************************************************************************)
(* First the limiter by itself: it keeps its promise, WindowBound, for any *)
(* number of callers and keys, any burst, and any reordering of clock      *)
(* readings.  The inductive invariant is RateLimiter!IInv; its clauses     *)
(* Conserved and ForgottenIsEarned carry the argument, one for keys that   *)
(* have a bucket and one for keys whose bucket was dropped, and            *)
(* FreshBuckets takes a key from the first to the second.                  *)
(*                                                                         *)
(* Then the routes behind requireServiceToken: they keep that promise, and *)
(* a service that calls at a polite rate is served, whatever else is       *)
(* called, from anywhere and with any credentials.  The inductive          *)
(* invariant is ServiceAuth!AuthInv: only calls with the expected          *)
(* credential touch its bucket, and a polite caller has one of them under  *)
(* way at most, by FreshReadings.                                          *)
(*                                                                         *)
(* Then the audit log: AuditLog!AuditInv survives each of its operations,  *)
(* whichever process calls them.  What a caller of the pages has not seen  *)
(* is at its offset or beyond, counted from the end of the ring: a write   *)
(* only moves it away from the end (MatchedGrows), and a page that reaches *)
(* the total leaves nothing (MatchedBelowTotal).                           *)
(*                                                                         *)
(* Last the process that runs them all: ServerLifecycle!ServerInv, for any *)
(* number of requests and any configurations.                              *)
(***************************************************************************)
EXTENDS ServiceAuth, ServerLifecycle, TLAPS, FiniteSetTheorems, SequenceTheorems

(* The cap never adds tokens and never leaves more than a burst.           *)
LEMMA CappedBounds ==
  ASSUME NEW x \in Int
  PROVE  /\ Capped(x) \in Int
         /\ Capped(x) <= x
         /\ Capped(x) <= Burst
         /\ Capped(x) = x \/ Capped(x) = Burst
BY BurstAssumption DEF Capped

(* Dropping idle buckets keeps the others as they are, and drops only what *)
(* was last used before the cutoff.                                        *)
LEMMA TidiedKeeps ==
  ASSUME NEW bs, NEW t
  PROVE  /\ DOMAIN Tidied(bs, t) \subseteq DOMAIN bs
         /\ \A k \in DOMAIN Tidied(bs, t) : Tidied(bs, t)[k] = bs[k]
         /\ \A k \in DOMAIN bs \ DOMAIN Tidied(bs, t) : bs[k].last < t - Idle
BY DEF Tidied

(* The limiter starts without buckets and without debts.                   *)
LEMMA LimiterInitInv == Init => IInv
<1> SUFFICES ASSUME Init PROVE IInv
  OBVIOUS
<1>1. buckets = << >> /\ DOMAIN buckets = {}
  BY DEF Init
<1>2. TypeOK
  BY <1>1, StallAssumption DEF Init, TypeOK, Waiting, Free
<1>3. FreshReadings
  BY DEF Init, FreshReadings
<1>4. FreshBuckets /\ Conserved
  BY <1>1 DEF FreshBuckets, Conserved
<1>5. ForgottenIsEarned
  BY DEF Init, ForgottenIsEarned
<1> QED
  BY <1>2, <1>3, <1>4, <1>5 DEF IInv

(* A call that admits or refuses, in the terms all three of them share: it *)
(* writes the bucket of its key and may drop other buckets, or its own,    *)
(* when they are idle.                                                     *)
LEMMA LimiterCallKeepsInv ==
  ASSUME IInv,
         NEW p \in Procs, pending[p] # Free,
         NEW k \in Keys, k = pending[p].key,
         NEW t \in Nat, t = pending[p].at,
         NEW left \in Int,                        \* tokens after the call
         NEW cost \in Nat,                        \* credits it admitted
         cost = 0 \/ left >= 0,
         left + cost <= Burst,
         k \in DOMAIN buckets =>
           /\ left + cost <= buckets[k].tokens + (t - buckets[k].last)
           /\ cost > 0 \/ t - left <= buckets[k].last - buckets[k].tokens
                       \/ left >= 0,
         k \notin DOMAIN buckets => left >= 0,
         \/ buckets' = Put(k, left, t)
         \/ buckets' = Tidied(Put(k, left, t), t),
         pending' = [pending EXCEPT ![p] = Free],
         spent' = [spent EXCEPT ![k] = @ + cost],
         UNCHANGED <<now, window>>
  PROVE  IInv'
<1> DEFINE written == Put(k, left, t)
<1>1. /\ DOMAIN written = DOMAIN buckets \cup {k}
      /\ written[k] = [tokens |-> left, last |-> t, used |-> now]
      /\ \A x \in DOMAIN buckets \ {k} : written[x] = buckets[x]
  BY DEF Put
<1>2. /\ DOMAIN buckets' \subseteq DOMAIN written
      /\ \A x \in DOMAIN buckets' : buckets'[x] = written[x]
      /\ \A x \in DOMAIN written \ DOMAIN buckets' : written[x].last < t - Idle
  BY TidiedKeeps
<1> HIDE DEF written
<1>3. t <= now /\ now <= t + Stall
  BY DEF IInv, FreshReadings
<1>4. now' = now /\ window' = window /\ spent'[k] = spent[k] + cost
      /\ \A x \in Keys \ {k} : spent'[x] = spent[x]
  BY DEF IInv, TypeOK
<1>5. TypeOK'
  <2>1. DOMAIN buckets' \subseteq Keys
    BY <1>1, <1>2 DEF IInv, TypeOK
  <2>2. \A x \in DOMAIN written : written[x] \in Bucket
    BY <1>1 DEF IInv, TypeOK, Bucket
  <2>3. buckets' \in [DOMAIN buckets' -> Bucket]
    <3>1. buckets' = [x \in DOMAIN buckets' |-> buckets'[x]]
      BY DEF Put, Tidied
    <3> QED
      BY <3>1, <1>2, <2>2
  <2>4. pending' \in [Procs -> Waiting]
    BY DEF IInv, TypeOK, Waiting, Free
  <2>5. spent' \in [Keys -> Nat]
    BY DEF IInv, TypeOK
  <2> QED
    BY <1>4, <2>1, <2>3, <2>4, <2>5 DEF IInv, TypeOK
<1>6. FreshReadings'
  BY <1>4 DEF IInv, TypeOK, FreshReadings, Waiting, Free
<1>7. FreshBuckets'
  <2> SUFFICES ASSUME NEW x \in DOMAIN buckets'
               PROVE  /\ buckets'[x].used <= now
                      /\ buckets'[x].last <= buckets'[x].used
                      /\ buckets'[x].used <= buckets'[x].last + Stall
                      /\ buckets'[x].last - buckets'[x].tokens <= buckets'[x].used
    BY <1>4 DEF FreshBuckets
  <2>1. CASE x # k
    BY <2>1, <1>1, <1>2 DEF IInv, FreshBuckets
  <2>2. CASE x = k
    <3>1. buckets'[x] = [tokens |-> left, last |-> t, used |-> now]
      BY <2>2, <1>1, <1>2
    <3>2. t - left <= now
      <4>1. CASE left >= 0
        BY <4>1, <1>3 DEF IInv, TypeOK
      <4>2. CASE left < 0
        <5>1. k \in DOMAIN buckets /\ cost = 0
          BY <4>2
        <5>2. buckets[k] \in Bucket
          BY <5>1 DEF IInv, TypeOK
        <5>3. t - left <= buckets[k].last - buckets[k].tokens
          BY <4>2, <5>1
        <5> QED
          BY <5>1, <5>2, <5>3 DEF IInv, TypeOK, FreshBuckets, Bucket
      <4> QED
        BY <4>1, <4>2
    <3> QED
      BY <3>1, <3>2, <1>3 DEF IInv, TypeOK
  <2> QED
    BY <2>1, <2>2
<1>8. spent[k] + cost = 0
      \/ spent[k] + cost + left <= Burst + t - (window - Stall)
  <2>0. spent[k] \in Nat /\ window \in Nat /\ window <= now /\ now \in Nat
    BY DEF IInv, TypeOK
  <2>1. CASE k \in DOMAIN buckets /\ spent[k] # 0
    <3>1. buckets[k] \in Bucket
      BY <2>1 DEF IInv, TypeOK
    <3>2. spent[k] + buckets[k].tokens <= Burst + buckets[k].last - (window - Stall)
      BY <2>1 DEF IInv, Conserved
    <3> QED
      BY <2>0, <2>1, <3>1, <3>2, StallAssumption, BurstAssumption DEF Bucket
  <2>2. CASE k \notin DOMAIN buckets \/ spent[k] = 0
    <3>1. spent[k] <= now - window
      BY <2>0, <2>2 DEF IInv, ForgottenIsEarned
    <3> QED
      BY <2>0, <3>1, <1>3, StallAssumption, BurstAssumption
  <2> QED
    BY <2>1, <2>2
<1>9. Conserved'
  <2> SUFFICES ASSUME NEW x \in DOMAIN buckets'
               PROVE  spent'[x] = 0
                      \/ spent'[x] + buckets'[x].tokens
                           <= Burst + buckets'[x].last - (window - Stall)
    BY <1>4 DEF Conserved
  <2>1. CASE x # k
    <3>1. x \in Keys /\ x \in DOMAIN buckets
      BY <2>1, <1>1, <1>2 DEF IInv, TypeOK
    <3> QED
      BY <2>1, <3>1, <1>1, <1>2, <1>4 DEF IInv, Conserved
  <2>2. CASE x = k
    BY <2>2, <1>1, <1>2, <1>4, <1>8
  <2> QED
    BY <2>1, <2>2
<1>10. ForgottenIsEarned'
  <2> SUFFICES ASSUME NEW x \in Keys \ DOMAIN buckets'
               PROVE  spent'[x] = 0 \/ spent'[x] <= now - window
    BY <1>4 DEF ForgottenIsEarned
  <2>0. spent[x] \in Nat /\ window \in Nat /\ window <= now /\ now \in Nat
    BY DEF IInv, TypeOK
  <2>1. CASE x \notin DOMAIN written
    BY <2>1, <1>1, <1>4 DEF IInv, ForgottenIsEarned
  <2>2. CASE x = k
    (* its own call drops it only if it was written idle, which no stall allows *)
    <3>1. t < t - Idle
      BY <2>2, <1>1, <1>2
    <3> QED
      BY <3>1, IdleAssumption
  <2>3. CASE x \in DOMAIN buckets /\ x # k
    <3>1. buckets[x] \in Bucket /\ buckets[x].last < t - Idle
      BY <2>3, <1>1, <1>2 DEF IInv, TypeOK
    <3>2. /\ buckets[x].used <= buckets[x].last + Stall
          /\ buckets[x].last - buckets[x].tokens <= buckets[x].used
      BY <2>3 DEF IInv, FreshBuckets
    <3>3. spent[x] = 0
          \/ spent[x] + buckets[x].tokens <= Burst + buckets[x].last - (window - Stall)
      BY <2>3 DEF IInv, Conserved
    <3>4. spent'[x] = spent[x]
      BY <2>3, <1>4
    <3> QED
      BY <2>0, <3>1, <3>2, <3>3, <3>4, <1>3, ForgetAssumption, StallAssumption,
         BurstAssumption, IdleAssumption DEF Bucket
  <2> QED
    BY <2>1, <2>2, <2>3, <1>1
<1> QED
  BY <1>5, <1>6, <1>7, <1>9, <1>10 DEF IInv

(* Every step keeps the invariant, one case per action.                    *)
LEMMA NextKeepsInv == IInv /\ [Next]_vars => IInv'
<1> SUFFICES ASSUME IInv, [Next]_vars PROVE IInv'
  OBVIOUS
<1>0. /\ now \in Nat /\ window \in Nat /\ window <= now
      /\ \A k \in Keys : spent[k] \in Nat
      /\ \A k \in DOMAIN buckets : k \in Keys /\ buckets[k] \in Bucket
      /\ \A p \in Procs : pending[p] \in Waiting
  BY DEF IInv, TypeOK
<1>1. ASSUME NEW p \in Procs, ReadClock(p) PROVE IInv'
  <2>1. TypeOK'
    BY <1>1 DEF IInv, TypeOK, ReadClock, Waiting, Bucket
  <2>2. FreshReadings'
    BY <1>0, <1>1, StallAssumption DEF IInv, TypeOK, FreshReadings, ReadClock, Waiting, Free
  <2>3. (FreshBuckets /\ Conserved /\ ForgottenIsEarned)'
    BY <1>1 DEF IInv, ReadClock, FreshBuckets, Conserved, ForgottenIsEarned
  <2> QED
    BY <2>1, <2>2, <2>3 DEF IInv
<1>2. ASSUME NEW p \in Procs, AllowNew(p) PROVE IInv'
  <2> DEFINE k == pending[p].key
             t == pending[p].at
  <2>1. k \in Keys /\ t \in Nat /\ pending[p] # Free
    BY <1>0, <1>2, NoKeyAssumption DEF AllowNew, Waiting, Free
  <2>2. /\ Burst - Cost \in Int /\ Cost \in Nat
        /\ Burst - Cost >= 0 /\ Burst - Cost + Cost <= Burst
    BY BurstAssumption, CostAssumption
  <2>3. /\ k \notin DOMAIN buckets
        /\ buckets' = Put(k, Burst - Cost, t)
        /\ pending' = [pending EXCEPT ![p] = Free]
        /\ spent' = [spent EXCEPT ![k] = @ + Cost]
        /\ UNCHANGED <<now, window>>
    BY <1>2 DEF AllowNew, Admit, Return
  <2> HIDE DEF k, t
  <2> QED
    BY <2>1, <2>2, <2>3, LimiterCallKeepsInv DEF k, t
<1>3. ASSUME NEW p \in Procs, AllowKnown(p) PROVE IInv'
  <2> DEFINE k == pending[p].key
             t == pending[p].at
             left == Refilled(k, t) - Cost
  <2>1. k \in Keys /\ t \in Nat /\ pending[p] # Free /\ k \in DOMAIN buckets
    BY <1>0, <1>3, NoKeyAssumption DEF AllowKnown, Waiting, Free
  <2>2. buckets[k].tokens + (t - buckets[k].last) \in Int
    BY <1>0, <2>1 DEF Bucket
  <2>3. /\ left \in Int /\ Cost \in Nat /\ left >= 0 /\ left + Cost <= Burst
        /\ left + Cost <= buckets[k].tokens + (t - buckets[k].last)
    BY <2>2, <1>3, CappedBounds, CostAssumption, BurstAssumption DEF Refilled, AllowKnown
  <2>4. /\ buckets' = Tidied(Put(k, left, t), t)
        /\ pending' = [pending EXCEPT ![p] = Free]
        /\ spent' = [spent EXCEPT ![k] = @ + Cost]
        /\ UNCHANGED <<now, window>>
    BY <1>3 DEF AllowKnown, Admit, Return
  <2> HIDE DEF k, t, left
  <2> QED
    BY <2>1, <2>3, <2>4, LimiterCallKeepsInv DEF k, t
<1>4. ASSUME NEW p \in Procs, Deny(p) PROVE IInv'
  <2> DEFINE k == pending[p].key
             t == pending[p].at
             left == Refilled(k, t)
  <2>1. k \in Keys /\ t \in Nat /\ pending[p] # Free /\ k \in DOMAIN buckets
    BY <1>0, <1>4, NoKeyAssumption DEF Deny, Waiting, Free
  <2>2. /\ buckets[k].tokens + (t - buckets[k].last) \in Int
        /\ buckets[k].tokens \in Int /\ buckets[k].last \in Nat
    BY <1>0, <2>1 DEF Bucket
  <2>3. /\ left \in Int /\ left + 0 <= Burst
        /\ left + 0 <= buckets[k].tokens + (t - buckets[k].last)
        /\ t - left <= buckets[k].last - buckets[k].tokens \/ left >= 0
    BY <2>1, <2>2, CappedBounds, BurstAssumption DEF Refilled
  <2>4. /\ buckets' = Put(k, left, t)
        /\ pending' = [pending EXCEPT ![p] = Free]
        /\ UNCHANGED <<now, window, spent>>
    BY <1>4 DEF Deny, Return
  <2>5. spent' = [spent EXCEPT ![k] = @ + 0]
    BY <1>0, <2>1, <2>4 DEF IInv, TypeOK
  <2> HIDE DEF k, t, left
  <2>6. 0 \in Nat
    OBVIOUS
  <2> QED
    BY <2>1, <2>3, <2>4, <2>5, <2>6, LimiterCallKeepsInv DEF k, t
<1>5. ASSUME Tick PROVE IInv'
  <2>1. TypeOK'
    BY <1>0, <1>5 DEF IInv, TypeOK, Tick
  <2>2. FreshReadings'
    BY <1>0, <1>5, StallAssumption DEF IInv, FreshReadings, Tick, Waiting
  <2>3. FreshBuckets'
    BY <1>0, <1>5 DEF IInv, FreshBuckets, Tick, Bucket
  <2>4. Conserved'
    BY <1>5 DEF IInv, Conserved, Tick
  <2>5. ForgottenIsEarned'
    BY <1>0, <1>5 DEF IInv, ForgottenIsEarned, Tick
  <2> QED
    BY <2>1, <2>2, <2>3, <2>4, <2>5 DEF IInv
<1>6. ASSUME OpenWindow PROVE IInv'
  <2>1. TypeOK'
    BY <1>0, <1>6 DEF IInv, TypeOK, OpenWindow
  <2>2. \A k \in Keys : spent'[k] = 0
    BY <1>6 DEF OpenWindow
  <2>3. (FreshReadings /\ FreshBuckets)'
    BY <1>6 DEF IInv, FreshReadings, FreshBuckets, OpenWindow
  <2>4. (Conserved /\ ForgottenIsEarned)'
    BY <1>0, <1>6, <2>2 DEF Conserved, ForgottenIsEarned, OpenWindow
  <2> QED
    BY <2>1, <2>3, <2>4 DEF IInv
<1>7. CASE UNCHANGED vars
  BY <1>7 DEF IInv, TypeOK, FreshReadings, FreshBuckets, Conserved, ForgottenIsEarned, vars
<1> QED
  BY <1>1, <1>2, <1>3, <1>4, <1>5, <1>6, <1>7 DEF Next

(* A key that has a bucket has spent no more than the bucket's account     *)
(* allows, and one that has none no more than the window has earned.       *)
LEMMA InvBounds == IInv => WindowBound
<1> SUFFICES ASSUME IInv, NEW k \in Keys
             PROVE  spent[k] <= Burst + (now - window) + Stall
  BY DEF WindowBound
<1>0. spent[k] \in Nat /\ window \in Nat /\ window <= now /\ now \in Nat
  BY DEF IInv, TypeOK
<1>1. CASE k \in DOMAIN buckets
  <2>1. buckets[k] \in Bucket
    BY <1>1 DEF IInv, TypeOK
  <2>2. /\ buckets[k].used <= now
        /\ buckets[k].last - buckets[k].tokens <= buckets[k].used
        /\ \/ spent[k] = 0
           \/ spent[k] + buckets[k].tokens <= Burst + buckets[k].last - (window - Stall)
    BY <1>1 DEF IInv, FreshBuckets, Conserved
  <2> QED
    BY <1>0, <2>1, <2>2, StallAssumption, BurstAssumption DEF Bucket
<1>2. CASE k \notin DOMAIN buckets
  <2>1. spent[k] = 0 \/ spent[k] <= now - window
    BY <1>2 DEF IInv, ForgottenIsEarned
  <2> QED
    BY <1>0, <2>1, StallAssumption, BurstAssumption
<1> QED
  BY <1>1, <1>2

(* The invariant that says what a bucket, and its absence, is worth.       *)
THEOREM InvHolds == Spec => []IInv
BY LimiterInitInv, NextKeepsInv, PTL DEF Spec

(* The types of tokenBucketLimiter's state, for every instance.            *)
THEOREM TypeCorrect == Spec => []TypeOK
<1>1. IInv => TypeOK
  BY DEF IInv
<1> QED
  BY <1>1, InvHolds, PTL

(* In any window of time a key is admitted for no more than a burst and    *)
(* what the window, and the stall before it, have earned.                  *)
THEOREM LimiterIsSafe == Spec => []WindowBound
BY InvHolds, InvBounds, PTL

--------------------------------------------------------------------------------
(* The routes.                                                             *)
LEMMA RateKeyFacts ==
  ASSUME Required, NEW ip, NEW c
  PROVE  /\ c = Expected => rateKey(ip, c) = PoliteKey
         /\ c # Expected => rateKey(ip, c) # PoliteKey
BY CredentialsAssumption DEF rateKey, PoliteKey

LEMMA ApartFacts == Apart \in Nat /\ Apart >= Cost /\ Apart > Stall
BY CostAssumption, StallAssumption DEF Apart

(* Nobody presents no credential and comes from nowhere.                   *)
LEMMA NobodyFacts == ~(Nobody.credential = Expected) /\ Nobody \notin Caller
BY CredentialsAssumption, AddressesAssumption DEF Nobody, Caller

(* Every step of the routes is one of the limiter, or none of it.          *)
LEMMA LimiterSteps == [AuthNext]_authVars => [Next]_vars
BY DEF AuthNext, authVars, Next, Arrive, RateLimited, Unauthorized, Pass, Admitted

LEMMA InitAuth == AuthInit => AuthInv
<1> SUFFICES ASSUME AuthInit PROVE AuthInv
  OBVIOUS
<1>1. IInv
  BY LimiterInitInv DEF AuthInit
<1>2. \A p \in Procs : caller[p] = Nobody /\ pending[p] = Free
  BY DEF AuthInit, Init
<1>3. CallersHaveKeys
  BY <1>2 DEF AuthInit, CallersHaveKeys
<1>4. \A p \in Procs : ~Expecting(p)
  BY <1>2, NobodyFacts DEF Expecting
<1>5. DOMAIN buckets = {}
  BY DEF AuthInit, Init
<1> QED
  BY <1>1, <1>3, <1>4, <1>5 DEF AuthInv, PoliteIsReady

(* A goroutine that waits has a caller, and its reading is a time.         *)
LEMMA WaitingFacts ==
  ASSUME AuthInv, NEW p \in Procs
  PROVE  /\ pending[p] \in Waiting /\ pending[p].at \in Nat
         /\ Expecting(p) => caller[p] # Nobody
         /\ caller[p] # Nobody =>
              pending[p].key = rateKey(caller[p].ip, caller[p].credential)
         /\ pending[p] # Free => caller[p] # Nobody
         /\ caller[p] # Nobody => pending[p] # Free
<1>1. pending[p] \in Waiting /\ caller[p] \in Caller \cup {Nobody}
  BY DEF AuthInv, IInv, TypeOK, CallersHaveKeys
<1>2. caller[p] # Nobody => pending[p].key \in Keys
  <2> SUFFICES ASSUME caller[p] # Nobody PROVE pending[p].key \in Keys
    OBVIOUS
  <2>1. caller[p].ip \in Addresses /\ caller[p].credential \in Credentials \cup {NoCredential}
    BY <1>1 DEF Caller
  <2> QED
    BY <2>1, KeysAssumption DEF AuthInv, CallersHaveKeys
<1> QED
  BY <1>1, <1>2, NobodyFacts, NoKeyAssumption
     DEF AuthInv, CallersHaveKeys, Waiting, Free, Expecting

(* A polite caller's call finds what it costs.                             *)
LEMMA PoliteHasEnough == AuthInv => PoliteIsServed
<1> SUFFICES ASSUME AuthInv, Required, polite, NEW p \in Procs,
                    caller[p].credential = Expected,
                    pending[p].key \in DOMAIN buckets
             PROVE  Refilled(pending[p].key, pending[p].at) >= Cost
  BY DEF PoliteIsServed
<1> DEFINE k == pending[p].key
<1>1. Expecting(p)
  BY DEF Expecting
<1>2. k = PoliteKey /\ pending[p].at \in Nat
  BY <1>1, WaitingFacts, RateKeyFacts
<1>3. buckets[k] \in Bucket
  BY DEF AuthInv, IInv, TypeOK
<1>4. /\ buckets[k].tokens >= 0 /\ buckets[k].last + Cost <= lastCall
      /\ pending[p].at = lastCall
  BY <1>1, <1>2 DEF AuthInv, PoliteIsReady
<1>5. buckets[k].tokens + (pending[p].at - buckets[k].last) >= Cost
      /\ buckets[k].tokens + (pending[p].at - buckets[k].last) \in Int
  BY <1>2, <1>3, <1>4, CostAssumption DEF Bucket
<1> QED
  BY <1>5, BurstAssumption, CostAssumption DEF Refilled, Capped

--------------------------------------------------------------------------------
LEMMA ArriveKeeps == ASSUME AuthInv, NEW p \in Procs, Arrive(p), IInv' PROVE AuthInv'
<1>1. PICK c \in Caller :
        /\ ReadClock(p)
        /\ pending'[p].key = rateKey(c.ip, c.credential)
        /\ caller' = [caller EXCEPT ![p] = c]
        /\ IF c.credential = Expected
           THEN LET keeps == lastCall = -1 \/ now >= lastCall + Apart
                IN /\ polite' = (polite /\ keeps)
                   /\ lastCall' = IF polite' THEN now ELSE -1
           ELSE UNCHANGED <<polite, lastCall>>
  BY DEF Arrive
<1>2. /\ caller[p] = Nobody /\ caller'[p] = c
      /\ \A q \in Procs \ {p} : caller'[q] = caller[q]
  BY <1>1 DEF Arrive, AuthInv, CallersHaveKeys
<1>3. /\ pending'[p].at = now /\ buckets' = buckets
      /\ \A q \in Procs \ {p} : pending'[q] = pending[q]
  BY <1>1 DEF ReadClock, AuthInv, IInv, TypeOK
<1>4. c # Nobody
  BY NobodyFacts
<1>5. now \in Nat
  BY DEF AuthInv, IInv, TypeOK
<1>6. polite' \in BOOLEAN /\ lastCall' \in Nat \cup {-1}
  BY <1>1, <1>5 DEF AuthInv, CallersHaveKeys
<1>7. CallersHaveKeys'
  <2>1. caller' \in [Procs -> Caller \cup {Nobody}]
    BY <1>1 DEF AuthInv, CallersHaveKeys
  <2>2. \A q \in Procs : IF caller'[q] = Nobody THEN pending'[q] = Free
                         ELSE pending'[q].key = rateKey(caller'[q].ip, caller'[q].credential)
    BY <1>1, <1>2, <1>3, <1>4 DEF AuthInv, CallersHaveKeys
  <2> QED
    BY <1>6, <2>1, <2>2 DEF CallersHaveKeys, rateKey
<1>8. CASE c.credential # Expected
  <2>1. polite' = polite /\ lastCall' = lastCall
    BY <1>1, <1>8
  <2>2. \A q \in Procs : Expecting(q)' => q # p /\ Expecting(q)
    BY <1>2, <1>8 DEF Expecting
  <2>3. PoliteIsReady'
    BY <1>3, <2>1, <2>2 DEF AuthInv, PoliteIsReady, PoliteKey
  <2> QED
    BY <1>7, <2>3 DEF AuthInv
<1>9. CASE c.credential = Expected
  <2> SUFFICES ASSUME Required, polite' PROVE PoliteIsReady'
    BY <1>7 DEF AuthInv, PoliteIsReady
  <2>1. polite /\ (lastCall = -1 \/ now >= lastCall + Apart) /\ lastCall' = now
    BY <1>1, <1>9 DEF AuthInv, CallersHaveKeys
  <2>2. ASSUME NEW q \in Procs PROVE ~Expecting(q)
    <3> SUFFICES ASSUME Expecting(q) PROVE FALSE
      OBVIOUS
    <3>1. pending[q].at = lastCall /\ pending[q].at \in Nat /\ pending[q] # Free
      BY <2>1, WaitingFacts DEF AuthInv, PoliteIsReady
    <3>2. now <= pending[q].at + Stall
      BY <3>1 DEF AuthInv, IInv, FreshReadings
    <3> QED
      BY <1>5, <2>1, <3>1, <3>2, ApartFacts, StallAssumption
  <2>3. \A q \in Procs : Expecting(q)' => q = p
    BY <1>2, <2>2 DEF Expecting
  <2>4. PoliteKey \in DOMAIN buckets =>
          /\ buckets[PoliteKey].tokens >= 0
          /\ buckets[PoliteKey].last + Cost <= now
          /\ buckets[PoliteKey].last <= now
    <3> SUFFICES ASSUME PoliteKey \in DOMAIN buckets
                 PROVE  /\ buckets[PoliteKey].tokens >= 0
                        /\ buckets[PoliteKey].last + Cost <= now
                        /\ buckets[PoliteKey].last <= now
      OBVIOUS
    <3>1. buckets[PoliteKey].last \in Nat
      BY DEF AuthInv, IInv, TypeOK, Bucket
    <3>2. buckets[PoliteKey].tokens >= 0 /\ buckets[PoliteKey].last <= lastCall
      BY <2>1 DEF AuthInv, PoliteIsReady
    <3>3. lastCall \in Nat \cup {-1}
      BY DEF AuthInv, CallersHaveKeys
    <3> QED
      BY <1>5, <2>1, <3>1, <3>2, <3>3, ApartFacts, CostAssumption
  <2> QED
    BY <1>3, <2>1, <2>3, <2>4 DEF PoliteIsReady, PoliteKey
<1> QED
  BY <1>8, <1>9

(* What Allow leaves in the bucket of the expected credential, for a call  *)
(* of whoever it is.                                                       *)
LEMMA CallKeepsPolite ==
  ASSUME AuthInv, NEW p \in Procs, pending[p] # Free,
         NEW left \in Int,
         NEW k, k = pending[p].key, NEW t, t = pending[p].at,
         Expecting(p) /\ polite /\ Required => left >= 0,
         buckets' = Put(k, left, t) \/ buckets' = Tidied(Put(k, left, t), t),
         Return(p), Leave(p), IInv'
  PROVE  AuthInv'
<1>1. /\ DOMAIN buckets' \subseteq DOMAIN buckets \cup {k}
      /\ \A x \in DOMAIN buckets' \ {k} : buckets'[x] = buckets[x]
      /\ k \in DOMAIN buckets' => buckets'[k].tokens = left /\ buckets'[k].last = t
  <2> DEFINE written == Put(k, left, t)
  <2>1. /\ DOMAIN written = DOMAIN buckets \cup {k}
        /\ \A x \in DOMAIN buckets \ {k} : written[x] = buckets[x]
        /\ written[k].tokens = left /\ written[k].last = t
    BY DEF Put
  <2> HIDE DEF written
  <2>2. /\ DOMAIN buckets' \subseteq DOMAIN written
        /\ \A x \in DOMAIN buckets' : buckets'[x] = written[x]
    BY TidiedKeeps DEF written
  <2> QED
    BY <2>1, <2>2
<1>2. /\ caller'[p] = Nobody /\ \A q \in Procs \ {p} : caller'[q] = caller[q]
  BY DEF Leave, AuthInv, CallersHaveKeys
<1>3. /\ pending'[p] = Free /\ \A q \in Procs \ {p} : pending'[q] = pending[q]
  BY DEF Return, AuthInv, IInv, TypeOK
<1>4. polite' = polite /\ lastCall' = lastCall
  BY DEF Leave
<1>5. CallersHaveKeys'
  <2>1. caller' \in [Procs -> Caller \cup {Nobody}]
    BY DEF Leave, AuthInv, CallersHaveKeys
  <2>2. \A q \in Procs : IF caller'[q] = Nobody THEN pending'[q] = Free
                         ELSE pending'[q].key = rateKey(caller'[q].ip, caller'[q].credential)
    BY <1>2, <1>3 DEF AuthInv, CallersHaveKeys
  <2> QED
    BY <1>4, <2>1, <2>2 DEF AuthInv, CallersHaveKeys, rateKey
<1>6. \A q \in Procs : Expecting(q)' => q # p /\ Expecting(q)
  BY <1>2, NobodyFacts DEF Expecting
<1>7. PoliteIsReady'
  <2> SUFFICES ASSUME Required, polite PROVE PoliteIsReady'
    BY <1>4 DEF PoliteIsReady
  <2>1. CASE Expecting(p)
    <3>1. k = PoliteKey /\ t = lastCall /\ left >= 0
      BY <2>1, WaitingFacts, RateKeyFacts DEF Expecting, AuthInv, PoliteIsReady
    <3>2. \A q \in Procs : ~Expecting(q)'
      BY <1>6, <2>1 DEF AuthInv, PoliteIsReady
    <3>3. t \in Nat
      BY WaitingFacts
    <3> QED
      BY <1>1, <1>4, <3>1, <3>2, <3>3 DEF PoliteIsReady, PoliteKey
  <2>2. CASE ~Expecting(p)
    <3>1. k # PoliteKey
      BY <2>2, WaitingFacts, RateKeyFacts DEF Expecting
    <3> QED
      BY <1>1, <1>3, <1>4, <1>6, <3>1 DEF AuthInv, PoliteIsReady, PoliteKey
  <2> QED
    BY <2>1, <2>2
<1> QED
  BY <1>5, <1>7 DEF AuthInv

LEMMA AnswerKeeps ==
  ASSUME AuthInv, NEW p \in Procs, AllowNew(p) \/ AllowKnown(p) \/ Deny(p), Leave(p), IInv'
  PROVE  AuthInv'
<1> DEFINE k == pending[p].key
           t == pending[p].at
<1>1. pending[p] # Free
  BY NoKeyAssumption DEF AllowNew, AllowKnown, Deny, Free, AuthInv, IInv, TypeOK
<1>2. k \in DOMAIN buckets => Refilled(k, t) \in Int
  <2> SUFFICES ASSUME k \in DOMAIN buckets PROVE Refilled(k, t) \in Int
    OBVIOUS
  <2>1. buckets[k].tokens \in Int /\ buckets[k].last \in Nat /\ t \in Nat
    BY WaitingFacts DEF AuthInv, IInv, TypeOK, Bucket
  <2> QED
    BY <2>1, BurstAssumption DEF Refilled, Capped
<1>3. CASE AllowNew(p)
  <2>1. Burst - Cost \in Int /\ Burst - Cost >= 0
    BY BurstAssumption, CostAssumption
  <2>2. buckets' = Put(k, Burst - Cost, t) /\ Return(p)
    BY <1>3 DEF AllowNew
  <2> QED
    BY <1>1, <2>1, <2>2, CallKeepsPolite
<1>4. CASE AllowKnown(p)
  <2>1. Refilled(k, t) - Cost \in Int /\ Refilled(k, t) - Cost >= 0
    BY <1>2, <1>4, CostAssumption DEF AllowKnown
  <2>2. buckets' = Tidied(Put(k, Refilled(k, t) - Cost, t), t) /\ Return(p)
    BY <1>4 DEF AllowKnown
  <2> QED
    BY <1>1, <2>1, <2>2, CallKeepsPolite
<1>5. CASE Deny(p)
  <2>1. Refilled(k, t) \in Int /\ Refilled(k, t) < Cost /\ k \in DOMAIN buckets
    BY <1>2, <1>5 DEF Deny
  <2>2. ~(Expecting(p) /\ polite /\ Required)
    BY <2>1, PoliteHasEnough, CostAssumption DEF PoliteIsServed, Expecting
  <2>3. buckets' = Put(k, Refilled(k, t), t) /\ Return(p)
    BY <1>5 DEF Deny
  <2> QED
    BY <1>1, <2>1, <2>2, <2>3, CallKeepsPolite
<1> QED
  BY <1>3, <1>4, <1>5

LEMMA NextAuth == AuthInv /\ [AuthNext]_authVars => AuthInv'
<1> SUFFICES ASSUME AuthInv, [AuthNext]_authVars PROVE AuthInv'
  OBVIOUS
<1>1. IInv'
  BY LimiterSteps, NextKeepsInv DEF AuthInv
<1>2. ASSUME NEW p \in Procs, RateLimited(p) \/ Unauthorized(p) \/ Pass(p) PROVE AuthInv'
  BY <1>1, <1>2, AnswerKeeps DEF RateLimited, Unauthorized, Pass, Admitted
<1>3. ASSUME UNCHANGED <<buckets, pending, caller, polite, lastCall>> PROVE AuthInv'
  BY <1>1, <1>3 DEF AuthInv, CallersHaveKeys, PoliteIsReady, Expecting, PoliteKey, rateKey
<1>4. CASE (Tick \/ OpenWindow) /\ UNCHANGED <<caller, polite, lastCall>>
  BY <1>3, <1>4 DEF Tick, OpenWindow
<1>5. CASE UNCHANGED authVars
  BY <1>3, <1>5 DEF authVars, vars
<1> QED
  BY <1>1, <1>2, <1>4, <1>5, ArriveKeeps DEF AuthNext

--------------------------------------------------------------------------------
(* The invariant of the routes holds of every behaviour of theirs.         *)
THEOREM AuthInvHolds == AuthSpec => []AuthInv
<1> QED
  BY InitAuth, NextAuth, PTL DEF AuthSpec

(* The routes implement the limiter: whatever holds of it by itself holds  *)
(* behind the middleware.                                                  *)
THEOREM RoutesImplementLimiter == AuthSpec => Spec
<1>1. AuthInit => Init
  BY DEF AuthInit
<1> QED
  BY <1>1, LimiterSteps, PTL DEF AuthSpec, Spec

(* The limiter's promise holds for the routes.                             *)
THEOREM RoutesAreLimited == AuthSpec => []WindowBound
<1>1. AuthInv => WindowBound
  BY InvBounds DEF AuthInv
<1> QED
  BY <1>1, AuthInvHolds, PTL

(* A polite service is served.                                             *)
THEOREM PoliteServed == AuthSpec => []PoliteIsServed
<1> QED
  BY PoliteHasEnough, AuthInvHolds, PTL

--------------------------------------------------------------------------------
LEMMA AsksAreInts == \A ask \in Asks \cup {0} : ask \in Int
<1>1. \A ask \in Asks : ask \in Int
  BY Zenon, AsksAssumption
<1> QED
  BY <1>1

LEMMA LimitType == \A ask \in Int : LimitOf(ask) \in Nat \ {0}
BY LimitsAssumption DEF LimitOf

(* What has matched before an event is a number, of events of the ring.    *)
LEMMA MatchingFinite ==
  ASSUME events \in Seq(Event), NEW filter
  PROVE  /\ IsFiniteSet(Matching(filter))
         /\ Cardinality(Matching(filter)) \in Nat
         /\ \A i : /\ IsFiniteSet({j \in Matching(filter) : j > i})
                   /\ Matched(i, filter) \in Nat
<1>1. Len(events) \in Nat
  BY LenProperties
<1>2. IsFiniteSet(1 .. Len(events))
  BY <1>1, FS_Interval
<1>3. IsFiniteSet(Matching(filter))
  BY <1>2, FS_Subset DEF Matching
<1>4. \A i : {j \in Matching(filter) : j > i} \in SUBSET Matching(filter)
  OBVIOUS
<1>5. \A i : IsFiniteSet({j \in Matching(filter) : j > i})
  BY <1>3, <1>4, FS_Subset
<1> QED
  BY <1>3, <1>5, FS_CardinalityType DEF Matched

(* Fewer have matched before an event that matches than match altogether.  *)
LEMMA MatchedBelowTotal ==
  ASSUME events \in Seq(Event), NEW filter, NEW i \in Matching(filter)
  PROVE  Matched(i, filter) < Cardinality(Matching(filter))
<1> DEFINE later == {j \in Matching(filter) : j > i}
<1>1. i \in Nat
  BY LenProperties DEF Matching
<1>2. i \notin later
  BY <1>1
<1>3. later \in SUBSET Matching(filter) /\ later # Matching(filter)
  BY <1>2
<1>4. Cardinality(later) <= Cardinality(Matching(filter))
      /\ Cardinality(later) # Cardinality(Matching(filter))
  BY <1>3, MatchingFinite, FS_Subset
<1>5. Cardinality(later) \in Nat /\ Cardinality(Matching(filter)) \in Nat
  BY MatchingFinite, FS_CardinalityType
<1> QED
  BY <1>4, <1>5 DEF Matched

LEMMA AuditInitInv == AuditInit => AuditInv
<1> SUFFICES ASSUME AuditInit PROVE AuditInv
  OBVIOUS
<1>1. events \in Seq(Event) /\ Len(events) = 0
  BY EmptySeq DEF AuditInit
<1>2. AuditTypeOK
  BY <1>1 DEF AuditInit, AuditTypeOK, NoPager, Pager
<1>3. RingIsLatest
  BY <1>1, MaxEventsAssumption DEF AuditInit, RingIsLatest
<1>4. UnseenIsAhead
  BY <1>1 DEF AuditInit, UnseenIsAhead, NoPager
<1> QED
  BY <1>2, <1>3, <1>4 DEF AuditInv

(* The ring after a write: d events at its old end are gone.               *)
LEMMA RingAfterWrite ==
  ASSUME AuditInv, NEW kind \in Kinds, Write(kind)
  PROVE  \E d \in {0, 1} :
           /\ d = IF Len(events) >= MaxEvents THEN 1 ELSE 0
           /\ Len(events) \in Nat /\ d <= Len(events)
           /\ events' \in Seq(Event)
           /\ Len(events') = Len(events) - d + 1
           /\ \A i \in 1 .. Len(events) - d : events'[i] = events[i + d]
           /\ events'[Len(events')] = [no |-> stored + 1, kind |-> kind]
<1> DEFINE new == [no |-> stored + 1, kind |-> kind]
<1>1. events \in Seq(Event) /\ stored \in Nat /\ Len(events) \in Nat
  BY LenProperties DEF AuditInv, AuditTypeOK
<1>2. new \in Event
  BY <1>1 DEF Event
<1>3. CASE Len(events) >= MaxEvents
  <2>1. events # << >>
    BY <1>1, <1>3, MaxEventsAssumption
  <2>2. /\ Tail(events) \in Seq(Event)
        /\ Len(Tail(events)) = Len(events) - 1
        /\ \A i \in 1 .. Len(Tail(events)) : Tail(events)[i] = events[i + 1]
    BY <1>1, <2>1, HeadTailProperties
  <2>3. events' = Append(Tail(events), new)
    BY <1>3 DEF Write
  <2>4. /\ events' \in Seq(Event)
        /\ Len(events') = Len(Tail(events)) + 1
        /\ \A i \in 1 .. Len(Tail(events)) : events'[i] = Tail(events)[i]
        /\ events'[Len(Tail(events)) + 1] = new
    BY <1>2, <2>2, <2>3, AppendProperties
  <2>5. Len(events) >= 1
    BY <1>1, <1>3, MaxEventsAssumption
  <2> QED
    BY <1>1, <1>3, <2>2, <2>4, <2>5
<1>4. CASE ~(Len(events) >= MaxEvents)
  <2>1. events' = Append(events, new)
    BY <1>4 DEF Write
  <2>2. /\ events' \in Seq(Event)
        /\ Len(events') = Len(events) + 1
        /\ \A i \in 1 .. Len(events) : events'[i] = events[i]
        /\ events'[Len(events) + 1] = new
    BY <1>1, <1>2, <2>1, AppendProperties
  <2> QED
    BY <1>1, <1>4, <2>2
<1> QED
  BY <1>3, <1>4

(* No write brings a matching event nearer to the end that List starts at. *)
LEMMA MatchedGrows ==
  ASSUME AuditInv, NEW kind \in Kinds, Write(kind), NEW filter,
         NEW d \in {0, 1},
         events' \in Seq(Event), Len(events) \in Nat, d <= Len(events),
         Len(events') = Len(events) - d + 1,
         \A i \in 1 .. Len(events) - d : events'[i] = events[i + d],
         NEW i \in 1 .. Len(events) - d
  PROVE  /\ Matched(i + d, filter) \in Nat
         /\ Matched(i, filter)' \in Nat
         /\ Matched(i + d, filter) <= Matched(i, filter)'
<1> DEFINE before == {j \in Matching(filter) : j > i + d}
           after == {j \in Matching(filter)' : j > i}
           f == [j \in before |-> j - d]
<1>1. \A j \in before : /\ j \in 1 .. Len(events) /\ matches(events[j], filter)
                        /\ j > i + d /\ j \in Nat
  BY DEF Matching
<1>2. \A j \in before : j - d \in after
  <2> SUFFICES ASSUME NEW j \in before PROVE j - d \in after
    OBVIOUS
  <2>1. j - d \in 1 .. Len(events) - d /\ j - d > i
    BY <1>1
  <2>2. events'[j - d] = events[j]
    BY <1>1, <2>1
  <2>3. matches(events'[j - d], filter)
    BY <1>1, <2>2 DEF matches
  <2>4. j - d \in 1 .. Len(events')
    BY <2>1
  <2> QED
    BY <2>1, <2>3, <2>4 DEF Matching, matches
<1>3. f \in [before -> after]
  BY <1>2
<1>4. \A x, y \in before : f[x] = f[y] => x = y
  BY <1>1
<1>5. f \in Injection(before, after)
  BY <1>3, <1>4 DEF Injection, IsInjective
<1>6. IsFiniteSet(after)
  <2>1. IsFiniteSet(1 .. Len(events'))
    BY FS_Interval, LenProperties
  <2>2. after \in SUBSET (1 .. Len(events'))
    BY DEF Matching
  <2> QED
    BY <2>1, <2>2, FS_Subset
<1>7. IsFiniteSet(before) /\ Cardinality(before) <= Cardinality(after)
  BY <1>5, <1>6, FS_Injection
<1> QED
  BY <1>6, <1>7, FS_CardinalityType DEF Matched

LEMMA WriteKeepsInv ==
  ASSUME AuditInv, NEW kind \in Kinds, Write(kind)
  PROVE  AuditInv'
<1>1. PICK d \in {0, 1} :
           /\ d = IF Len(events) >= MaxEvents THEN 1 ELSE 0
           /\ Len(events) \in Nat /\ d <= Len(events)
           /\ events' \in Seq(Event)
           /\ Len(events') = Len(events) - d + 1
           /\ \A i \in 1 .. Len(events) - d : events'[i] = events[i + d]
           /\ events'[Len(events')] = [no |-> stored + 1, kind |-> kind]
  BY RingAfterWrite
<1>2. /\ stored \in Nat /\ stored' = stored + 1 /\ UNCHANGED <<closed, pager>>
      /\ pager \in Pager
      /\ MaxEvents \in Nat \ {0}
  BY MaxEventsAssumption DEF AuditInv, AuditTypeOK, Write
<1>3. AuditTypeOK'
  BY <1>1, <1>2 DEF AuditInv, AuditTypeOK
<1>4. RingIsLatest'
  <2>1. Len(events') = IF stored' < MaxEvents THEN stored' ELSE MaxEvents
    BY <1>1, <1>2 DEF AuditInv, RingIsLatest
  <2>2. ASSUME NEW i \in 1 .. Len(events')
        PROVE  events'[i].no = stored' - Len(events') + i
    <3>1. CASE i = Len(events')
      BY <1>1, <1>2, <3>1
    <3>2. CASE i # Len(events')
      <4>1. i \in 1 .. Len(events) - d
        BY <1>1, <2>2, <3>2
      <4>2. events'[i] = events[i + d] /\ i + d \in 1 .. Len(events)
        BY <1>1, <4>1
      <4>3. events[i + d].no = stored - Len(events) + (i + d)
        BY <4>2 DEF AuditInv, RingIsLatest
      <4> QED
        BY <1>1, <1>2, <4>2, <4>3
    <3> QED
      BY <3>1, <3>2
  <2> QED
    BY <2>1, <2>2 DEF RingIsLatest
<1>5. UnseenIsAhead'
  <2>1. pager'.unseen = pager.unseen /\ \A n \in pager.unseen : n <= stored /\ n \in Nat
    BY <1>2 DEF AuditInv, UnseenIsAhead, Pager
  <2>2. \A n \in pager'.unseen : n <= stored'
    BY <1>2, <2>1
  <2>3. ASSUME NEW i \in 1 .. Len(events'), events'[i].no \in pager'.unseen
        PROVE  /\ pager'.state = "paging"
               /\ i \in Matching(pager.kind)'
               /\ Matched(i, pager.kind)' >= pager'.offset
    <3>1. i # Len(events')
      BY <1>1, <1>2, <2>1, <2>3
    <3>2. i \in 1 .. Len(events) - d
      BY <1>1, <3>1
    <3>3. events'[i] = events[i + d] /\ i + d \in 1 .. Len(events)
      BY <1>1, <3>2
    <3>4. /\ pager.state = "paging"
          /\ i + d \in Matching(pager.kind)
          /\ Matched(i + d, pager.kind) >= pager.offset
      BY <2>1, <2>3, <3>3 DEF AuditInv, UnseenIsAhead
    <3>5. /\ Matched(i + d, pager.kind) \in Nat
          /\ Matched(i, pager.kind)' \in Nat
          /\ Matched(i + d, pager.kind) <= Matched(i, pager.kind)'
      <4>1. PICK filter : filter = pager.kind
        OBVIOUS
      <4>2. /\ Matched(i + d, filter) \in Nat
            /\ Matched(i, filter)' \in Nat
            /\ Matched(i + d, filter) <= Matched(i, filter)'
        BY <1>1, <3>2, MatchedGrows
      <4> QED
        BY <1>2, <4>1, <4>2 DEF Matched, Matching
    <3>6. pager.offset \in Nat
      BY <1>2 DEF Pager
    <3>7. i \in Matching(pager.kind)'
      BY <1>2, <3>3, <3>4 DEF Matching, matches
    <3> QED
      BY <1>2, <3>4, <3>5, <3>6, <3>7
  <2> QED
    BY <1>2, <2>2, <2>3 DEF UnseenIsAhead
<1> QED
  BY <1>3, <1>4, <1>5 DEF AuditInv

(* A step that leaves the ring alone keeps the invariant if what the pager *)
(* has not seen, as it is afterwards, lies ahead of it.                    *)
LEMMA PagerKeepsInv ==
  ASSUME AuditInv, UNCHANGED <<events, stored>>, closed' \in BOOLEAN,
         NEW new \in Pager, pager' = new,
         \A n \in new.unseen : n <= stored,
         \A i \in 1 .. Len(events) :
           events[i].no \in new.unseen =>
             /\ new.state = "paging"
             /\ i \in Matching(new.kind)
             /\ Matched(i, new.kind) >= new.offset
  PROVE  AuditInv'
<1>1. AuditTypeOK'
  BY DEF AuditInv, AuditTypeOK
<1>2. RingIsLatest'
  BY DEF AuditInv, RingIsLatest
<1>3. /\ Matching(pager.kind)' = Matching(new.kind)
      /\ \A i : Matched(i, pager.kind)' = Matched(i, new.kind)
  BY DEF Matched, Matching
<1>4. UnseenIsAhead'
  BY <1>3 DEF UnseenIsAhead
<1> QED
  BY <1>1, <1>2, <1>4 DEF AuditInv

LEMMA ResetKeepsInv ==
  ASSUME AuditInv, UNCHANGED <<events, stored>>, closed' \in BOOLEAN,
         pager' = NoPager \/ UNCHANGED pager
  PROVE  AuditInv'
<1>1. CASE pager' = NoPager
  <2>1. NoPager \in Pager /\ NoPager.unseen = {}
    BY DEF NoPager, Pager
  <2> QED
    BY <1>1, <2>1, PagerKeepsInv
<1>2. CASE UNCHANGED pager
  BY <1>2, PagerKeepsInv DEF AuditInv, AuditTypeOK, UnseenIsAhead
<1> QED
  BY <1>1, <1>2

LEMMA CloseKeepsInv == AuditInv /\ Close => AuditInv'
BY ResetKeepsInv DEF Close

LEMMA StartPagingKeepsInv == AuditInv /\ StartPaging => AuditInv'
<1> SUFFICES ASSUME AuditInv, StartPaging PROVE AuditInv'
  OBVIOUS
<1>1. PICK kind \in Kinds \cup {AnyKind}, ask \in Asks :
        pager' = [NoPager EXCEPT !.state = "paging", !.kind = kind, !.ask = ask,
                    !.unseen = {events[i].no : i \in Matching(kind)}]
  BY DEF StartPaging
<1> DEFINE found == {events[i].no : i \in Matching(kind)}
           new == [state |-> "paging", kind |-> kind, ask |-> ask, offset |-> 0, unseen |-> found]
<1>2. pager' = new
  BY <1>1 DEF NoPager
<1>3. events \in Seq(Event) /\ Len(events) \in Nat /\ stored \in Nat
  BY LenProperties DEF AuditInv, AuditTypeOK
<1>4. \A i \in Matching(kind) : /\ i \in 1 .. Len(events)
                                /\ events[i].no \in Nat \ {0}
                                /\ events[i].no <= stored
  <2> SUFFICES ASSUME NEW i \in Matching(kind)
               PROVE  /\ i \in 1 .. Len(events)
                      /\ events[i].no \in Nat \ {0}
                      /\ events[i].no <= stored
    OBVIOUS
  <2>1. i \in 1 .. Len(events)
    BY DEF Matching
  <2>2. events[i].no \in Nat \ {0}
    <3>1. events[i] \in Event
      BY <1>3, <2>1, ElementOfSeq
    <3> QED
      BY <3>1 DEF Event
  <2>3. events[i].no = stored - Len(events) + i
    BY <2>1 DEF AuditInv, RingIsLatest
  <2> QED
    BY <1>3, <2>1, <2>2, <2>3
<1>5. new \in Pager
  BY <1>4 DEF Pager
<1>6. \A n \in found : n <= stored
  BY <1>4
<1>7. ASSUME NEW i \in 1 .. Len(events), events[i].no \in found
      PROVE  i \in Matching(kind) /\ Matched(i, kind) >= 0
  <2>1. PICK j \in Matching(kind) : events[j].no = events[i].no
    BY <1>7
  <2>2. j \in 1 .. Len(events)
    BY <1>4
  <2>3. i = j
    BY <1>3, <2>1, <2>2 DEF AuditInv, RingIsLatest
  <2>4. Matched(i, kind) \in Nat
    BY <1>3, MatchingFinite
  <2> QED
    BY <2>1, <2>3, <2>4
<1>8. UNCHANGED <<events, stored>> /\ closed' \in BOOLEAN
  BY DEF StartPaging, AuditInv, AuditTypeOK
<1> QED
  BY <1>2, <1>5, <1>6, <1>7, <1>8, PagerKeepsInv

(* The caller goes on by what the page holds: what it has not seen lies at *)
(* the next offset or beyond, and nothing does once that is the total.     *)
LEMMA ListKeepsInv == AuditInv /\ List => AuditInv'
<1> SUFFICES ASSUME AuditInv, List PROVE AuditInv'
  OBVIOUS
<1> DEFINE kind == pager.kind
           page == Page(kind, pager.ask, pager.offset)
           next == pager.offset + LimitOf(pager.ask)
           total == Cardinality(Matching(kind))
           unseen == pager.unseen \ page
<1>1. /\ UNCHANGED <<events, closed, stored>>
      /\ pager' = IF Cardinality(page) > Fits THEN NoPager ELSE Paged(next, total, page)
  BY DEF List
<1>2. /\ events \in Seq(Event) /\ pager \in Pager /\ closed \in BOOLEAN
      /\ pager.offset \in Nat /\ LimitOf(pager.ask) \in Nat \ {0} /\ next \in Nat
  <2>1. events \in Seq(Event) /\ pager \in Pager /\ closed \in BOOLEAN
    BY DEF AuditInv, AuditTypeOK
  <2>2. pager.ask \in Int /\ pager.offset \in Nat
    <3>1. pager.ask \in Asks \cup {0} /\ pager.offset \in Nat
      BY <2>1 DEF Pager
    <3> QED
      BY <3>1, AsksAreInts
  <2>3. LimitOf(pager.ask) \in Nat \ {0}
    BY <2>2, LimitType
  <2> QED
    BY <2>1, <2>2, <2>3
<1>3. unseen \in SUBSET (Nat \ {0}) /\ \A n \in unseen : n <= stored
  BY <1>2 DEF AuditInv, UnseenIsAhead, Pager
<1>4. ASSUME NEW i \in 1 .. Len(events), events[i].no \in unseen
      PROVE  /\ pager.state = "paging"
             /\ i \in Matching(kind)
             /\ Matched(i, kind) >= next
  <2>1. /\ pager.state = "paging"
        /\ i \in Matching(kind)
        /\ Matched(i, kind) >= pager.offset
    BY <1>4 DEF AuditInv, UnseenIsAhead
  <2>2. Matched(i, kind) \in Nat
    BY <1>2, MatchingFinite
  <2>3. ~(Matched(i, kind) < next)
    BY <1>4, <2>1 DEF Page
  <2> QED
    BY <1>2, <2>1, <2>2, <2>3
<1>5. CASE Cardinality(page) > Fits
  BY <1>1, <1>2, <1>5, ResetKeepsInv
<1>6. CASE ~(Cardinality(page) > Fits) /\ next >= total
  <2> DEFINE new == [state |-> "done", kind |-> AnyKind, ask |-> 0, offset |-> 0,
                     unseen |-> unseen]
  <2>1. pager' = new
    BY <1>1, <1>6 DEF Paged, NoPager
  <2>2. new \in Pager
    BY <1>3 DEF Pager
  <2>3. \A i \in 1 .. Len(events) : events[i].no \notin unseen
    <3> SUFFICES ASSUME NEW i \in 1 .. Len(events), events[i].no \in unseen PROVE FALSE
      OBVIOUS
    <3>1. Matched(i, kind) < total
      BY <1>2, <1>4, MatchedBelowTotal
    <3>2. Matched(i, kind) \in Nat /\ total \in Nat
      BY <1>2, MatchingFinite
    <3> QED
      BY <1>2, <1>4, <1>6, <3>1, <3>2
  <2> QED
    BY <1>1, <1>2, <1>3, <2>1, <2>2, <2>3, PagerKeepsInv
<1>7. CASE ~(Cardinality(page) > Fits) /\ ~(next >= total)
  <2> DEFINE new == [state |-> pager.state, kind |-> kind, ask |-> pager.ask,
                     offset |-> next, unseen |-> unseen]
  <2>1. new \in Pager
    BY <1>2, <1>3 DEF Pager
  <2>2. pager' = [pager EXCEPT !.offset = next, !.unseen = unseen]
    BY <1>1, <1>7 DEF Paged
  <2>3. pager' = new
    <3> HIDE DEF next, unseen
    <3> QED
      BY <1>2, <2>2 DEF Pager
  <2> QED
    BY <1>1, <1>2, <1>3, <1>4, <2>1, <2>3, PagerKeepsInv
<1> QED
  BY <1>5, <1>6, <1>7

(* A ring that is empty, as a process finds it.                            *)
LEMMA AuditEndKeepsInv ==
  ASSUME events' = << >>, closed' = FALSE, stored' = 0, pager' = NoPager
  PROVE  AuditInv'
<1>1. events' \in Seq(Event) /\ Len(events') = 0
  BY EmptySeq
<1>2. AuditTypeOK'
  BY <1>1 DEF AuditTypeOK, NoPager, Pager
<1>3. RingIsLatest'
  BY <1>1, MaxEventsAssumption DEF RingIsLatest
<1>4. UnseenIsAhead'
  BY <1>1 DEF UnseenIsAhead, NoPager
<1> QED
  BY <1>2, <1>3, <1>4 DEF AuditInv

--------------------------------------------------------------------------------
LEMMA StoresType ==
  /\ \A op \in DOMAIN Stores : Len(Stores[op]) \in {1, 2} /\ op # "none"
  /\ NoRequest \in Request
BY DEF Stores, NoRequest, Request

(* A request moved on: at a place of its stores, and why.                  *)
Moved(q, pc, at) == [op |-> q.op, at |-> at, pc |-> pc]

LEMMA MovedIs ==
  ASSUME NEW q \in Request, NEW pc, NEW at
  PROVE  /\ Moved(q, pc, at).op = q.op
         /\ Moved(q, pc, at).at = at
         /\ Moved(q, pc, at).pc = pc
         /\ [q EXCEPT !.pc = pc] = Moved(q, pc, q.at)
         /\ [q EXCEPT !.at = at] = Moved(q, q.pc, at)
<1>1. [q EXCEPT !.pc = pc] = Moved(q, pc, q.at)
  BY DEF Moved, Request
<1>2. [q EXCEPT !.at = at] = Moved(q, q.pc, at)
  BY DEF Moved, Request
<1> QED
  BY <1>1, <1>2 DEF Moved

(* The places of a handler with one store or two.                          *)
LEMMA NextPlace ==
  \A len \in {1, 2} :
    /\ \A n \in 1 .. len + 1 : n <= len => n \in 1 .. len /\ n + 1 \in 1 .. len + 1
    /\ \A n \in 1 .. len + 1 : n \in 0 .. 3
    /\ 1 \in 1 .. len + 1
OBVIOUS

(* A handler goes on: to its call, to hold a connection, to its next       *)
(* store.                                                                  *)
LEMMA MovedInPlace ==
  ASSUME NEW q \in Request, InPlace(q)
  PROVE  /\ Moved(q, "failed", q.at) \in Request
         /\ Moved(q, "working", q.at) \in Request /\ InPlace(Moved(q, "working", q.at))
         /\ q.at <= Len(Stores[q.op]) =>
              /\ Moved(q, "holding", q.at) \in Request /\ InPlace(Moved(q, "holding", q.at))
              /\ Moved(q, "working", q.at + 1) \in Request
              /\ InPlace(Moved(q, "working", q.at + 1))
<1>1. PICK len \in {1, 2} : len = Len(Stores[q.op])
  BY StoresType DEF InPlace, Request
<1>2. PICK n : n = q.at
  OBVIOUS
<1>3. n \in 1 .. len + 1 /\ n \in 0 .. 3 /\ q.op # "none"
      /\ q.op \in DOMAIN Stores \cup {"none"}
  BY <1>1, <1>2, NextPlace DEF InPlace, Request
<1>4. \A pc \in {"working", "holding", "failed"}, at \in 0 .. 3 : Moved(q, pc, at) \in Request
  BY <1>3 DEF Moved, Request
<1>5. \A at \in 1 .. len + 1 : InPlace(Moved(q, "working", at))
  BY <1>1, <1>3 DEF Moved, InPlace
<1>6. n <= len => InPlace(Moved(q, "holding", n)) /\ n + 1 \in 1 .. len + 1 /\ n + 1 \in 0 .. 3
  BY <1>1, <1>3, NextPlace DEF Moved, InPlace
<1> QED
  BY <1>1, <1>2, <1>3, <1>4, <1>5, <1>6

LEMMA MovesOn ==
  ASSUME NEW q \in Request, InPlace(q)
  PROVE  /\ \E new \in Request : new.pc = "failed" /\ new = [q EXCEPT !.pc = "failed"]
         /\ \E new \in Request :
              new.pc = "working" /\ InPlace(new) /\ new = [q EXCEPT !.pc = "working"]
         /\ q.at <= Len(Stores[q.op]) =>
              /\ \E new \in Request :
                   new.pc = "holding" /\ InPlace(new) /\ new = [q EXCEPT !.pc = "holding"]
              /\ \E new \in Request :
                   new.pc = "working" /\ InPlace(new)
                   /\ new = [op |-> q.op, pc |-> "working", at |-> q.at + 1]
              /\ q.pc = "working" =>
                   \E new \in Request :
                     new.pc = "working" /\ InPlace(new) /\ new = [q EXCEPT !.at = q.at + 1]
<1>1. \A pc, at : Moved(q, pc, at).pc = pc
  BY DEF Moved
<1>2. /\ Moved(q, "failed", q.at) \in Request
      /\ [q EXCEPT !.pc = "failed"] = Moved(q, "failed", q.at)
  BY MovedIs, MovedInPlace
<1>3. /\ Moved(q, "working", q.at) \in Request /\ InPlace(Moved(q, "working", q.at))
      /\ [q EXCEPT !.pc = "working"] = Moved(q, "working", q.at)
  BY MovedIs, MovedInPlace
<1>4. ASSUME q.at <= Len(Stores[q.op])
      PROVE  /\ Moved(q, "holding", q.at) \in Request /\ InPlace(Moved(q, "holding", q.at))
             /\ [q EXCEPT !.pc = "holding"] = Moved(q, "holding", q.at)
  BY <1>4, MovedIs, MovedInPlace
<1>5. ASSUME q.at <= Len(Stores[q.op])
      PROVE  /\ Moved(q, "working", q.at + 1) \in Request
             /\ InPlace(Moved(q, "working", q.at + 1))
  BY <1>5, MovedInPlace
<1>6. PICK at : at = q.at + 1
  OBVIOUS
<1>7. [q EXCEPT !.at = at] = Moved(q, q.pc, at)
  BY MovedIs
<1>8. [op |-> q.op, pc |-> "working", at |-> at] = Moved(q, "working", at)
  BY DEF Moved
<1> QED
  BY <1>1, <1>2, <1>3, <1>4, <1>5, <1>6, <1>7, <1>8

(* What the invariant says of one request.                                 *)
LEMMA RequestOf ==
  ASSUME ServerInv, NEW r \in Requests
  PROVE  req[r] \in Request /\ (Open(r) => InPlace(req[r]))
BY DEF ServerInv, ServerTypeOK, RequestsInOrder

LEMMA ServerInitInv == ServerInit => ServerInv
<1> SUFFICES ASSUME ServerInit PROVE ServerInv
  OBVIOUS
<1>1. AuditInv
  BY AuditInitInv DEF ServerInit
<1>2. ServerTypeOK
  BY StoresType DEF ServerInit, ServerTypeOK, Phases
<1>3. RequestsInOrder /\ StopsInOrder /\ LoadedIsValid /\ CleanStop
  BY DEF ServerInit, RequestsInOrder, StopsInOrder, LoadedIsValid, CleanStop, Open, NoRequest
<1> QED
  BY <1>1, <1>2, <1>3 DEF ServerInv

--------------------------------------------------------------------------------
(* A step of one handler keeps the invariant if the request, as it is      *)
(* afterwards, is in order: it is open only if it was or the process takes *)
(* requests, and it fails only when the process has a reason to.           *)
LEMMA HandlerKeepsInv ==
  ASSUME ServerInv, AuditInv', UNCHANGED <<phase, conf, outcome, shut>>,
         NEW r \in Requests, NEW new \in Request,
         req' = [req EXCEPT ![r] = new],
         new.pc \in {"reading", "working", "holding"} =>
           InPlace(new) /\ (Open(r) \/ phase = "serving"),
         new.pc \in {"failed", "dropped"} => outcome \in {"deadline", "listener"}
  PROVE  ServerInv'
<1>1. \A x \in Requests : req'[x] = IF x = r THEN new ELSE req[x]
  BY DEF ServerInv, ServerTypeOK
<1>2. ServerTypeOK'
  BY DEF ServerInv, ServerTypeOK
<1>3. RequestsInOrder'
  BY <1>1 DEF ServerInv, RequestsInOrder, Open, InPlace
<1>4. StopsInOrder'
  <2>1. ASSUME phase = "stopping", outcome = "drained", NEW x \in Requests
        PROVE  ~Open(x)'
    BY <1>1, <2>1 DEF ServerInv, StopsInOrder, Open
  <2> QED
    BY <2>1 DEF ServerInv, StopsInOrder
<1>5. LoadedIsValid'
  BY DEF ServerInv, LoadedIsValid
<1>6. CleanStop'
  BY <1>1 DEF ServerInv, CleanStop
<1> QED
  BY <1>2, <1>3, <1>4, <1>5, <1>6 DEF ServerInv

LEMMA AuditUnchanged == AuditInv /\ UNCHANGED auditVars => AuditInv'
BY ResetKeepsInv DEF auditVars, AuditInv, AuditTypeOK

LEMMA AcceptKeepsInv ==
  ASSUME ServerInv, NEW r \in Requests, Accept(r)
  PROVE  ServerInv'
<1>1. PICK op \in DOMAIN Stores :
        req' = [req EXCEPT ![r] = [op |-> op, at |-> 1,
                  pc |-> IF HasBody(op) THEN "reading" ELSE "working"]]
  BY DEF Accept
<1>2. PICK new : new = [op |-> op, at |-> 1, pc |-> IF HasBody(op) THEN "reading" ELSE "working"]
  OBVIOUS
<1>3. new \in Request /\ new.pc \in {"reading", "working"}
  BY <1>2 DEF Request
<1>4. InPlace(new)
  BY <1>2, StoresType, NextPlace DEF InPlace
<1>5. AuditInv'
  BY AuditUnchanged DEF Accept, ServerInv
<1>6. UNCHANGED <<phase, conf, outcome, shut>> /\ phase = "serving"
  BY DEF Accept, runVars
<1>7. req' = [req EXCEPT ![r] = new]
  BY <1>1, <1>2
<1> QED
  BY <1>3, <1>4, <1>5, <1>6, <1>7, HandlerKeepsInv

LEMMA ReadBodyKeepsInv ==
  ASSUME ServerInv, NEW r \in Requests, ReadBody(r)
  PROVE  ServerInv'
<1>1. req[r] \in Request /\ InPlace(req[r]) /\ Open(r)
  BY RequestOf DEF ReadBody, Open
<1>2. PICK new \in Request :
        new.pc = "working" /\ InPlace(new) /\ new = [req[r] EXCEPT !.pc = "working"]
  BY <1>1, MovesOn
<1>3. req' = [req EXCEPT ![r] = new]
  BY <1>2 DEF ReadBody
<1>4. AuditInv'
  BY AuditUnchanged DEF ReadBody, ServerInv
<1>5. UNCHANGED <<phase, conf, outcome, shut>>
  BY DEF ReadBody, runVars
<1> QED
  BY <1>1, <1>2, <1>3, <1>4, <1>5, HandlerKeepsInv

(* A handler that has called its store is at the next one, holds a         *)
(* connection or has failed; the last only once stores are being closed    *)
(* under it, which a drain that ended well does not lead to.               *)
LEMMA CallKeepsInv ==
  ASSUME ServerInv, NEW r \in Requests, Call(r)
  PROVE  ServerInv'
<1> DEFINE store == Stores[req[r].op][req[r].at]
<1>1. /\ req[r] \in Request /\ InPlace(req[r]) /\ Open(r)
      /\ req[r].pc = "working" /\ req[r].at <= Len(Stores[req[r].op])
  BY RequestOf DEF Call, Open
<1>2. UNCHANGED <<phase, conf, outcome, shut>>
  BY DEF Call, runVars
<1>3. CASE Refuses(req[r].op, store) /\ req' = [req EXCEPT ![r].pc = "failed"]
           /\ UNCHANGED auditVars
  <2>1. PICK new \in Request : new.pc = "failed" /\ new = [req[r] EXCEPT !.pc = "failed"]
    BY <1>1, MovesOn
  <2>2. req' = [req EXCEPT ![r] = new]
    BY <1>3, <2>1
  <2>3. shut # {}
    BY <1>3 DEF Refuses
  <2>4. outcome \in {"deadline", "listener"}
    BY <1>1, <2>3 DEF ServerInv, StopsInOrder, ServerTypeOK
  <2>5. AuditInv'
    BY <1>3, AuditUnchanged DEF ServerInv
  <2> QED
    BY <1>2, <2>1, <2>2, <2>4, <2>5, HandlerKeepsInv
<1>4. CASE /\ ~Refuses(req[r].op, store)
           /\ req' = IF store = "iam" /\ conf.postgres
                     THEN [req EXCEPT ![r].pc = "holding"]
                     ELSE [req EXCEPT ![r].at = @ + 1]
           /\ CASE req[r].op = "audit_write" -> stored < MaxWrites /\ \E kind \in Kinds : Write(kind)
                [] req[r].op = "audit_list" -> List
                [] OTHER -> UNCHANGED auditVars
  <2>1. AuditInv'
    <3>1. CASE req[r].op = "audit_write"
      BY <1>4, <3>1, WriteKeepsInv DEF ServerInv
    <3>2. CASE req[r].op = "audit_list"
      BY <1>4, <3>2, ListKeepsInv DEF ServerInv
    <3>3. CASE req[r].op \notin {"audit_write", "audit_list"}
      BY <1>4, <3>3, AuditUnchanged DEF ServerInv
    <3> QED
      BY <3>1, <3>2, <3>3
  <2>2. CASE store = "iam" /\ conf.postgres
    <3>1. PICK new \in Request :
            new.pc = "holding" /\ InPlace(new) /\ new = [req[r] EXCEPT !.pc = "holding"]
      BY <1>1, MovesOn
    <3>2. req' = [req EXCEPT ![r] = new]
      BY <1>4, <2>2, <3>1
    <3> QED
      BY <1>1, <1>2, <2>1, <3>1, <3>2, HandlerKeepsInv
  <2>3. CASE ~(store = "iam" /\ conf.postgres)
    <3>1. PICK new \in Request :
            new.pc = "working" /\ InPlace(new) /\ new = [req[r] EXCEPT !.at = req[r].at + 1]
      BY <1>1, MovesOn
    <3>2. req' = [req EXCEPT ![r] = new]
      BY <1>4, <2>3, <3>1
    <3> QED
      BY <1>1, <1>2, <2>1, <3>1, <3>2, HandlerKeepsInv
  <2> QED
    BY <2>2, <2>3
<1> QED
  BY <1>3, <1>4 DEF Call

LEMMA QueryEndsKeepsInv ==
  ASSUME ServerInv, NEW r \in Requests, QueryEnds(r)
  PROVE  ServerInv'
<1>1. /\ req[r] \in Request /\ InPlace(req[r]) /\ Open(r)
      /\ req[r].at <= Len(Stores[req[r].op])
  BY RequestOf DEF QueryEnds, Open, InPlace
<1>2. PICK new \in Request :
        /\ new.pc = "working" /\ InPlace(new)
        /\ new = [op |-> req[r].op, pc |-> "working", at |-> req[r].at + 1]
  BY <1>1, MovesOn
<1>3. req' = [req EXCEPT ![r] = new]
  BY <1>2 DEF QueryEnds
<1>4. AuditInv'
  BY AuditUnchanged DEF QueryEnds, ServerInv
<1>5. UNCHANGED <<phase, conf, outcome, shut>>
  BY DEF QueryEnds, runVars
<1> QED
  BY <1>1, <1>2, <1>3, <1>4, <1>5, HandlerKeepsInv

(* A request that is over, answered or not.                                *)
LEMMA OverKeepsInv ==
  ASSUME ServerInv, NEW r \in Requests, Answer(r) \/ ClientLeaves(r)
  PROVE  ServerInv'
<1>1. req' = [req EXCEPT ![r] = NoRequest]
  BY DEF Answer, ClientLeaves
<1>2. UNCHANGED <<phase, conf, outcome, shut>>
  BY DEF Answer, ClientLeaves, runVars
<1>3. AuditInv'
  <2>1. CASE Answer(r)
    BY <2>1, AuditUnchanged DEF Answer, ServerInv
  <2>2. CASE ClientLeaves(r)
    BY <2>2, ResetKeepsInv DEF ClientLeaves, ServerInv, AuditInv, AuditTypeOK
  <2> QED
    BY <2>1, <2>2
<1>4. NoRequest \in Request /\ NoRequest.pc = "none"
  BY StoresType DEF NoRequest
<1> QED
  BY <1>1, <1>2, <1>3, <1>4, HandlerKeepsInv

--------------------------------------------------------------------------------
(* The configuration a process is started with, as Load leaves it.         *)
LEMMA NormalizeType == \A cfg \in Config : normalize(cfg) \in Config
<1>1. ASSUME NEW text \in Texts
      PROVE  Trimmed(text) \in Texts /\ normalizeCookieSameSite(text) \in Texts
  <2>1. text.word \in Words /\ "Lax" \in Words
    BY DEF Texts, Words
  <2>2. \A word \in Words : Text(word) \in Texts
    BY DEF Texts, Text
  <2> QED
    BY <2>1, <2>2 DEF Trimmed, normalizeCookieSameSite
<1>2. ASSUME NEW cfg \in Config, NEW s \in Texts, NEW i \in Texts, NEW c \in Texts
      PROVE  [cfg EXCEPT !.sessionProvider = s, !.iamProvider = i, !.cookieSameSite = c] \in Config
  <2> HIDE DEF Texts
  <2> QED
    BY DEF Config
<1>3. \A cfg \in Config : /\ cfg.sessionProvider \in Texts /\ cfg.iamProvider \in Texts
                         /\ cfg.cookieSameSite \in Texts
  BY DEF Config
<1> QED
  BY <1>1, <1>2, <1>3 DEF normalize

--------------------------------------------------------------------------------
(* The steps of the process itself.  The first ones touch no request that  *)
(* is open, and close nothing.                                             *)
LEMMA StartKeepsInv ==
  ASSUME ServerInv, Start
  PROVE  ServerInv'
<1>1. /\ phase' = "starting" /\ conf' \in Configs /\ outcome' = "none"
      /\ req' = [r \in Requests |-> NoRequest]
      /\ UNCHANGED <<auditVars, shut>>
  BY DEF Start
<1>2. conf' \in Config
  BY <1>1, ConfigsAssumption
<1>3. \A r \in Requests : req'[r] = NoRequest /\ req'[r].pc = "none"
  BY <1>1 DEF NoRequest
<1>4. AuditInv'
  BY <1>1, AuditUnchanged DEF ServerInv
<1>5. ServerTypeOK'
  BY <1>1, StoresType DEF ServerInv, ServerTypeOK, Phases
<1>6. RequestsInOrder' /\ CleanStop'
  BY <1>3 DEF RequestsInOrder, Open, CleanStop
<1>7. StopsInOrder'
  BY <1>1 DEF ServerInv, StopsInOrder, Start
<1>8. LoadedIsValid'
  BY <1>1, <1>2 DEF LoadedIsValid
<1> QED
  BY <1>4, <1>5, <1>6, <1>7, <1>8 DEF ServerInv

(* A process that is not up yet has had no request that failed.            *)
LEMMA PhaseKeepsInv ==
  ASSUME ServerInv, UNCHANGED <<auditVars, shut, req>>,
         phase' \in Phases, outcome' \in {"none", "drained", "deadline", "listener"},
         StopsInOrder', LoadedIsValid',
         phase \notin {"down", "exited", "stopping"}
  PROVE  ServerInv'
<1>1. AuditInv'
  BY AuditUnchanged DEF ServerInv
<1>2. ServerTypeOK'
  BY DEF ServerInv, ServerTypeOK
<1>3. RequestsInOrder'
  BY DEF ServerInv, RequestsInOrder, Open
<1>4. CleanStop'
  <2>1. outcome = "none"
    BY DEF ServerInv, ServerTypeOK, StopsInOrder, Phases
  <2>2. \A r \in Requests : req[r].pc \notin {"failed", "dropped"}
    BY <2>1 DEF ServerInv, CleanStop
  <2> QED
    BY <2>2 DEF CleanStop
<1> QED
  BY <1>1, <1>2, <1>3, <1>4 DEF ServerInv

LEMMA LoadKeepsInv ==
  ASSUME ServerInv, Load
  PROVE  ServerInv'
<1>1. /\ phase = "starting" /\ UNCHANGED <<auditVars, outcome, shut, req>>
      /\ \/ /\ phase' = "loaded" /\ conf' = normalize(conf) /\ validate(normalize(conf))
         \/ phase' = "exited"
  BY DEF Load, runVars
<1>2. conf \in Config
  BY <1>1 DEF ServerInv, LoadedIsValid
<1>3. LoadedIsValid'
  BY <1>1, <1>2, NormalizeType DEF LoadedIsValid
<1>4. StopsInOrder'
  BY <1>1 DEF ServerInv, StopsInOrder
<1>5. phase' \in Phases /\ outcome' \in {"none", "drained", "deadline", "listener"}
  BY <1>1 DEF Phases, ServerInv, ServerTypeOK
<1> QED
  BY <1>1, <1>3, <1>4, <1>5, PhaseKeepsInv

LEMMA NewKeepsInv ==
  ASSUME ServerInv, New
  PROVE  ServerInv'
<1>1. /\ phase = "loaded" /\ UNCHANGED <<auditVars, outcome, shut, req>>
      /\ phase' \in {"serving", "down"}
  BY DEF New, runVars
<1>2. LoadedIsValid'
  BY <1>1 DEF LoadedIsValid
<1>3. StopsInOrder'
  BY <1>1 DEF ServerInv, StopsInOrder
<1>4. phase' \in Phases /\ outcome' \in {"none", "drained", "deadline", "listener"}
  BY <1>1 DEF Phases, ServerInv, ServerTypeOK
<1> QED
  BY <1>1, <1>2, <1>3, <1>4, PhaseKeepsInv

(* It stops serving.                                                       *)
LEMMA StopsServingKeepsInv ==
  ASSUME ServerInv, Signal \/ Drained \/ GraceOver \/ ListenerFails
  PROVE  ServerInv'
<1>1. /\ phase \in {"serving", "draining"} /\ UNCHANGED <<auditVars, shut, req>>
      /\ phase' \in {"draining", "stopping"}
      /\ outcome' \in {"none", "drained", "deadline", "listener"}
  BY DEF Signal, Drained, GraceOver, ListenerFails, runVars, ServerInv, ServerTypeOK
<1>2. LoadedIsValid'
  BY <1>1 DEF LoadedIsValid
<1>3. StopsInOrder'
  <2>1. shut' = {} /\ outcome = "none"
    BY <1>1 DEF ServerInv, StopsInOrder
  <2>2. phase' = "draining" => outcome' = "none"
    BY <2>1 DEF Signal, Drained, GraceOver, ListenerFails, runVars
  <2>3. phase' = "stopping" => outcome' # "none"
    BY DEF Signal, Drained, GraceOver, ListenerFails, runVars
  <2>4. phase' = "stopping" /\ outcome' = "drained" => \A r \in Requests : ~Open(r)'
    BY DEF Signal, Drained, GraceOver, ListenerFails, Open
  <2> QED
    BY <1>1, <2>1, <2>2, <2>3, <2>4 DEF StopsInOrder
<1>4. phase' \in Phases /\ phase \notin {"down", "exited", "stopping"}
  BY <1>1 DEF Phases
<1> QED
  BY <1>1, <1>2, <1>3, <1>4, PhaseKeepsInv

LEMMA BeginPagingKeepsInv ==
  ASSUME ServerInv, BeginPaging
  PROVE  ServerInv'
<1>1. UNCHANGED <<phase, conf, outcome, shut, req>> /\ StartPaging
  BY DEF BeginPaging, runVars
<1>2. AuditInv'
  BY <1>1, StartPagingKeepsInv DEF ServerInv
<1>3. ServerTypeOK' /\ LoadedIsValid'
  BY <1>1 DEF ServerInv, ServerTypeOK, LoadedIsValid
<1>4. RequestsInOrder' /\ StopsInOrder' /\ CleanStop'
  BY <1>1 DEF ServerInv, RequestsInOrder, StopsInOrder, CleanStop, Open
<1> QED
  BY <1>2, <1>3, <1>4 DEF ServerInv

LEMMA closeDependenciesKeepsInv ==
  ASSUME ServerInv, closeDependencies
  PROVE  ServerInv'
<1>1. phase = "stopping" /\ UNCHANGED <<phase, conf, outcome, req>>
  BY DEF closeDependencies
<1>2. PICK i \in DOMAIN closers :
        shut' = shut \cup {closers[i]} /\ IF closers[i] = "audit" THEN Close ELSE UNCHANGED auditVars
  BY DEF closeDependencies
<1>3. closers[i] \in {"session", "audit", "iam", "state"}
  BY <1>2 DEF closers
<1>4. AuditInv'
  BY <1>2, CloseKeepsInv, AuditUnchanged DEF ServerInv
<1>5. ServerTypeOK' /\ LoadedIsValid'
  BY <1>1, <1>2, <1>3 DEF ServerInv, ServerTypeOK, LoadedIsValid
<1>6. RequestsInOrder' /\ StopsInOrder' /\ CleanStop'
  BY <1>1 DEF ServerInv, RequestsInOrder, StopsInOrder, CleanStop, Open
<1> QED
  BY <1>4, <1>5, <1>6 DEF ServerInv

(* The end of a process, after which nothing of it is open: if it came     *)
(* after a drain that ended well, there was nothing to cut off.            *)
LEMMA EndKeepsInv ==
  ASSUME ServerInv, Exit \/ Crash
  PROVE  ServerInv'
<1>1. Gone /\ UNCHANGED outcome /\ phase' \in {"exited", "down"}
  BY DEF Exit, Crash
<1>2. /\ req' = [r \in Requests |-> IF Open(r) THEN [req[r] EXCEPT !.pc = "dropped"] ELSE req[r]]
      /\ shut' = {}
  BY <1>1 DEF Gone
<1>3. ASSUME NEW r \in Requests
      PROVE  /\ req'[r] \in Request /\ ~Open(r)'
             /\ Open(r) \/ req'[r] = req[r]
  <2>1. req[r] \in Request
    BY RequestOf
  <2>2. CASE Open(r)
    <3>1. req'[r] = Moved(req[r], "dropped", req[r].at)
      BY <1>2, <2>1, <2>2, MovedIs
    <3> QED
      BY <2>1, <2>2, <3>1 DEF Moved, Request, Open
  <2>3. CASE ~Open(r)
    BY <1>2, <2>1, <2>3 DEF Open
  <2> QED
    BY <2>2, <2>3
<1>4. AuditInv'
  BY <1>1, AuditEndKeepsInv DEF Gone
<1>5. ServerTypeOK'
  <2>1. req' \in [Requests -> Request]
    BY <1>2, <1>3
  <2> QED
    BY <1>1, <1>2, <2>1 DEF ServerInv, ServerTypeOK, Phases
<1>6. RequestsInOrder' /\ StopsInOrder' /\ LoadedIsValid'
  BY <1>1, <1>2, <1>3 DEF RequestsInOrder, StopsInOrder, LoadedIsValid
<1>7. CleanStop'
  <2>1. CASE Crash
    BY <2>1 DEF Crash, CleanStop
  <2>2. CASE Exit
    <3>1. phase = "stopping" /\ outcome \in {"drained", "deadline", "listener"}
      BY <2>2 DEF Exit, ServerInv, ServerTypeOK, StopsInOrder
    <3>2. CASE outcome = "drained"
      <4>1. \A r \in Requests : req'[r] = req[r]
        BY <1>3, <3>1, <3>2 DEF ServerInv, StopsInOrder
      <4> QED
        BY <1>1, <3>1, <3>2, <4>1 DEF ServerInv, CleanStop
    <3>3. CASE outcome # "drained"
      BY <1>1, <3>1, <3>3 DEF CleanStop
    <3> QED
      BY <3>2, <3>3
  <2> QED
    BY <2>1, <2>2
<1> QED
  BY <1>4, <1>5, <1>6, <1>7 DEF ServerInv

LEMMA ServerNextKeepsInv == ServerInv /\ [ServerNext]_serverVars => ServerInv'
<1> SUFFICES ASSUME ServerInv, [ServerNext]_serverVars PROVE ServerInv'
  OBVIOUS
<1>1. CASE Start
  BY <1>1, StartKeepsInv
<1>2. CASE Load
  BY <1>2, LoadKeepsInv
<1>3. CASE New
  BY <1>3, NewKeepsInv
<1>4. ASSUME NEW r \in Requests, Handle(r)
      PROVE  ServerInv'
  BY <1>4, AcceptKeepsInv, ReadBodyKeepsInv, CallKeepsInv, QueryEndsKeepsInv, OverKeepsInv DEF Handle
<1>5. CASE BeginPaging
  BY <1>5, BeginPagingKeepsInv
<1>6. CASE Signal \/ ListenerFails \/ Drained \/ GraceOver
  BY <1>6, StopsServingKeepsInv
<1>7. CASE closeDependencies
  BY <1>7, closeDependenciesKeepsInv
<1>8. CASE Exit \/ Crash
  BY <1>8, EndKeepsInv
<1>9. CASE UNCHANGED serverVars
  <2>1. AuditInv'
    BY <1>9, AuditUnchanged DEF serverVars, ServerInv
  <2>2. UNCHANGED <<phase, conf, outcome, shut, req>>
    BY <1>9 DEF serverVars, runVars
  <2>3. ServerTypeOK' /\ LoadedIsValid'
    BY <2>2 DEF ServerInv, ServerTypeOK, LoadedIsValid
  <2>4. RequestsInOrder' /\ StopsInOrder' /\ CleanStop'
    BY <2>2 DEF ServerInv, RequestsInOrder, StopsInOrder, CleanStop, Open
  <2> QED
    BY <2>1, <2>3, <2>4 DEF ServerInv
<1> QED
  BY <1>1, <1>2, <1>3, <1>4, <1>5, <1>6, <1>7, <1>8, <1>9 DEF ServerNext, Stop

(* The invariant of the whole process: the ring holds the latest events,   *)
(* the stores are closed in order, a configuration in use is valid.        *)
THEOREM ServerInvariant == ServerSpec => []ServerInv
<1>1. ServerInv /\ [ServerNext]_serverVars => ServerInv'
  BY ServerNextKeepsInv
<1> QED
  BY ServerInitInv, <1>1, PTL DEF ServerSpec

(* An orderly stop fails and cuts off no request (server.go:50-81): those  *)
(* that are harmed are owed to a crash, a failed listener or a drain that  *)
(* ran out of time.                                                        *)
THEOREM StopIsClean == ServerSpec => []CleanStop
<1>1. ServerInv => CleanStop
  BY DEF ServerInv
<1> QED
  BY ServerInvariant, <1>1, PTL

(* A caller that is through all its pages has seen every event that        *)
(* matched when it began and that the ring still holds (memory.go:56-88).  *)
THEOREM PagingMissesNothing == ServerSpec => []PagesComplete
<1>1. ServerInv => PagesComplete
  BY DEF ServerInv, AuditInv, UnseenIsAhead, PagesComplete
<1> QED
  BY ServerInvariant, <1>1, PTL
================================================================================
