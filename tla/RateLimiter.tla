------------------------------- MODULE RateLimiter -------------------------------
(***************************************************************************)
(* tokenBucketLimiter of internal/server: a bucket per key under one       *)
(* mutex.  Allow reads the clock before it takes the mutex, so the         *)
(* readings that reach a bucket may be out of order.                       *)
(*                                                                         *)
(* Tokens are counted in credits.  A request costs Cost credits and time   *)
(* is counted in the ticks that earn one: a tick is 1/(qps * Cost) of a    *)
(* second.  Fractions of a token are credits, and no product of variables  *)
(* is needed.  Rounding of the float64 arithmetic is left out.             *)
(***************************************************************************)
EXTENDS Integers, FiniteSets

CONSTANTS
  Procs,          \* goroutines that call Allow
  Keys,           \* keys of the limiter: hashes of credentials, client IPs
  NoKey,          \* the key of a goroutine that is not in a call
  Cost,           \* credits of one request
  Burst,          \* rateLimitBurst, in credits
  Idle,           \* the ten minutes after which a bucket may be dropped
  MaxBuckets,     \* the 10000 buckets above which idle ones are dropped
  Stall,          \* how long a goroutine may wait for the mutex
  MaxTime         \* bound of the model: the clock stops here

ASSUME NoKeyAssumption == NoKey \notin Keys
ASSUME CostAssumption == Cost \in Nat \ {0}
ASSUME BurstAssumption == Burst \in Nat /\ Burst >= Cost
ASSUME IdleAssumption == Idle \in Nat
ASSUME MaxBucketsAssumption == MaxBuckets \in Nat
ASSUME StallAssumption == Stall \in Nat
ASSUME MaxTimeAssumption == MaxTime \in Nat

(* A bucket idle for so long that it would be full again may be forgotten. *)
(* config.validate does not ask for this; the shipped values have 2        *)
(* seconds on the left and 10 minutes, less the stalls, on the right.      *)
ASSUME ForgetAssumption == Burst + 2 * Stall <= Idle

VARIABLES
  now,            \* time.Now()
  buckets,        \* key -> [tokens, last], and the history variable `used`
  pending,        \* goroutine -> the key and the reading of its call
  window,         \* history: start of the time over which spent is counted
  spent           \* history: credits admitted for each key since window

vars == <<now, buckets, pending, window, spent>>

Bucket == [tokens : Int, last : Nat, used : Nat]
Waiting == [key : Keys \cup {NoKey}, at : Nat]
Free == [key |-> NoKey, at |-> 0]

Capped(tokens) == IF tokens > Burst THEN Burst ELSE tokens

(* Definitions named Bad_ are slips of the code that the runs must notice; *)
(* each stands before what it would replace, and nothing uses it.          *)

(* The tokens of bucket k for a call that read the clock at t: more for    *)
(* the time since the last call, or fewer if that call read a later time.  *)
Bad_Refilled(k, t) == buckets[k].tokens + (t - buckets[k].last)
Refilled(k, t) == Capped(buckets[k].tokens + (t - buckets[k].last))

(* Bucket k after a call that read t and leaves it these tokens.           *)
Put(k, tokens, t) ==
  [x \in DOMAIN buckets \cup {k} |->
     IF x = k THEN [tokens |-> tokens, last |-> t, used |-> now] ELSE buckets[x]]

(* The cleanup of an admitted call: what was last used before the cutoff.  *)
Bad_Tidied(bs, t) ==
  IF Cardinality(DOMAIN bs) > MaxBuckets
  THEN [k \in {x \in DOMAIN bs : ~(bs[x].last < t)} |-> bs[k]]
  ELSE bs

Tidied(bs, t) ==
  IF Cardinality(DOMAIN bs) > MaxBuckets
  THEN [k \in {x \in DOMAIN bs : ~(bs[x].last < t - Idle)} |-> bs[k]]
  ELSE bs

Return(p) == pending' = [pending EXCEPT ![p] = Free]
Admit(k) == spent' = [spent EXCEPT ![k] = @ + Cost]

--------------------------------------------------------------------------------
(* Allow, up to the mutex.                                                 *)
ReadClock(p) ==
  /\ pending[p] = Free
  /\ \E k \in Keys : pending' = [pending EXCEPT ![p] = [key |-> k, at |-> now]]
  /\ UNCHANGED <<now, buckets, window, spent>>

(* Allow, under the mutex, for a key it has no bucket for.                 *)
AllowNew(p) ==
  LET k == pending[p].key IN
  /\ k \in Keys \ DOMAIN buckets
  /\ buckets' = Put(k, Burst - Cost, pending[p].at)
  /\ Admit(k)
  /\ Return(p)
  /\ UNCHANGED <<now, window>>

AllowKnown(p) ==
  LET k == pending[p].key
      t == pending[p].at
  IN /\ k \in DOMAIN buckets
     /\ Refilled(k, t) >= Cost
     /\ buckets' = Tidied(Put(k, Refilled(k, t) - Cost, t), t)
     /\ Admit(k)
     /\ Return(p)
     /\ UNCHANGED <<now, window>>

Deny(p) ==
  LET k == pending[p].key
      t == pending[p].at
  IN /\ k \in DOMAIN buckets
     /\ Refilled(k, t) < Cost
     /\ buckets' = Put(k, Refilled(k, t), t)
     /\ Return(p)
     /\ UNCHANGED <<now, window, spent>>

(* Time passes, but for no longer than Stall while a call waits.           *)
Tick ==
  /\ now < MaxTime
  /\ \A p \in Procs : pending[p] # Free => now + 1 <= pending[p].at + Stall
  /\ now' = now + 1
  /\ UNCHANGED <<buckets, pending, window, spent>>

(* An observer starts to count afresh, at any moment.                      *)
OpenWindow ==
  /\ window' = now
  /\ spent' = [k \in Keys |-> 0]
  /\ UNCHANGED <<now, buckets, pending>>

--------------------------------------------------------------------------------
Init ==
  /\ now = 0
  /\ buckets = << >>
  /\ pending = [p \in Procs |-> Free]
  /\ window = 0
  /\ spent = [k \in Keys |-> 0]

Next ==
  \/ \E p \in Procs : ReadClock(p)
  \/ \E p \in Procs : AllowNew(p)
  \/ \E p \in Procs : AllowKnown(p)
  \/ \E p \in Procs : Deny(p)
  \/ Tick
  \/ OpenWindow

Spec == Init /\ [][Next]_vars

--------------------------------------------------------------------------------
TypeOK ==
  /\ now \in Nat
  /\ DOMAIN buckets \subseteq Keys
  /\ buckets \in [DOMAIN buckets -> Bucket]
  /\ pending \in [Procs -> Waiting]
  /\ window \in 0 .. now
  /\ spent \in [Keys -> Nat]

(* What a rate limiter is for: in any window of time, whichever calls it   *)
(* is counted over and however their clock readings were reordered, a key  *)
(* is admitted for no more than a burst and what the window has earned,    *)
(* plus what a stalled call may have earned before it                      *)
(* (rate_limiter.go:41-81, the dropping of idle buckets included).         *)
WindowBound ==
  \A k \in Keys : spent[k] <= Burst + (now - window) + Stall

(* What WindowBound rests on, clause by clause.                            *)

(* A clock reading is no older than the stall allows.                      *)
FreshReadings ==
  \A p \in Procs : pending[p] # Free =>
    /\ pending[p].at <= now
    /\ now <= pending[p].at + Stall

(* So is the one a bucket holds, from when it was last used; and a bucket  *)
(* owes no more than time, up to that moment, could earn.                  *)
FreshBuckets ==
  \A k \in DOMAIN buckets :
    /\ buckets[k].used <= now
    /\ buckets[k].last <= buckets[k].used
    /\ buckets[k].used <= buckets[k].last + Stall
    /\ buckets[k].last - buckets[k].tokens <= buckets[k].used

(* What a bucket holds and what it has granted add up to a burst and the   *)
(* time since the window opened, as the bucket's own clock tells it.       *)
Conserved ==
  \A k \in DOMAIN buckets :
    spent[k] = 0
    \/ spent[k] + buckets[k].tokens <= Burst + buckets[k].last - (window - Stall)

(* A key without a bucket, if it was admitted in this window at all, has   *)
(* been idle for so long that the window has earned all of it.             *)
ForgottenIsEarned ==
  \A k \in Keys \ DOMAIN buckets : spent[k] = 0 \/ spent[k] <= now - window

IInv == TypeOK /\ FreshReadings /\ FreshBuckets /\ Conserved /\ ForgottenIsEarned
================================================================================
