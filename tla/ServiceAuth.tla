------------------------------- MODULE ServiceAuth ------------------------------
(***************************************************************************)
(* requireServiceToken of internal/server, in front of all internal routes *)
(* but one and of the introspection of sessions: every call first takes a  *)
(* token of the bucket of whoever makes it (RateLimiter), then has its     *)
(* credential compared with the configured one.                            *)
(*                                                                         *)
(* A credential stands for what is in the service-token header or, if that *)
(* is empty, after Bearer, and for its hash.                               *)
(***************************************************************************)
EXTENDS RateLimiter

CONSTANTS
  Addresses,      \* client IPs
  Credentials,    \* what callers present
  NoCredential,   \* what one presents that presents nothing
  Expected,       \* internal.serviceToken
  Required        \* whether there is one to compare with; what validate of
                  \* Configuration accepts rules out the answer 503

ASSUME CredentialsAssumption == NoCredential \notin Credentials /\ Expected \in Credentials
ASSUME AddressesAssumption == NoKey \notin Addresses
ASSUME RequiredAssumption == Required \in BOOLEAN

VARIABLES
  caller,         \* whose call each goroutine serves
  polite,         \* history: whether every call with the expected credential
                  \* came a while after the one before it
  lastCall        \* history: when the last of them came, if polite

authVars == <<vars, caller, polite, lastCall>>

Caller == [ip : Addresses, credential : Credentials \cup {NoCredential}]
Nobody == [ip |-> NoKey, credential |-> NoCredential]

(* The bucket a call is counted against.                                   *)
Bad_rateKey(ip, credential) == <<"missing-token", ip>>

rateKey(ip, credential) ==
  IF ~Required THEN <<"ip", ip>>
  ELSE IF credential = NoCredential THEN <<"missing-token", ip>>
  ELSE <<"token", credential>>

ASSUME KeysAssumption ==
  \A ip \in Addresses, c \in Credentials \cup {NoCredential} : rateKey(ip, c) \in Keys

(* How far apart the calls of a polite caller are: as long as one costs,   *)
(* and longer than one of them can be held up by the mutex.                *)
Apart == IF Cost > Stall THEN Cost ELSE Stall + 1

--------------------------------------------------------------------------------
Arrive(p) ==
  /\ caller[p] = Nobody
  /\ \E c \in Caller :
       /\ ReadClock(p)
       /\ pending'[p].key = rateKey(c.ip, c.credential)
       /\ caller' = [caller EXCEPT ![p] = c]
       /\ IF c.credential = Expected
          THEN LET keeps == lastCall = -1 \/ now >= lastCall + Apart
               IN /\ polite' = (polite /\ keeps)
                  /\ lastCall' = IF polite' THEN now ELSE -1
          ELSE UNCHANGED <<polite, lastCall>>

Leave(p) == caller' = [caller EXCEPT ![p] = Nobody] /\ UNCHANGED <<polite, lastCall>>

(* 429                                                                     *)
RateLimited(p) == Deny(p) /\ Leave(p)

Admitted(p) == AllowNew(p) \/ AllowKnown(p)

(* 401, and the way to the handler.                                        *)
Unauthorized(p) ==
  /\ Required /\ caller[p].credential # Expected
  /\ Admitted(p)
  /\ Leave(p)

Pass(p) ==
  /\ Required => caller[p].credential = Expected
  /\ Admitted(p)
  /\ Leave(p)

--------------------------------------------------------------------------------
AuthInit ==
  /\ Init
  /\ caller = [p \in Procs |-> Nobody]
  /\ polite = TRUE /\ lastCall = -1

AuthNext ==
  \/ \E p \in Procs : Arrive(p) \/ RateLimited(p) \/ Unauthorized(p) \/ Pass(p)
  \/ (Tick \/ OpenWindow) /\ UNCHANGED <<caller, polite, lastCall>>

AuthSpec == AuthInit /\ [][AuthNext]_authVars

--------------------------------------------------------------------------------
(* A service that calls at a polite rate is never told it calls too often, *)
(* whatever others do, from its address or elsewhere, with wrong           *)
(* credentials or none (service_auth.go:44-55, 83-88,                      *)
(* rate_limiter.go:41-81).                                                 *)
PoliteIsServed ==
  Required /\ polite =>
    \A p \in Procs :
      LET k == pending[p].key
      IN caller[p].credential = Expected /\ k \in DOMAIN buckets
           => Refilled(k, pending[p].at) >= Cost

(* What it rests on: each goroutine waits with the key of its caller, and  *)
(* the bucket of a polite caller is never overdrawn, and was last used     *)
(* long enough before the one call of its that may be under way.           *)
PoliteKey == <<"token", Expected>>
Expecting(p) == caller[p].credential = Expected

CallersHaveKeys ==
  /\ caller \in [Procs -> Caller \cup {Nobody}]
  /\ polite \in BOOLEAN /\ lastCall \in Nat \cup {-1}
  /\ \A p \in Procs :
       IF caller[p] = Nobody THEN pending[p] = Free
       ELSE pending[p].key = rateKey(caller[p].ip, caller[p].credential)

PoliteIsReady ==
  Required /\ polite =>
    /\ \A p \in Procs : Expecting(p) =>
         /\ pending[p].at = lastCall
         /\ \A q \in Procs \ {p} : ~Expecting(q)
    /\ PoliteKey \in DOMAIN buckets =>
         /\ buckets[PoliteKey].tokens >= 0
         /\ buckets[PoliteKey].last <= lastCall
         /\ \A p \in Procs : Expecting(p) => buckets[PoliteKey].last + Cost <= lastCall

AuthInv == IInv /\ CallersHaveKeys /\ PoliteIsReady
================================================================================
