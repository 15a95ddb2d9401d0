------------------------------- MODULE AuthzBatch -------------------------------
(***************************************************************************)
(* The routes /authz/check and /authz/batch-check over AuthzCheck: a batch *)
(* makes its checks one after the other, each of them through roles,       *)
(* grants, cache and Casdoor, while the policy and other requests go on.   *)
(* authz.failClosed decides what a check that fails does to a batch.       *)
(***************************************************************************)
EXTENDS AuthzCheck, Sequences

CONSTANTS
  FailClosed,     \* authz.failClosed
  Batches         \* the questions a batch may ask, in their order

ASSUME FailClosedAssumption == FailClosed \in BOOLEAN
ASSUME BatchesAssumption == Batches \subseteq Seq(Questions)

VARIABLE
  request         \* what each goroutine was asked and has found so far

batchVars == <<vars, request>>

Decision == [q : Questions, allow : BOOLEAN, failed : BOOLEAN]

Request == [batch : BOOLEAN, asks : Seq(Questions), out : Seq(Decision)]

NoRequest == [batch |-> FALSE, asks |-> << >>, out |-> << >>]

More(p) == Len(request[p].out) < Len(request[p].asks)
Failed(p) == request[p].out # << >> /\ request[p].out[Len(request[p].out)].failed

(* Definitions named Bad_ are slips of the code that the runs must notice; *)
(* each stands before what it would replace, and nothing uses it.          *)

(* The status of the answer: 403 for a single check that failed, or for a  *)
(* batch that gives up; 200 otherwise, once all is decided.                *)
Bad_GivesUp(p) == Failed(p) /\ ~request[p].batch
GivesUp(p) == Failed(p) /\ (FailClosed \/ ~request[p].batch)
Status(p) == IF GivesUp(p) THEN 403 ELSE 200

--------------------------------------------------------------------------------
(* A request arrives: a single check, or a batch of them.                  *)
Arrive(p) ==
  /\ request[p] = NoRequest
  /\ \/ \E q \in Questions : request' = [request EXCEPT ![p].asks = <<q>>]
     \/ \E qs \in Batches : request' = [request EXCEPT ![p].asks = qs, ![p].batch = TRUE]
  /\ UNCHANGED vars

(* Its next check begins, unless the last one ended the batch.             *)
NextCheck(p) ==
  /\ More(p) /\ ~GivesUp(p)
  /\ Begin(p)
  /\ check'[p].q = request[p].asks[Len(request[p].out) + 1]
  /\ UNCHANGED request

(* A check is decided, and its decision put at the end of the answer.      *)
Decided(p) ==
  /\ Respond(p)
  /\ request' = [request EXCEPT ![p].out =
       Append(@, [q |-> check[p].q, allow |-> check[p].allow,
                  failed |-> check[p].from = "error"])]

(* The answer is given.                                                    *)
Reply(p) ==
  /\ request[p] # NoRequest /\ At(p, "idle")
  /\ GivesUp(p) \/ ~More(p)
  /\ request' = [request EXCEPT ![p] = NoRequest]
  /\ UNCHANGED vars

--------------------------------------------------------------------------------
BatchInit == Init /\ request = [p \in Procs |-> NoRequest]

Work(p) ==
  /\ \/ AskIAM(p)
     \/ CacheRead(p)
     \/ CacheJudge(p)
     \/ CacheDrop(p)
     \/ Enforce(p)
     \/ EnforceFails(p)
     \/ EnforceAnswers(p)
  /\ UNCHANGED request

Change ==
  /\ \/ \E q \in Volatile : ChangePolicy(q) \/ ChangeGrants(q)
     \/ Tick
  /\ UNCHANGED request

BatchNext ==
  \/ \E p \in Procs : Arrive(p) \/ NextCheck(p) \/ Work(p) \/ Decided(p) \/ Reply(p)
  \/ Change

BatchSpec == BatchInit /\ [][BatchNext]_batchVars

--------------------------------------------------------------------------------
(* What the decisions found so far say of the questions, and the question  *)
(* of the check that is at work.                                           *)
RequestOK(p) ==
  LET out == request[p].out
      asks == request[p].asks
  IN /\ Len(out) <= Len(asks)
     /\ \A i \in DOMAIN out : out[i].q = asks[i] /\ ~(out[i].failed /\ out[i].allow)
     /\ FailClosed \/ ~request[p].batch =>
          \A i \in DOMAIN out : out[i].failed => i = Len(out)
     /\ ~At(p, "idle") =>
          More(p) /\ ~GivesUp(p) /\ check[p].q = asks[Len(out) + 1]

(* The inductive invariant, with the types and the size of the cache.      *)
IInv ==
  /\ CheckInv
  /\ request \in [Procs -> Request]
  /\ \A p \in Procs : RequestOK(p)

(* A caller can tell from an answer what was decided and what was not: an  *)
(* answer 200 has a decision for each question, in the order they were     *)
(* asked, and with failClosed each of them was really made; in a 403 all   *)
(* decisions but the last were, and the last, which failed, denies.  No    *)
(* answer allows over a failure                                            *)
(* (service_impl.go:192-204, handler.go:22-89).                            *)
BatchAnswersAll ==
  [][\A p \in Procs :
       LET asks == request[p].asks
           out == request[p].out
       IN request[p] # NoRequest /\ request'[p] = NoRequest =>
            /\ \A i \in DOMAIN out : out[i].q = asks[i] /\ ~(out[i].failed /\ out[i].allow)
            /\ Status(p) = 200 => Len(out) = Len(asks)
            /\ FailClosed =>
                 \A i \in DOMAIN out : out[i].failed = (Status(p) = 403 /\ i = Len(out))]_batchVars
================================================================================
