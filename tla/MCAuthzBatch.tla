------------------------------ MODULE MCAuthzBatch ------------------------------
(***************************************************************************)
(* Model-checking values for AuthzBatch: two concurrent requests and two   *)
(* questions, which compete for the one entry of the cache.  Only the      *)
(* first has a policy and grants that change.  It is a read, the other an  *)
(* edit, so that a viewer has a role for the one and an editor for both.   *)
(***************************************************************************)
EXTENDS AuthzBatch, TLC

CONSTANTS p1, p2, q1, q2, hub, aihub

McProcs == {p1, p2}
McQuestions == {q1, q2}
McVolatile == {q1}
McBatches == {<<q1, q2>>}
McApps == {hub, aihub}
McAbout ==
  [q \in McQuestions |->
     IF q = q1 THEN [app |-> hub, object |-> hub, action |-> "read"]
     ELSE [app |-> "none", object |-> "none", action |-> "edit"]]
McRoleSets ==
  {{}, {[of |-> hub, rank |-> "viewer"]}, {[of |-> "app", rank |-> "editor"]},
   {[of |-> aihub, rank |-> "reader"]}}
McSymmetry == Permutations(McProcs)
================================================================================
