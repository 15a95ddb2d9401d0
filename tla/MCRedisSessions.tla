------------------------------ MODULE MCRedisSessions ------------------------------
(***************************************************************************)
(* Model-checking values for RedisSessions: two sessions of one subject,   *)
(* two requests and two revocations, of which no more than MaxBusy are     *)
(* under way at once.                                                      *)
(***************************************************************************)
EXTENDS RedisSessions, TLC

CONSTANTS p1, p2, i1, i2, s1, r1, r2, MaxBusy

McProcs == {p1, p2}
McIds == {i1, i2}
McRevokers == {r1, r2}
McSubjects == {s1}
McSubjectOf == [id \in McIds |-> s1]
McSliding == {TRUE}
McSymmetry == Permutations(McProcs) \cup Permutations(McIds) \cup Permutations(McRevokers)

FewAtOnce ==
  Cardinality({p \in Procs : ~At(p, "idle")}) + Cardinality({r \in Revokers : Revoking(r)})
    <= MaxBusy
================================================================================
