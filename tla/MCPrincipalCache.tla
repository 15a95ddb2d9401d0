----------------------------- MODULE MCPrincipalCache -----------------------------
(***************************************************************************)
(* Model-checking values for PrincipalCache.                               *)
(***************************************************************************)
EXTENDS PrincipalCache, TLC

CONSTANTS p1, p2, s1

McProcs == {p1, p2}
McIds == {s1}
McSymmetry == Permutations(McProcs)
================================================================================
