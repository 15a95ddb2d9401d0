----------------------------- MODULE MCCasdoorTokens -----------------------------
(***************************************************************************)
(* Model-checking values for CasdoorTokens.  As in the code, the margin is *)
(* a little short of four timeouts and three pauses; lives are not stated, *)
(* far below the margin, at it, and beyond it.                             *)
(***************************************************************************)
EXTENDS CasdoorTokens, TLC

CONSTANTS p1, p2

McCallers == {p1, p2}
McLifetimes == {0, 1, Margin, Margin + 1}
McHour == Margin + 2
McSymmetry == Permutations(McCallers)
================================================================================
