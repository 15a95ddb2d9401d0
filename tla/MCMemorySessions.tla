---------------------------- MODULE MCMemorySessions ----------------------------
(***************************************************************************)
(* Model-checking values for MemorySessions: two sessions of two subjects. *)
(***************************************************************************)
EXTENDS MemorySessions, TLC

CONSTANTS p1, p2, i1, i2, s1, s2

McProcs == {p1, p2}
McIds == {i1, i2}
McSubjects == {s1, s2}
McSubjectOf == (i1 :> s1) @@ (i2 :> s2)
McSlidings == {FALSE, TRUE}
McSliding == {TRUE}
================================================================================
