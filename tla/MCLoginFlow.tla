------------------------------- MODULE MCLoginFlow -------------------------------
(***************************************************************************)
(* Model-checking values for LoginFlow: two logins, two codes (which one   *)
(* login may both have drawn), two concurrent callbacks.                   *)
(***************************************************************************)
EXTENDS LoginFlow, TLC

CONSTANTS p1, p2, st1, st2, c1, c2

McProcs == {p1, p2}
McStates == {st1, st2}
McCodes == {c1, c2}
McProviders == {"memory", "redis"}
================================================================================
