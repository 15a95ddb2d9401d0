------------------------------ MODULE MCServiceAuth ------------------------------
(***************************************************************************)
(* Model-checking values for ServiceAuth: two goroutines, one address from *)
(* which the service with the expected credential and one without call,    *)
(* and a limit of one bucket, so that calls of the one drop the other's.   *)
(***************************************************************************)
EXTENDS ServiceAuth, TLC

CONSTANTS p1, p2, here, good

McProcs == {p1, p2}
McAddresses == {here}
McCredentials == {good}
McKeys == {<<"token", good>>, <<"missing-token", here>>}
McSymmetry == Permutations(McProcs)
================================================================================
