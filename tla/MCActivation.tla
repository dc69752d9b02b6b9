---------------------------- MODULE MCActivation ----------------------------
(* Instance of Activation for TLC: two invocations.                         *)
EXTENDS Activation, TLC

CONSTANTS a1, a2
Activators == {a1, a2}
Interchangeable == Permutations(Activators)
=============================================================================
