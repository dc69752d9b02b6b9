---------------------------- MODULE MCUc5Ceremony ---------------------------
(* Instance of Uc5Ceremony for TLC: ceremonies are interchangeable.          *)
EXTENDS Uc5Ceremony, TLC

Interchangeable == Permutations(Ceremony)
=============================================================================
