---------------------------- MODULE MCFenceLease ----------------------------
EXTENDS FenceLease, TLC

CONSTANTS p1, p2
Pods == {p1, p2}
Symmetry == Permutations(Pods)
=============================================================================
