------------------------- MODULE MCSessionResources -------------------------
EXTENDS SessionResources, TLC

CONSTANTS u1, u2

CallerSymmetry == Permutations(Callers)
=============================================================================
