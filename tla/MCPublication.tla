---------------------------- MODULE MCPublication ----------------------------
EXTENDS Publication, TLC

CONSTANTS a1, a2, m1, m2, k1, o1, o2, g1

Symmetry == Permutations(Operators)
=============================================================================
