--------------------------- MODULE MCModelBinding ---------------------------
\* Two model sources, which nothing tells apart but their identity.
EXTENDS ModelBinding, TLC

CONSTANTS m1, m2

Symmetry == Permutations(Sources)
=============================================================================
