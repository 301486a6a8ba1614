---------------------------- MODULE MCMobileSync ----------------------------
EXTENDS MobileSync, TLC

\* Members change either task in the same way.
Symmetry == Permutations(Tasks)
=============================================================================
