-------------------------- MODULE MCObjectLifetimes --------------------------
EXTENDS ObjectLifetimes, TLC

Symmetry == Permutations(Sessions)

=============================================================================
