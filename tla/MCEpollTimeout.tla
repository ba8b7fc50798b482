---------------------------- MODULE MCEpollTimeout ----------------------------
EXTENDS EpollTimeout, TLC

Symmetry == Permutations(Alarms)

\* None, returning at once, less than a millisecond, and more than two.
MCTimeouts == {-1, 0, 1, 5}

=============================================================================
