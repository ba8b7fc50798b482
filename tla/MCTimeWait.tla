----------------------------- MODULE MCTimeWait -----------------------------
(* Small instances of QuicTimeWaitListManager. *)
EXTENDS QuicTimeWaitListManager, TLC

Symmetry == Permutations(ConnectionIds)

=============================================================================
