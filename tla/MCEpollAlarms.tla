--------------------------- MODULE MCEpollAlarms ---------------------------
(* Small instances of EpollAlarms. *)
EXTENDS EpollAlarms, TLC

Symmetry == Permutations(Nodes) \cup Permutations(QuicAlarms)

=============================================================================
