--------------------------- MODULE MCPacketRouting ---------------------------
EXTENDS PacketRouting, TLC

CONSTANTS v1, v2

MCVersions == <<v1, v2>>
Symmetry == Permutations(ConnectionIds)

=============================================================================
