----------------------------- MODULE MCPacketID -----------------------------
EXTENDS PacketID, TLC

Symmetry == Permutations(Worker)
=============================================================================
