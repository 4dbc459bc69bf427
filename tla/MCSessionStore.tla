--------------------------- MODULE MCSessionStore ---------------------------
EXTENDS SessionStoreProps, TLC

Symmetry == Permutations(Conn) \cup Permutations(Client) \cup Permutations(Topic)
=============================================================================
