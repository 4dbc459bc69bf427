------------------------- MODULE MCConnectionHandler -------------------------
EXTENDS ConnectionHandlerProps, TLC

Symmetry == Permutations(Conn) \cup Permutations(Client)

AllMishaps == Mishap
=============================================================================
