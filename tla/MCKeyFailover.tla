--------------------------- MODULE MCKeyFailover ---------------------------
EXTENDS KeyFailover, TLC

CONSTANTS k1, k2, k3

MCPools == {<<>>, <<k1, k2>>, <<k1, k2, k3>>}

Symmetry == Permutations(Requests)

=============================================================================
