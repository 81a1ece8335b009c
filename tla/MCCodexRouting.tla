--------------------------- MODULE MCCodexRouting ---------------------------
EXTENDS CodexRouting, TLC

Symmetry == Permutations(Pool) \union Permutations(Threads) \union Permutations(Slots)

=============================================================================
