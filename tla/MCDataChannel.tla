--------------------------- MODULE MCDataChannel ---------------------------
EXTENDS DataChannel, TLC

Symmetry == Permutations(Threads) \union Permutations(Payloads)
=============================================================================
