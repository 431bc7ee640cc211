---------------------------- MODULE MCIceServers ----------------------------
EXTENDS IceServers, TLC

Symmetry == Permutations(Urls)
=============================================================================
