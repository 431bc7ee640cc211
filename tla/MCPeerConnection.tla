-------------------------- MODULE MCPeerConnection --------------------------
EXTENDS PeerConnection, TLC

Symmetry == Permutations(Threads)
=============================================================================
