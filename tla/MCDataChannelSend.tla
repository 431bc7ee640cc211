------------------------- MODULE MCDataChannelSend -------------------------
EXTENDS DataChannelSend, TLC

\* An empty packet, one with a NUL inside and one without.
SomeBuffers == { <<>>, <<1, 0, 2>>, <<1, 2>> }
=============================================================================
