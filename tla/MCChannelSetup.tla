--------------------------- MODULE MCChannelSetup ---------------------------
EXTENDS ChannelSetup

Number(high, low) == [high |-> high, low |-> low]

\* Both ends of the 16 bits, the value after them, a negative one, and 2^32.
SomeIds == { Number(0, n) : n \in {0, 65535, 65536, -1} } \union {Number(1, 0)}

\* One that fits 32 bits, and 2^32 + 5 and 2^31, which do not.
SomeLimits == {Number(0, 5), Number(1, 5), Number(1, -(2^30) - 2^30)}

SomeStreamIds == {0, 1, 2}
=============================================================================
