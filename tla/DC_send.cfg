SPECIFICATION SendSpec
CONSTANTS
  Threads = {t1}
  Main = main
  Payloads = {a}
  NoPacket = none
  MaxMessages = 1
  SerialNotify = FALSE
  Buffers <- SomeBuffers
  NoBuffer = nobuffer
  MaxPuts = 2
CHECK_DEADLOCK FALSE
INVARIANT AcceptedIsSent
PROPERTY NoneAcceptedAfterClosed
