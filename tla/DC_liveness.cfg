SPECIFICATION FairSpec
CONSTANTS
  Threads = {t1}
  Main = main
  Payloads = {a}
  NoPacket = none
  MaxMessages = 2
  SerialNotify = TRUE
CHECK_DEADLOCK FALSE
PROPERTIES ClosedIsFinal CloseReturns RemoteCloseReported PacketsReachScript
