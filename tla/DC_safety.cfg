SPECIFICATION Spec
CONSTANTS
  Threads = {t1, t2}
  Main = main
  Payloads = {a, b}
  NoPacket = none
  MaxMessages = 3
  SerialNotify = FALSE
SYMMETRY Symmetry
CHECK_DEADLOCK FALSE
INVARIANTS TypeOK CountHonest PromiseKept NoUseAfterFree ReportedStateTrue CloseReported
PROPERTIES SilentAfterClose ImplementsPipe
