SPECIFICATION Spec
CONSTANTS
  Threads = {t1, t2}
  Main = main
  MaxSessions = 3
  MaxEvents = 3
  MaxDepth = 2
SYMMETRY Symmetry
CHECK_DEADLOCK FALSE
INVARIANTS SessionIsolation AtMostOnce SignalsKept SignalsInOrder
PROPERTIES NoStaleSignal ImplementsLine
