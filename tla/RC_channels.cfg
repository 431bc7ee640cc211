SPECIFICATION ReceivedFairSpec
CONSTANTS
  Threads = {t1, t2}
  Main = main
  MaxSessions = 2
  MaxEvents = 2
  MaxDepth = 2
CHECK_DEADLOCK FALSE
INVARIANT DroppedOnlyIfEnded
PROPERTIES ClosedWithoutMutex ChannelSettled
