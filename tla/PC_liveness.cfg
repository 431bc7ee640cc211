SPECIFICATION FairSpec
CONSTANTS
  Threads = {t1, t2}
  Main = main
  MaxSessions = 2
  MaxEvents = 3
  MaxDepth = 2
CHECK_DEADLOCK FALSE
PROPERTIES PollReturns SignalsReachScript
