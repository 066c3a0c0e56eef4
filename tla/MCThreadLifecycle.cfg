CONSTANTS
  NSockets = 2
  Cap = 1
  MaxInbox = 1
  MaxStarts = 2
SPECIFICATION FairSpec
INVARIANTS
  StoppedThreadsAreGone
  ActiveMeansRunning
  SocketsFreedOnce
PROPERTIES
  StartupReturnsUnlessUnbindable
  StoppedThreadsEnd
  PushReturnsUnlessNetworkStops
CHECK_DEADLOCK FALSE
