CONSTANTS
  user = user
  network = network
  receiver = receiver
  NoThread = NoThread
  Threads <- MCThreads
  CountMod = 16
  MaxDepth = 3
SPECIFICATION MutexSpec
INVARIANTS
  MutualExclusion
  NoSelfDeadlock
