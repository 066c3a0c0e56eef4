CONSTANTS
  a1 = a1  a2 = a2
  Peers <- TwoAddrs
  Addrs <- TwoAddrs
  NoAddr = NoAddr
  Attempts = 0
  NPlugins = 0
  CountMod = 4
  MaxCalls = 3
  MaxCancels = 1
SPECIFICATION FairSpec
INVARIANTS
  OneRequestPerAddress
PROPERTIES
  RequestsLeaveUnlessLocked
  ConnectReturnsUnlessKept
CHECK_DEADLOCK FALSE
