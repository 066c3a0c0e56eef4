CONSTANTS
  a1 = a1  a2 = a2  a3 = a3  a4 = a4
  g1 = g1
  Addrs <- MCAddrs
  Guids <- MCGuids
  NullAddr = NullAddr
  NullGuid = NullGuid
  maxConnections = 3
  Buckets <- MCBuckets
  Hash <- MCHash
  MaxBadAnswers = 1
SPECIFICATION Spec
INVARIANTS
  TableExact
  IncomingGuidsUnique
PROPERTIES
  ReplyRepeated
  ImplementsRegistry
SYMMETRY Symmetry
