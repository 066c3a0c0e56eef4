CONSTANTS
  a1 = a1  a2 = a2  x1 = x1  x2 = x2  net = net
  Addresses <- TwoAddresses
  Patterns <- ThreePatterns
  Covers <- CoversEach
  Durations = {0, 1, 2}
  Wrap = 3
  MaxTime = 4
  Forever = Forever
  NoSender = NoSender
SPECIFICATION Spec
INVARIANTS
  BansExact
PROPERTIES
  RefusedOnlyIfBanned
  EvadesOnlyWhereBlind
  DataLostOnlyByStaleVerdict
  OfflineMissedOnlyWhereBlind
