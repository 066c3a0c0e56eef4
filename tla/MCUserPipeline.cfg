CONSTANTS
  failed = failed
  rejected = rejected
  Ids <- MCIds
  Cap = 2
  MaxCommands = 1
  MaxConnects = 1
  MaxRaised = 2
SPECIFICATION FairSpec
INVARIANTS
  PacketDeadlockNeedsBurst
  MisreadOnlyIfOvertaken
  CommandsKeptUnlessOverlapped
PROPERTIES
  UserCallsReturn
CHECK_DEADLOCK FALSE
