SPECIFICATION Spec
CONSTANTS
  Turns <- MCTurns
  None = None
  MaxStored = 2
  TTL = 0
  EntryMax = 1
  TotalMax = 1
  MaxLive = 2
  MaxNow = 1
  Kinds <- BothKinds
CHECK_DEADLOCK FALSE
INVARIANTS
  SnapshotIsCurrent
  NativeReplaysAreWhole
  LogIsWhatTheClientSaw
  OverTurnsAreLogged
PROPERTIES
  CacheSpec
  StreamsAreReleased
