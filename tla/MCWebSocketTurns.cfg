SPECIFICATION FairSpec
CONSTANTS
  Sockets = {w1, w2}
  Accounts = {a}
  None = None
  MaxTurns = 2
  MaxBegun = 2
INVARIANTS
  OldTurnsAreStopped
  OutcomesAreDelivered
  StopLeavesNoTurn
PROPERTIES
  NothingFollowsTheEnd
  StoppedTurnsEnd
CHECK_DEADLOCK FALSE
