SPECIFICATION Spec
CONSTANTS
  c1 = c1
  c2 = c2
  c3 = c3
  here = here
  there = there
  NumAccounts = 2
  Processes = {here}
  Calls = {c1, c2, c3}
  processOf <- OneProcess
  None = none
  MaxIssued = 4
  MaxCommands = 2
SYMMETRY Symmetry
CHECK_DEADLOCK FALSE
INVARIANTS
  OneExchangePerGrant
  LeftoverLocksAreReclaimed
PROPERTIES
  LateRefreshLoses
  JoinersShareTheExchange
  AnswersMatchTheStore
