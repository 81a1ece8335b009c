SPECIFICATION Spec
CONSTANTS
  c1 = c1
  c2 = c2
  c3 = c3
  here = here
  there = there
  NumAccounts = 2
  Processes = {here, there}
  Calls = {c1, c2, c3}
  processOf <- TwoProcesses
  None = none
  MaxIssued = 4
  MaxCommands = 1
CHECK_DEADLOCK FALSE
INVARIANTS
  OneExchangePerGrant
