SPECIFICATION FairSpec
CONSTANTS
  c1 = c1
  c2 = c2
  c3 = c3
  here = here
  there = there
  NumAccounts = 1
  Processes = {here, there}
  Calls = {c1, c2, c3}
  processOf <- TwoProcesses
  None = none
  MaxIssued = 2
  MaxCommands = 1
CHECK_DEADLOCK FALSE
PROPERTIES
  EveryCallEnds
