SPECIFICATION Spec
CONSTANTS
  x = x
  y = y
  z = z
  Targets = {x, y, z}
  Requests = {r1, r2}
  None = none
  Configs <- MCConfigs
  Failures <- MCFailures
  Cooldowns = {1}
  MaxNow = 1
  MaxCommands = 1
SYMMETRY Symmetry
CHECK_DEADLOCK FALSE
INVARIANTS
  WeightsAreBalanced
  StickyRunIsBounded
  OutcomeIsTheWinners
PROPERTIES
  FailoverSpec
  GivesUpOnlyWhenExhausted
  CancelledLeavesNoTrace
