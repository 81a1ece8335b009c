SPECIFICATION Spec
CONSTANTS
  k1 = k1
  k2 = k2
  k3 = k3
  Keys = {k1, k2, k3}
  EnvKeys = {k2}
  None = none
  Pools <- MCPools
  Requests = {r1, r2}
  Cooldowns = {1}
  MaxNow = 1
  MaxCommands = 2
SYMMETRY Symmetry
CHECK_DEADLOCK FALSE
PROPERTIES
  LiveKeyStaysPooled
  HealthyLiveKeyIsKept
  RefusedOnlyWhenAllCooled
