\* Two accounts, two threads and two requests at a time, three in all.
SPECIFICATION Spec
CONSTANTS
  Pool = {a, b}
  Main = main
  None = none
  Threads = {t, u}
  Slots = {r1, r2}
  MaxUsage = 2
  AutoSwitchThreshold = 1
  UpstreamFailoverThreshold = 2
  Cooldowns = {2}
  FailureWindow = 1
  IdleTTL = 1
  ReevalInterval = 1
  MaxAffinities = 1
  MaxRequests = 3
  MaxEvents = 2
SYMMETRY Symmetry
CHECK_DEADLOCK FALSE
INVARIANTS
  NoBindingToCooledAccount
  BindingsAreOwned
PROPERTIES
  ResolveServesFromPool
  ThreadsMoveForCause
  CooldownSurvivesOtherOutcomes
