SPECIFICATION Spec
CONSTANTS
  Accounts = {a, b}
  Processes = {server, other}
  Server = server
  None = None
  Left = Left
  MaxIssued = 3
  MaxMishaps = 1
  Flows <- TwoFlows
SYMMETRY Symmetry
CHECK_DEADLOCK FALSE
INVARIANTS
  RowsAreOwned
  GrantsAreNotReplayed
  ReauthIsDeserved
  PastesStayInTheirLogin
PROPERTIES
  CellsSpec
