SPECIFICATION Spec
CONSTANTS
  Accounts = {a}
  Processes = {server}
  Server = server
  None = None
  Left = Left
  MaxIssued = 1
  MaxMishaps = 0
  Flows <- OneFlow
CHECK_DEADLOCK FALSE
PROPERTIES CancelledLoginsEnd
