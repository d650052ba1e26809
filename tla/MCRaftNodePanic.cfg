SPECIFICATION FairSpec
CONSTANTS
  put1 = put1
  put2 = put2
  del = del
  x = x
  v1 = v1
  v2 = v2
  Client <- MCPuts
  Key <- MCKey
  Value <- MCValue
  Command <- MCCommand
  Absent = Absent
  NoClient = NoClient
  Self = 1
  MaxRestarts = 0
  MaxFailures = 0
  MaxIndex = 3
  MaxTerm = 1
  NoEntry = NoEntry
  NoLimit = NoLimit
PROPERTY AcceptedIsAppliedWhileUp
CHECK_DEADLOCK FALSE
