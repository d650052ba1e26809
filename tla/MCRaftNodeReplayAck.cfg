SPECIFICATION Spec
CONSTANTS
  put1 = put1
  put2 = put2
  del = del
  x = x
  v1 = v1
  v2 = v2
  Client <- MCPuts
  Key <- MCKey
  Value <- MCValue
  Command <- MCCommand
  Absent = Absent
  NoClient = NoClient
  Self = 1
  MaxRestarts = 1
  MaxFailures = 0
  MaxIndex = 4
  MaxTerm = 2
  NoEntry = NoEntry
  NoLimit = NoLimit
INVARIANT EveryAckedWriteStored
CHECK_DEADLOCK FALSE
