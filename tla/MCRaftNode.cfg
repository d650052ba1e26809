SPECIFICATION FairSpec
CONSTANTS
  put1 = put1
  put2 = put2
  del = del
  x = x
  v1 = v1
  v2 = v2
  Client <- MCPutDelete
  Key <- MCKey
  Value <- MCValue
  Command <- MCCommand
  Absent = Absent
  NoClient = NoClient
  Self = 1
  MaxRestarts = 2
  MaxFailures = 1
  MaxIndex = 5
  MaxTerm = 3
  NoEntry = NoEntry
  NoLimit = NoLimit
INVARIANTS TypeOK CommittedIsOnDisk ApplyFollowsLog StoreFollowsLog PendingMatchesWaiters AckedWriteStored
PROPERTIES AdapterUsedCorrectly DiskLogAppendOnly RequestsEnd AcceptedIsApplied
CHECK_DEADLOCK FALSE
