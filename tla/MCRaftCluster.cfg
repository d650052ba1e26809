CONSTANTS
  n1 = n1
  n2 = n2
  n3 = n3
  c1 = c1
  c2 = c2
  Node = {n1, n2, n3}
  Client = {c1, c2}
  NoNode = NoNode
  NoClient = NoClient
  MaxCampaigns = 2
  MaxIndex = 3
  MaxFaults = 1
  MaxTransit = 1
  NoEntry = NoEntry
  NoLimit = NoLimit
SPECIFICATION Spec
SYMMETRY Symmetry
CONSTRAINT WithinBudget
CHECK_DEADLOCK FALSE
INVARIANTS TypeOK ElectionSafety CommittedOnMajorityUnlessMixed NewestLeaderHasCommitted CommitWithinDisk AppliedFollowsLog
PROPERTIES VoteKept AckedOwnEntry
