SPECIFICATION Spec
CONSTANTS
  small = small
  large = large
  MaxIndex = 3
  MaxTerm = 2
  MaxCache = 3
  Payload <- MCPayload
  Size <- MCSize
  Nodes <- MCNodes
  PeerConfigs <- MCPeerConfigs
  Rewrites = FALSE
  NoEntry = NoEntry
  NoLimit = NoLimit
INVARIANTS TypeOK CacheIsLog QueriesAnswerLog DiskHoldsLog DiskHasNoHole CommitWithinDisk
PROPERTIES RestartKeepsAppends RestartAddsNothingWithoutConflict VotersPermanent
