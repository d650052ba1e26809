SPECIFICATION Spec
CONSTANTS
  small = small
  large = large
  MaxIndex = 3
  MaxTerm = 2
  MaxCache = 5
  Payload <- MCOnePayload
  Size <- MCOneSize
  Nodes <- MCOneNode
  PeerConfigs <- MCOnePeer
  Rewrites = TRUE
  NoEntry = NoEntry
  NoLimit = NoLimit
PROPERTY RestartAddsNothing
