SPECIFICATION FairSpec
CONSTANTS
  Node <- MCNode
  Msg <- MCMsg
  Peers <- MCPeers
  MaxFrame = 1
  TcpBuffer = 1
  MaxBatch = 4
  MaxFaults = 1
  NoConn = NoConn
INVARIANTS TypeOK FifoWithoutFault FramesAligned
PROPERTIES IsLossyChannel DeliveredUnlessExcused SendingEnds
CHECK_DEADLOCK FALSE
