\* A peer announces itself twice; its objects stay with the first handler.
SPECIFICATION Spec
CONSTANTS
  W = 110
  Base <- Here
  Peers <- OtherPeers
  MaxHandlers = 20
  MaxConnections = 2
  None = None
  AgentsTop = 109
  DirectoryTop = 109
  CacheTop = 31
  MaxCreated = 1
  MaxLocals = 3
INVARIANT EveryPeerIsRouted
CHECK_DEADLOCK FALSE
