\* Two connections with caches; the first gets the notifications of both.
SPECIFICATION Spec
CONSTANTS
  W = 110
  Base <- Here
  Peers <- OtherPeers
  MaxHandlers = 20
  MaxConnections = 2
  None = None
  AgentsTop = 109
  DirectoryTop = 109
  CacheTop = 31
  MaxCreated = 1
  MaxLocals = 3
INVARIANT CachesAreNotified
CHECK_DEADLOCK FALSE
