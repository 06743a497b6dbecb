\* Objects are created and peers announce themselves, up to a full table of handlers.
SPECIFICATION Spec
CONSTANTS
  W = 110
  Base <- Here
  Peers <- SomePeers
  MaxHandlers = 10
  MaxConnections = 2
  None = None
  AgentsTop = 109
  DirectoryTop = 109
  CacheTop = 31
  MaxCreated = 111
  MaxLocals = 3
INVARIANT CreatedAreRouted
INVARIANT PeersAreRouted
PROPERTY RoutesAreStable
CHECK_DEADLOCK FALSE
