\* A peer that connects to a full table keeps all the calls of the other from returning.
SPECIFICATION Spec
CONSTANTS
  peer1 = peer1
  peer2 = peer2
  peer3 = peer3
  Peers <- SomePeers
  Links <- SomeLinks
  Closing = {}
  Tables <- SomeTables
  UpdateLimit = 100
  MaxCalls = 1
PROPERTY CallsAlwaysReturn
CHECK_DEADLOCK FALSE
