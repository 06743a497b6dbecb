\* Two peers call a third and are called by it, which may have room for one of them only.
SPECIFICATION Spec
CONSTANTS
  peer1 = peer1
  peer2 = peer2
  peer3 = peer3
  Peers <- SomePeers
  Links <- SomeLinks
  Closing <- SomeClosing
  Tables <- SomeTables
  UpdateLimit = 1
  MaxCalls = 3
INVARIANT ReadsDoNotWait
INVARIANT NoCircularWait
PROPERTY CallsReturn
