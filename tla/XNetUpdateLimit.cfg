\* A nested update that gives up leaves the outer one with what it has read.
SPECIFICATION Spec
CONSTANTS
  peer1 = peer1
  peer2 = peer2
  peer3 = peer3
  Peers <- SomePeers
  Links <- SomeLinks
  Closing <- SomeClosing
  Tables <- SomeTables
  UpdateLimit = 1
  MaxCalls = 3
INVARIANT ReadsNeverWait
CHECK_DEADLOCK FALSE
