\* A connection that is closed keeps the call that waits for it from returning.
SPECIFICATION Spec
CONSTANTS
  peer1 = peer1
  peer2 = peer2
  peer3 = peer3
  Peers <- SomePeers
  Links <- SomeLinks
  Closing <- SomeClosing
  Tables <- LargeTables
  UpdateLimit = 1
  MaxCalls = 1
PROPERTY CallsAlwaysReturn
CHECK_DEADLOCK FALSE
