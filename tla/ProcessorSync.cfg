SPECIFICATION Spec
CONSTANTS
  QueueSize = 4
  LiveEvents = 3
  MaxSends = 4
  MainEmits = {0, 1}
INVARIANT SyncSetBlocksUntilDone
