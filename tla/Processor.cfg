SPECIFICATION Spec
CONSTANTS
  QueueSize = 4
  LiveEvents = 3
  MaxSends = 5
  MainEmits = {0, 1}
INVARIANT NoEventLost
INVARIANT SyncSetInNotifyPhase
INVARIANT NestingInv
PROPERTY DependenciesBeforeSets
PROPERTY ImplementsQueues
