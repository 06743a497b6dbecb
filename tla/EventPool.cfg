SPECIFICATION PoolSpec
CONSTANTS
  PoolSize = 4
  Holder = {h1, h2, h3, h4}
  None = None
INVARIANT PoolTypeOK
INVARIANT NoAliasUntilOverflow
INVARIANT NoneLost
