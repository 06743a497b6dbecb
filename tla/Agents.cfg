SPECIFICATION Spec
CONSTANTS
  agent1 = agent1
  agent2 = agent2
  attr1 = attr1
  attr2 = attr2
  Null = Null
  True = True
  Agent <- TwoAgents
  Conditional <- OneConditional
  Attr <- TwoAttributes
  ErrorSets = 2
  MaxEntries = 2
  MaxOps = 4
CHECK_DEADLOCK FALSE
INVARIANT AgentsInformed
INVARIANT OneWakeup
INVARIANT FaultsNeedDrain
PROPERTY ComesToRest
