SPECIFICATION Spec
CONSTANTS
  x = x
  y = y
  z = z
  p1 = p1
  p2 = p2
  Slot <- TwoSlots
  Hash <- Together
  Chains = 1
  Width = 2
  Reader <- BothReaders
  Reads <- ReadsXY
  MainReads <- NothingRead
  LoopLimit = 2
  MaxChanges <- OneEach
INVARIANT CacheAgrees
