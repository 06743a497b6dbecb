SPECIFICATION SlowSpec
CONSTANTS
  x = x
  y = y
  z = z
  p1 = p1
  p2 = p2
  Slot <- OneSlot
  Hash <- Alone
  Chains = 1
  Width = 2
  Reader <- OneReader
  Reads <- ReadsX
  MainReads <- NothingRead
  LoopLimit = 2
  MaxChanges <- OneChange
INVARIANT ReadersAgree
