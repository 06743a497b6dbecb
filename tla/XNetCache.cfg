SPECIFICATION FairSpec
CONSTANTS
  x = x
  y = y
  z = z
  p1 = p1
  p2 = p2
  Slot <- ThreeSlots
  Hash <- Shared
  Chains = 2
  Width = 2
  Reader <- OneReader
  Reads <- ReadsZ
  MainReads <- ReadByMain
  LoopLimit = 2
  MaxChanges <- OneTwoThree
INVARIANT StaleIsNotified
INVARIANT HandlesNameEntries
INVARIANT AnswersAreFresh
PROPERTY GetsReturn
