\* The array of keys is replaced while an iteration points into it.
SPECIFICATION FairSpec
CONSTANTS
  o1 = o1
  o2 = o2
  Obj = {o1, o2}
  Elements = 2
  Parent = Parent
  Value = {v1, v2}
  Null = Null
  Garbage = Garbage
  MaxBuffers = 3
  InitCap = 2
  Inc = 1
  Settable <- SetSlots
  Definable <- Definitions
  MaxOps = 5
INVARIANT PointersStayValid
CHECK_DEADLOCK FALSE
