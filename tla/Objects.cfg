\* Loops, ranges and evaluations over two objects, with a table of three buffers.
SPECIFICATION FairSpec
CONSTANTS
  o1 = o1
  o2 = o2
  Obj = {o1, o2}
  Elements = 2
  Parent = Parent
  Value = {v1, v2}
  Null = Null
  Garbage = Garbage
  MaxBuffers = 3
  InitCap = 2
  Inc = 1
  Settable <- SetSlots
  Definable <- Definitions
  MaxOps = 5
INVARIANT BuffersAreHeld
INVARIANT FaultsNeedFullTable
INVARIANT IterationFaithful
INVARIANT RangeAgrees
PROPERTY CallsEnd
CHECK_DEADLOCK FALSE
