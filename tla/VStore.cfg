SPECIFICATION FairSpec
CONSTANTS
  o = o
  p = p
  w = w
  x = x
  y = y
  z = z
  Key = Key
  Null = Null
  Void = Void
  Obj <- TwoObjects
  Keys <- FiveKeys
  Paths <- SixPaths
  Programs <- FourPrograms
INVARIANT ValuesAgree
INVARIANT DependenciesRegistered
INVARIANT LockedIsRunning
INVARIANT RemainingFindsSets
PROPERTY ComesToRest
PROPERTY InstantsEnd
