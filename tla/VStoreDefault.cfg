SPECIFICATION Spec
CONSTANTS
  o = o
  p = p
  w = w
  x = x
  y = y
  z = z
  Key = Key
  Null = Null
  Void = Void
  Obj <- TwoObjects
  Keys <- FiveKeys
  Paths <- SixPaths
  Programs <- DefaultValue
PROPERTY DependenciesChangeNoAnswer
