SPECIFICATION Spec
CONSTANTS
  Statements <- SomeStatements
  MaxRun = 4
INVARIANT ValuesAreMeant
INVARIANT ResultsAreMeant
INVARIANT ErrorsAreMeant
INVARIANT StaysInside
CHECK_DEADLOCK FALSE
