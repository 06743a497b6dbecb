\* A comparison carried out at once does not compare the attribute before it.
SPECIFICATION Spec
CONSTANTS
  Statements <- NowStatements
  MaxRun = 6
INVARIANT ResultsAreMeant
CHECK_DEADLOCK FALSE
