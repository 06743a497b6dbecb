\* A definition with two brackets in each other is refused.
SPECIFICATION Spec
CONSTANTS
  Statements <- TestStatements
  MaxRun = 6
INVARIANT ErrorsAreMeant
CHECK_DEADLOCK FALSE
