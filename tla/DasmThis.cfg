\* this in a part of an if is not the object of the definition.
SPECIFICATION Spec
CONSTANTS
  Statements <- ThisStatements
  MaxRun = 6
INVARIANT ValuesAreMeant
CHECK_DEADLOCK FALSE
