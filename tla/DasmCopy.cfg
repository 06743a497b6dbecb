\* The copy of an object has other definitions: one of two parts loses its ';', and one with
\* an object as a part of an if is lost.
SPECIFICATION Spec
CONSTANTS
  Statements <- CopyStatements
  MaxRun = 6
INVARIANT ValuesAreMeant
CHECK_DEADLOCK FALSE
