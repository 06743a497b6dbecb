SPECIFICATION Spec
CONSTANTS
  MaxResults = 2
  MaxCalls = 4
  MaxAnswers = 1
INVARIANT BlocksForResult
