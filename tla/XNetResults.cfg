SPECIFICATION Spec
CONSTANTS
  MaxResults = 3
  MaxCalls = 5
  MaxAnswers = 2
INVARIANT IndexIsDepth
INVARIANT EntriesComeBack
INVARIANT AnswersAreOwn
