SPECIFICATION FairSpec
CONSTANTS
  NTasks = 3
  NRows = 2
  Capacity = 1
  Permits = 2
INVARIANT AnswerIsTrue
PROPERTIES ImplementsAllOrNothing EverythingReturns
