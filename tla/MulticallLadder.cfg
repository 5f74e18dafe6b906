SPECIFICATION FairSpec
CONSTANTS
  MaxRows = 5
  BatchSizes = {1, 4, 6, 15}
  CallsPerRow = {1, 3}
INVARIANTS RowsInOrder NullsAreTrue RequestsAreBounded
PROPERTY TaskReturns
