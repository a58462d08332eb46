SPECIFICATION Spec
CONSTANTS
  Salaries <- MCSalaries
  OtherRows <- MCOtherRows
  Lengths = {0, 1, 79, 98, 99, 100}
  Ids = {1, 9, 10}
INVARIANT UpdateNotCut
INVARIANT StoredAsAsked
PROPERTY RowWhole
