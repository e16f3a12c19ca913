SPECIFICATION Spec
CONSTANTS
  Base = 2
  Decimals = 1
  CharMax = 3
  Least = 6
  Granule = 4
  Texts <- MCTexts
  Leftovers <- MCLeftovers
INVARIANTS
  TypeOK
  InBounds
  PartialResults
  ExactUnlessLost
  NoBorrowLeft
  PrintsResult
PROPERTY
  Terminates
CHECK_DEADLOCK FALSE
