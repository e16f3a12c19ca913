SPECIFICATION Spec
CONSTANTS
  Base = 10
  Decimals = 3
  CharMax = 128
  Least = 8
  Granule = 16
  Texts <- MCHundredths
  Leftovers <- MCLeftovers
INVARIANT
  DifferenceExact
CHECK_DEADLOCK FALSE
