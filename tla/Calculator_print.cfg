SPECIFICATION Spec
CONSTANTS
  Base = 10
  Decimals = 3
  CharMax = 128
  Least = 8
  Granule = 16
  Texts <- MCPowers
  Leftovers <- MCLeftovers
INVARIANT
  PrintsProducts
CHECK_DEADLOCK FALSE
