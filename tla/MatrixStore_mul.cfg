SPECIFICATION Spec
CONSTANTS
  a = a
  b = b
  c = c
  d = d
  Handles = {a, b, c, d}
  Types <- MCTypes
  Type <- TwoTypes
  Modulus <- Widths
  Blocks = {1, 2, 3}
  Null = Null
  Shapes <- RowAndColumn
  Values = {1}
  Steps <- MCSteps
  MaxCells = 4
CONSTRAINT Few
PROPERTY
  MulIsProduct
CHECK_DEADLOCK FALSE
