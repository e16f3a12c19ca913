SPECIFICATION Spec
CONSTANTS
  a = a
  b = b
  c = c
  d = d
  Handles = {a, b, c, d}
  Types <- MCTypes
  Type <- TwoTypes
  Modulus <- MCModulus
  Blocks = {1, 2, 3}
  Null = Null
  Shapes <- SquareToo
  Values = {0, 1}
  Steps <- MCSteps
  MaxCells = 3
SYMMETRY SameType
CONSTRAINT Few
INVARIANTS
  TypeOK
  NoLeak
  ShapeFits
  AliasesAgree
  FirstColumnAndChannel
PROPERTY
  OnlyAliasesFollow
CHECK_DEADLOCK FALSE
