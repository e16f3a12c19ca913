SPECIFICATION Spec
CONSTANTS
  Threads = {t1, t2, t3}
  Calls <- Shapes
INVARIANTS
  TypeOK
  NoSharedStore
  ProductBeforeScale
  OldOrFinal
  ScalarVersionsAgree
PROPERTIES
  Implements
