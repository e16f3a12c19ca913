SPECIFICATION MulSpec
CONSTANTS
  Builds = {"avx2", "neon"}
  Threads = {t1, t2, t3}
  Master = t1
  Slots = 2
  K = 3
  Call <- MCCall
INVARIANTS
  TypeOK
  AtMostOnce
  ExactUnlessLost
  LastWriterCounts
  ProductUnlessLost
PROPERTY
  MulReturns
