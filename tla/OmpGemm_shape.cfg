SPECIFICATION Spec
CONSTANTS
  Threads = {t1, t2}
  Calls <- LongInner
INVARIANT ResultIsGemm
