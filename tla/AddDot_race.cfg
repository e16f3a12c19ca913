SPECIFICATION Spec
CONSTANTS
  Builds = {"avx2"}
  Threads = {t1, t2}
  Master = t1
  Slots = 1
  K = 2
INVARIANT
  Complete
