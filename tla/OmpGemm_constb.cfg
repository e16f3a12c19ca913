SPECIFICATION Spec
CONSTANTS
  Threads = {t1, t2}
  Calls <- WideB
INVARIANT BRestored
