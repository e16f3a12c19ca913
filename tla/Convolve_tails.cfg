SPECIFICATION FilterSpec
CONSTANTS
  Builds = {"avx2"}
  Lanes = 4
  Calls <- MCCalls
  Garbage = Garbage
  Files <- LongTails
  Request <- MCRequest
  Unit = 5
INVARIANT
  IsConvolution
