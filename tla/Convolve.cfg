SPECIFICATION FilterSpec
CONSTANTS
  Builds = {"avx2", "neon", "scalar"}
  Lanes = 4
  Calls <- MCCalls
  Garbage = Garbage
  Files <- MCFiles
  Request <- MCRequest
  Unit = 5
INVARIANTS
  FilterTypeOK
  UnsetAreTails
  
  
  
  PlacesCovered
  LoadsPicture
  
  MatrixShowsSum
PROPERTY
  Finishes
