SPECIFICATION Spec
CONSTANTS
  Loads <- MCLoads
  WireCap = 1
INVARIANTS TokensConserved ReadsAll WindowRespected
CHECK_DEADLOCK FALSE
PROPERTIES Flowing DeadReturns
