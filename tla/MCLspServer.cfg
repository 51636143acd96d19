SPECIFICATION Spec
CONSTANTS
  File = {1, 2}
  MaxImports = 1
  Texts <- AllTexts
  At <- DistinctPlaces
INVARIANTS
  NoLeftovers
  
  GotoAfterOwnPass
CHECK_DEADLOCK FALSE
