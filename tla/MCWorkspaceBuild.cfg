SPECIFICATION Spec
CONSTANTS
  File = {1, 2, 3}
  Entry = 1
  Sources <- ThreeFiles
INVARIANTS
  EveryModuleIsLoaded
  ImportsAreAccountedFor
  CircularImportsAreReported
CHECK_DEADLOCK FALSE
