CONSTANTS
    MaxInt = 12
    ExactInt = 8
    Programs <- DisagreeingPrograms
    OutFloor = 8
    OutCushion = 40
    MaxBudget = 5
    ScratchSizes = {20, 2000}
SPECIFICATION Spec
INVARIANTS MatchesTheOracle
CHECK_DEADLOCK FALSE
