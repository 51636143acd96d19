CONSTANTS
    MaxInt = 12
    ExactInt = 8
    Programs <- AllPrograms
    OutFloor = 8
    OutCushion = 40
    MaxBudget = 5
    ScratchSizes = {20, 2000}
SPECIFICATION Spec
INVARIANTS NoWildAccess LoopsEnd BudgetIsExact CompiledAgrees
PROPERTY KeepsTheBudget
CHECK_DEADLOCK FALSE
