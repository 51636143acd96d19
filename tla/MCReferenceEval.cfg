CONSTANTS
    Children <- NestedTree
    Docs <- NestedDocs
    Outcomes = {"ok", "fails", "panics"}
    MaxRuns = 2
SPECIFICATION FairSpec
INVARIANTS NoMissedCycle NoFalseCycle InternalStaysInside
PROPERTY RunsTerminate
CHECK_DEADLOCK FALSE
