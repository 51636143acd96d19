CONSTANTS
    a = a
    b = b
    v1 = v1
    v2 = v2
    Bad = Bad
    NoVersion = NoVersion
    Threads = {t1, t2}
    Modules = {a, b}
    Names = {"a", "alias", "b"}
    Versions = {v1, v2, Bad}
    Graphs <- ShortGraphs
    CanonicalId <- TwoNames
    Workspaces <- FewWorkspaces
    MaxLoads = 2
    MaxEdits = 1
SPECIFICATION Spec
INVARIANTS NoValueFromCycle NoFalseCircularImport PinnedBindingsMatch
PROPERTY CacheIsStable
SYMMETRY Symmetric
CHECK_DEADLOCK FALSE
