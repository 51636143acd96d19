CONSTANTS
    Threads = {t1, t2}
    Places = {p1, p2}
    Texts <- FewTexts
    MaxDispatches = 1
    MaxCalls = 2
SPECIFICATION Spec
INVARIANT TornSnapshotsOnlyMiss
CHECK_DEADLOCK FALSE
