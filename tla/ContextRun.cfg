SPECIFICATION FairSpec
CONSTANTS
    Threads = {t1, t2, t3}
    NoThread = NoThread
    MaxSteps = 1
    TickSizes = {1, 2}
    IterLen = 1
    MaxActs = 3
    MaxIters = 1
    CounterCap = 2
INVARIANTS BudgetCannotBeEscaped RunsExcludeEachOther CacheHitsAreOwn IteratorsDeliverOnce
PROPERTIES WaiterRuns RunsEnd RefinesSerialRuns
CHECK_DEADLOCK FALSE
