CONSTANTS
    Threads = {t1, t2, t3}
    Outcomes = {"ok", "unsupported", "error"}
    MaxCalls = 4
SPECIFICATION AutoSpec
INVARIANTS BuiltIsForGood OneEvaluator
CHECK_DEADLOCK FALSE
