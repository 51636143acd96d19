CONSTANTS
    Threads = {t1}
    Evaluators <- TwoEvaluators
    Buffered <- TheBuffered
    Epoch <- Built
    Deadlines = {1, 2}
    MaxDepth = 2
    MaxLambda = 1
    MaxCalls = 3
    MaxClock = 3
SPECIFICATION FairSpec
INVARIANTS DispatchesDoNotShare DispatchSeesItsEvaluator OutcomeIsOwn
PROPERTY DeadlinesCutPrograms
CHECK_DEADLOCK FALSE
