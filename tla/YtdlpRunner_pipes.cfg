SPECIFICATION FairRunnerSpec
CONSTANTS
    PipeCap = 2
    MaxLines = 5
INVARIANTS
    RunnerTypeOK
    PathKept
PROPERTIES
    RunnerReturns
    ImplementsFetchCall
CHECK_DEADLOCK FALSE
