SPECIFICATION FairSpec
CONSTANTS
    MaxSteps = 2
    MaxCalls = 2
    MaxTokens = 5
    Reserve = 2
    Usages = {1, 4}
    MaxParallel = 2
    MaxOthers = 1
    MaxTraceSteps = 7
    MaxTraces = 2
INVARIANTS
    ConflictMeansUnsaved
    HiddenFailuresSucceeded
    ConclusionEndsSelection
    TraceAvailable
    TraceComplete
PROPERTIES
    RunEnds
CHECK_DEADLOCK FALSE
