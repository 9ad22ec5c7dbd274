CONSTANTS
    NumThreads = 2
    MaxJobs = 1
    INT32_MAX = 7
    Weights <- LoopWeights
SPECIFICATION FairSpec
CHECK_DEADLOCK FALSE
PROPERTIES
    StopEnds
