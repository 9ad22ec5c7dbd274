CONSTANTS
    NumThreads = 2
    MaxJobs = 3
    INT32_MAX = 7
    Weights <- MixedWeights
SPECIFICATION FairSpec
CHECK_DEADLOCK FALSE
INVARIANTS
    WeightsAccounted
    JobsKept
PROPERTIES
    WaitWaits
    JobsReturn
    WaitEnds
    DeletionEnds
    LoopsNotPicked
