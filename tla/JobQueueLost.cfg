SPECIFICATION LiveSpec
CONSTANTS
    j1 = j1
    j2 = j2
    j3 = j3
    b1 = b1
    b2 = b2
    Job <- Two
    Batch <- MCBatch
    BatchOf <- OneBatch
    Order <- Oldest
    Adaptive <- MCAdaptive
    Requested <- MCRequested
    MaxConcurrentJobs = 2
    MaxWorkers = 2
    MaxWorkersPerJob = 2
    MaxAsks = 1
    MaxCrashes = 0
    MaxFailures = 2
    MaxFills = 1
PROPERTIES
    LostEndsProcess
CHECK_DEADLOCK FALSE
