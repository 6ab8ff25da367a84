SPECIFICATION Spec
CONSTANTS
    j1 = j1
    j2 = j2
    j3 = j3
    b1 = b1
    b2 = b2
    Job <- Three
    Batch <- MCBatch
    BatchOf <- LastAlone
    Order <- Oldest
    Adaptive <- MCAdaptive
    Requested <- MCRequested
    MaxConcurrentJobs = 1
    MaxWorkers = 2
    MaxWorkersPerJob = 2
    MaxAsks = 1
    MaxCrashes = 0
    MaxFailures = 0
    MaxFills = 1
INVARIANTS
    IdleQueueIsEmpty
CHECK_DEADLOCK FALSE
