SPECIFICATION LiveSpec
CONSTANTS
    j1 = j1
    j2 = j2
    j3 = j3
    b1 = b1
    b2 = b2
    Job <- Three
    Batch <- MCBatch
    BatchOf <- LastAlone
    Order <- Oldest
    Adaptive <- MCAdaptive
    Requested <- MCRequested
    MaxConcurrentJobs = 1
    MaxWorkers = 3
    MaxWorkersPerJob = 2
    MaxAsks = 2
    MaxCrashes = 0
    MaxFailures = 0
    MaxFills = 1
INVARIANTS
    HeldBack
PROPERTIES
    StartableStarts
CHECK_DEADLOCK FALSE
