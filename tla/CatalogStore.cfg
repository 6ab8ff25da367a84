SPECIFICATION Spec
CONSTANTS
    b1 = b1
    c1 = c1
    c2 = c2
    Batch <- MCBatch
    Job <- MCJob
    Time <- MCTime
    Client <- MCClient
    PageLimit = 1
    MAX_SAVED_CHOICES = 1
    Actions <- MCActions
    BatchActions <- MCBatchActions
    MaxChanges = 2
    MaxCalls = 4
    MaxFailures = 2
SYMMETRY Symmetric
INVARIANTS
    MembersExist
    LogIsHistory
    LogIsComplete
    TraversalIsWhole
PROPERTIES
    NothingUndone
CHECK_DEADLOCK FALSE
