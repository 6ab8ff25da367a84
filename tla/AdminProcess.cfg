SPECIFICATION ProcessSpec
CONSTANTS
    p1 = p1
    p2 = p2
    p3 = p3
    p4 = p4
    lab = lab
    other = other
    j1 = j1
    j2 = j2
    Proc <- MCProc
    Host <- MCHost
    Pid <- MCPid
    HostOf <- MCHostOf
    PidOf <- MCPidOf
    SeparateRecovery = TRUE
    Job = {j1}
    MaxConcurrentJobs = 1
    Verbs <- MCVerbs
    MaxAsks = 2
INVARIANTS
    MutualExclusion
    OnlyLeftBehind
PROPERTIES
    LiveLockUntouched
CHECK_DEADLOCK FALSE
