SPECIFICATION Spec
CONSTANTS
    m1 = m1
    m2 = m2
    m3 = m3
    m4 = m4
    w1 = w1
    w2 = w2
    Main = Main
    Match <- MCMatch
    Schedule <- MCSchedule
    Worker <- MCWorker
    FlushEvery = 2
    MaxAttempts = 2
INVARIANTS
    ReportHasStream
PROPERTIES
    OutcomeIsWhole
    ProgressIsKept
    NeverRefused
    FailFastStops
CHECK_DEADLOCK FALSE
