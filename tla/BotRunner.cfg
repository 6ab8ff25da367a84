SPECIFICATION LiveSpec
CONSTANTS
    Bot <- TwoBots
    Category <- MCCategory
    Slow <- MCSlow
    decisionLimit = 2
INVARIANTS
    OwedIsWaiting
    WaitsAreOwed
PROPERTIES
    OwedIsAnswered
CHECK_DEADLOCK FALSE
