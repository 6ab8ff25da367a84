SPECIFICATION Spec
CONSTANTS
    Bot <- TwoBots
    Category <- MCCategory
    Slow <- MCSlow
    decisionLimit = 2
INVARIANTS
    EligibleIsScheduled
CHECK_DEADLOCK FALSE
