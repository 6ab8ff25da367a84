SPECIFICATION LiveSpec
CONSTANTS
    Bot <- TwoBots
    Category <- MCCategory
    Slow <- MCSlow
    decisionLimit = 2
INVARIANTS
    CategoryIsAnswered
CHECK_DEADLOCK FALSE
