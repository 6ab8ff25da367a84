SPECIFICATION Spec
CONSTANTS
    c1 = c1
    c2 = c2
    c3 = c3
    Conn <- TwoConns
    MAX_SEATS = 2
    ActionId <- NoId
    Pacing <- TwoBudgets
    OneSeat = TRUE
    MaxMatches = 2
    MaxDecisions = 0
SYMMETRY ConnSymmetry
INVARIANTS
    AwayIsTimed
    AbandonedCloses
    StartedStaysStarted
CHECK_DEADLOCK FALSE
