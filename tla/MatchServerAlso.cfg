SPECIFICATION Spec
CONSTANTS
    c1 = c1
    c2 = c2
    c3 = c3
    Conn <- TwoConns
    MAX_SEATS = 3
    ActionId <- NoId
    Pacing <- Budget
    OneSeat = FALSE
    MaxMatches = 1
    MaxDecisions = 0
SYMMETRY ConnSymmetry
VIEW SeatsView
INVARIANTS
    TypeOK
    WaitingCannotStart
CHECK_DEADLOCK FALSE
