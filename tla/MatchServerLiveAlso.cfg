SPECIFICATION LiveSpec
CONSTANTS
    c1 = c1
    c2 = c2
    c3 = c3
    Conn <- TwoConns
    MAX_SEATS = 2
    ActionId <- OneId
    Pacing <- Budget
    OneSeat = TRUE
    MaxMatches = 2
    MaxDecisions = 1
INVARIANTS
    SeatIsAttached
    WindowRuns
CHECK_DEADLOCK FALSE
