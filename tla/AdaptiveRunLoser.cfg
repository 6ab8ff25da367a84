SPECIFICATION Spec
CONSTANTS
    BlockGames = 2
    ScreenGames = 1
    FinalGames = 1
    candidateCount = 2
    totalLearningBudget = 4
    FlushEvery = 2
    MaxBlock = 3
    MaxInterruptions = 2
INVARIANTS
    LoserAdapts
CHECK_DEADLOCK FALSE
