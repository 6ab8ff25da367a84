SPECIFICATION Spec
CONSTANTS
    N = 3
    MaxQueue = 1
    MaxEffects = 1
    maxResolutionSteps = 1
INVARIANTS
    OnlyTheLiving
    HolderMayAnswer
    NoOtherStall
    OffersMatch
PROPERTIES
    TurnPasses
    EngineRunsDown
