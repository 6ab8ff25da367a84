SPECIFICATION Spec
CONSTANTS
    N = 3
    MaxQueue = 1
    MaxEffects = 1
    maxResolutionSteps = 1
INVARIANTS
    SomeoneIsOffered
    PlayGoesOn
    ReadiedFirst
    HandsSettledFirst
PROPERTIES
    PriorityKept
