SPECIFICATION LiveSpec
CONSTANTS
    N = 2
    MaxQueue = 2
    MaxEffects = 2
    maxResolutionSteps = 3
PROPERTIES
    ComesToRest
