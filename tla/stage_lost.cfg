SPECIFICATION Spec
CONSTANTS
    IntBytes = 4
    Stages <- SomeStages
    ErrorCodes = {13}
    WaitStatuses <- SomeStatuses
INVARIANT
    StageIdentified
