SPECIFICATION FairSpec
CONSTANTS
    IntBytes = 4
    Stages <- SomeStages
    ErrorCodes = {13}
    WaitStatuses <- SomeStatuses
INVARIANTS
    TypeOK
    WholeRecords
    FailureComesFirst
    ErrorMeansTorn
PROPERTY
    ReaderReturns
