SPECIFICATION FairSpec
CONSTANTS
    Hosts <- AllHosts
    Profiles <- SafetyFaults
    InputLen = 1
    ChunkSize = 1
    SizeMod = 8
    MaxOut = 0
    PipeCap = 1
INVARIANTS
    TypeOK
    SupervisorReaped
    ExecContained
    TerminationEffective
    NoSurvivor
    SuccessReleasesResources
    FaithfulExit
    CleanupReportSound
    OutcomeContract
PROPERTIES
    Returns
    ReturnsAfterProgram
    DeadlineEnforced
