SPECIFICATION Spec
CONSTANTS
    Hosts <- PrivilegedHost
    Profiles <- SetupFault
    InputLen = 0
    ChunkSize = 1
    SizeMod = 8
    MaxOut = 0
    PipeCap = 1
INVARIANTS
    PartialSetupRolledBack
