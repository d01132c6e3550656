SPECIFICATION FairSpec
CONSTANTS
    Hosts <- PrivilegedHost
    Profiles <- SupervisorFault
    InputLen = 0
    ChunkSize = 1
    SizeMod = 8
    MaxOut = 0
    PipeCap = 1
PROPERTIES
    SupervisorFailureHandled
