SPECIFICATION Spec
CONSTANTS
    Hosts <- PrivilegedHost
    Profiles <- NoFault
    InputLen = 0
    ChunkSize = 1
    SizeMod = 8
    MaxOut = 1
    PipeCap = 1
INVARIANTS
    CapturesAllOutput
