SPECIFICATION Spec
CONSTANTS
    Hosts <- PrivilegedHost
    Profiles <- IoFaults
    InputLen = 3
    ChunkSize = 2
    SizeMod = 8
    MaxOut = 2
    PipeCap = 1
INVARIANTS
    InputOffsetSane
    OutputConserved
