SPECIFICATION FairSpec
CONSTANTS
    MaxPending = 0
    IdWidth = 2
    ClockShift = 1
    PidShift = 1
    PidWidth = 2
    Pid = 1
    ClockReadings <- OneReading
    RunResults <- OneResult
    Drainers = {1, 2}
    WorkerCount <- PoolSizes
    MaxJobs = 3
INVARIANTS
    TypeOK
    UniqueIds
    OutermostGuardHolds
PROPERTIES
    ImplementsJobBoard
    DrainAllDrains
    BacklogServed
    DrainReturns
