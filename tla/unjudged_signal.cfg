SPECIFICATION Spec
CONSTANTS
    MaxPending = 1
    Drainers = {1}
    WorkerCount <- PoolSizes
    MaxJobs = 2
    SubmissionIds = {1, 2}
    SuiteSize <- SuiteSizes
INVARIANT
    StopsAtFirstNonAccepted
