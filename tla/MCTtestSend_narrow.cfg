CONSTANTS
    NThreads = 3
    Burst = 1
    Ibg = 2
    Interval = 2
    Duration = 2
    CpuMod = 2
    SendErrors = FALSE
    MaxLate = 1
    MaxTime = 12
SPECIFICATION Spec
INVARIANTS
    SumCoversWorkers
CHECK_DEADLOCK FALSE
