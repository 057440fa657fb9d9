CONSTANTS
    NThreads = 1
    Burst = 2
    Ibg = 2
    Interval = 3
    Duration = 5
    CpuMod = 256
    SendErrors = TRUE
    MaxLate = 3
    MaxTime = 20
SPECIFICATION Spec
INVARIANTS
    TypeOK
    Paced
CHECK_DEADLOCK FALSE
