CONSTANTS
    NThreads = 2
    Burst = 1
    Ibg = 2
    Interval = 2
    Duration = 2
    CpuMod = 256
    SendErrors = FALSE
    MaxLate = 1
    MaxTime = 12
SPECIFICATION FairSpec
INVARIANTS
    OwnSlot
    StartTogether
    ReportsAreTrue
    FinalMissesOneBurst
PROPERTIES
    ClientEnds
CHECK_DEADLOCK FALSE
