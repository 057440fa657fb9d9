CONSTANTS
    DoubleMax = 100
    DoubleMin = 0
    MinSz = 1
    SzMult = 1
    Scale = 1
    LossWindow = 1
    NCycles = 1
    OnUnits <- MCThreeMs
    ByteSwitcher = FALSE
    BnTrain = 1
    Nprobe = 2
    Payload = 1408
    AckTimeout = 1
    PollCap = 1
    BurstDelay = 1
    Loss = TRUE
    Dup = FALSE
    RecvErrors = FALSE
    MaxSeq = 4
    MaxPkts = 9
    MaxTime = 3
    MaxRuns = 1
SPECIFICATION FairSpec
PROPERTIES
    SilenceIsNoticed
CHECK_DEADLOCK FALSE
