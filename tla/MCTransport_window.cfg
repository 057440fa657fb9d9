CONSTANTS
    DoubleMax = 100
    DoubleMin = 0
    MinSz = 1
    SzMult = 1
    Scale = 1
    LossWindow = 1
    NCycles = 1
    OnUnits <- MCTwoMs
    ByteSwitcher = FALSE
    BnTrain = 2
    Nprobe = 2
    Payload = 1408
    AckTimeout = 1
    PollCap = 1
    BurstDelay = 1
    Loss = FALSE
    Dup = TRUE
    RecvErrors = TRUE
    MaxSeq = 3
    MaxPkts = 2
    MaxTime = 2
    MaxRuns = 2
SPECIFICATION Spec
INVARIANTS
    TypeOK
    AckWasSent
    HeadersAreFresh
    SpinsOrBlocks
PROPERTIES
    WindowNeverRetreats
CHECK_DEADLOCK FALSE
