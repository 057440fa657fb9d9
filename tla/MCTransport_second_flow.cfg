CONSTANTS
    DoubleMax = 100
    DoubleMin = 0
    MinSz = 1
    SzMult = 1
    Scale = 1
    LossWindow = 1
    NCycles = 2
    OnUnits <- MCBytes
    ByteSwitcher = TRUE
    BnTrain = 1
    Nprobe = 2
    Payload = 1408
    AckTimeout = 1
    PollCap = 1
    BurstDelay = 0
    Loss = FALSE
    Dup = FALSE
    RecvErrors = FALSE
    MaxSeq = 4
    MaxPkts = 9
    MaxTime = 2
    MaxRuns = 1
SPECIFICATION Spec
INVARIANTS
    FlowDelivers
CHECK_DEADLOCK FALSE
