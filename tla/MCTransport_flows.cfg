CONSTANTS
    DoubleMax = 100
    DoubleMin = 0
    MinSz = 1
    SzMult = 1
    Scale = 1
    LossWindow = 1
    NCycles = 2
    OnUnits <- MCTwoMs
    ByteSwitcher = FALSE
    BnTrain = 1
    Nprobe = 2
    Payload = 1408
    AckTimeout = 1
    PollCap = 1
    BurstDelay = 1
    Loss = TRUE
    Dup = FALSE
    RecvErrors = FALSE
    MaxSeq = 3
    MaxPkts = 9
    MaxTime = 2
    MaxRuns = 1
SPECIFICATION FairSpec
INVARIANTS
    WindowBound
    HandshakeSound
    BytesAreDelivered
PROPERTIES
    RunEnds
    ImplementsEchoWindow
CHECK_DEADLOCK FALSE
