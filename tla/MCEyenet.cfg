CONSTANTS
    DoubleMax = 100
    DoubleMin = 0
    MinSz = 1
    SzMult = 1
    Scale = 4
    Nprobe = 3
    LossWindow = 1
    MaxSeq = 4
    MaxTime = 2
    MaxAcks = 6
SPECIFICATION Spec
INVARIANTS
    TypeOK
    NeverExits
    PacketsAccountedFor
    OutstandingIsNewest
PROPERTIES
    ShrinksOnlyOnBurstLoss
CHECK_DEADLOCK FALSE
