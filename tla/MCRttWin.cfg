CONSTANTS
    DoubleMax = 100
    DoubleMin = 0
    MinSz = 1
    SzMult = 1
    Rtts <- MCRtts
    MaxTime = 5
    MaxSamples = 4
SPECIFICATION Spec
INVARIANTS
    TypeOK
    ExactExtremum
    WindowsOrdered
CHECK_DEADLOCK FALSE
