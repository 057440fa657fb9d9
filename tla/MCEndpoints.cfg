CONSTANTS
    a1 = a1
    a2 = a2
    b1 = b1
    Proc = {a1, a2, b1}
    Hosts = {"a", "b"}
    HostOf <- MCHostOf
    Commands <- MCCommands
    MaxLaunches = 3
    MaxFlying = 3
    MaxHops = 2
SYMMETRY MCSymmetry
SPECIFICATION Spec
INVARIANTS
    TypeOK
    ConnectedByReceiver
    CreditNeedsEcho
    BytesNeedEcho
    EchoedOnce
CHECK_DEADLOCK FALSE
