CONSTANTS
    NThreads = 2
    Clients <- MCTwoClients
    LocalAny = FALSE
    MallocFails = TRUE
    MaxPkts = 3
SPECIFICATION FairSpec
INVARIANTS
    TypeOK
    NumberedInOrder
    OneConnEach
    PacketsAccountedFor
    ReportsAreTrue
PROPERTIES
    ImplementsRegister
    GetsThrough
CHECK_DEADLOCK FALSE
