CONSTANTS
    Word <- MCWord
    Rates <- MCRates
    Lengths <- MCLengths
    Ports <- MCPorts
    Counts <- MCCounts
    Seconds <- MCSeconds
SPECIFICATION ArgsSpec
INVARIANTS
    ArgsTypeOK
    NeverDividesByZero
    PacedNearTarget
CHECK_DEADLOCK FALSE
