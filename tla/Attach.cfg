SPECIFICATION FairSpec
CONSTANTS
    Clients = 3
    MaxFaults = 3
INVARIANTS
    OpenIsReal
PROPERTIES
    OthersGoOn
    ForeignSpared
    DebuggerFreed
CHECK_DEADLOCK FALSE
