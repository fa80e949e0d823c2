SPECIFICATION FairSpec
CONSTANTS
    MaxVersion = 3
    HandoffAttempts = 2
    MaxFaults = 2
INVARIANTS
    PreparedKept
    RelaunchIsSafe
    CancelHonoured
    ButtonsTruthful
    CurrentIsLoaded
PROPERTIES
    ConfirmedIsLoaded
    ClosedAppReturns
    WaitingEnds
CHECK_DEADLOCK FALSE
