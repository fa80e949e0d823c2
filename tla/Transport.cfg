SPECIFICATION FairSpec
CONSTANTS
    Session = {s1, s2, s3}
    None = None
    MaxStatus = 1
    MaxReloads = 1
    MaxFaults = 1
    MaxToggles = 1
CONSTRAINT RaceFree
INVARIANTS
    NothingLeaks
    BridgeIsCurrent
    LatestStatusShown
PROPERTIES
    Reconnects
    CloseReturns
CHECK_DEADLOCK FALSE
