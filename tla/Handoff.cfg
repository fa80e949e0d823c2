SPECIFICATION FairSpec
CONSTANTS
    Coord = {pred, c1, c2}
    pred = pred
    NoOne = NoOne
    Attempts = 2
    MaxFaults = 1
INVARIANTS
    AttachedOwnsLock
    SuccessorServes
PROPERTIES
    ServedAgain
CHECK_DEADLOCK FALSE
