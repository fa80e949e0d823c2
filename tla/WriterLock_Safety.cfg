SPECIFICATION FairLockSpec
CONSTANTS
    Proc = {p1, p2, p3}
    NoOne = NoOne
    MaxDeaths = 2
    MaxFailedWrites = 1
INVARIANTS
    ExclusiveUnlessRaced
    ReclaimExclusive
PROPERTIES
    DeadOwnerReclaimed
