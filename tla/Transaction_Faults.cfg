SPECIFICATION FairSpec
CONSTANTS
    manifest = manifest
    updater = updater
    added = added
    dropped = dropped
    v1 = v1
    v2 = v2
    m1 = m1
    m2 = m2
    u1 = u1
    u2 = u2
    a2 = a2
    b1 = b1
    absent = absent
    Path <- MCPath
    Manifest = manifest
    Updater = updater
    Rank <- MCRank
    Release <- MCRelease
    NoRelease = NoRelease
    Bytes <- MCBytes
    Payload <- MCPayload
    Absent = absent
    Corrupt = Corrupt
    MaxCrashes = 2
    MaxIoFaults = 1
    MaxInstallDamage = 1
    MaxStoreDamage = 1
    MaxDamage = 1
    MaxFaults = 3
INVARIANTS
    SettledIsWhole
    RollbackReaches
PROPERTIES
    WriteAhead
    AllOrNothing
    PendingSettles
