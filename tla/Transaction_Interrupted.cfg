SPECIFICATION FairSpec
CONSTANTS
    manifest = manifest
    updater = updater
    added = added
    dropped = dropped
    v1 = v1
    v2 = v2
    m1 = m1
    m2 = m2
    u1 = u1
    u2 = u2
    a2 = a2
    b1 = b1
    absent = absent
    Path <- MCPath
    Manifest = manifest
    Updater = updater
    Rank <- MCRank
    Release <- MCRelease
    NoRelease = NoRelease
    Bytes <- MCBytes
    Payload <- MCPayload
    Absent = absent
    Corrupt = Corrupt
    MaxCrashes = 1
    MaxIoFaults = 0
    MaxInstallDamage = 0
    MaxStoreDamage = 0
    MaxDamage = 0
    MaxFaults = 1
PROPERTIES
    InterruptedUpdateRecovers
