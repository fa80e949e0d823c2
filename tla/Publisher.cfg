SPECIFICATION FairSpec
CONSTANTS
    Publisher = {p1, p2}
    NoOne = NoOne
    MaxSessions = 2
    MaxUpdates = 1
    MaxFaults = 1
INVARIANTS
    OneActiveOwner
PROPERTIES
    PublishersEnd
    SessionPublished
CHECK_DEADLOCK FALSE
