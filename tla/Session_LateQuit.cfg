SPECIFICATION FairSpec
CONSTANTS
    MaxVersion = 2
    HandoffAttempts = 1
    MaxFaults = 1
PROPERTIES
    QuitIsFollowedUp
CHECK_DEADLOCK FALSE
