SPECIFICATION FairSpec
CONSTANTS
    MaxLines = 4
    Stamp <- SharedStamps
    MaxReconnects = 2
    MaxFaults = 3
INVARIANTS PrintsTheLog
PROPERTIES FollowingEnds
CHECK_DEADLOCK FALSE
