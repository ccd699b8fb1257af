SPECIFICATION FairSpec
CONSTANTS
    Installers = {i1, i2}
    Requests <- MainRequests
    Overlaps <- SomeOverlaps
    Relays = {"r1"}
    Passwords <- SomePasswords
    None = None
    MaxInstalls = 2
    MaxFaults = 2
    OldInstalls = TRUE
INVARIANTS ServicesAgree AccessKept
PROPERTIES DetailsKept RerunSucceeds
CHECK_DEADLOCK FALSE
