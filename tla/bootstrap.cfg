SPECIFICATION Spec
CONSTANTS
    MaxBoots = 3
    Versions <- SomeVersions
    MaxFaults = 1
    None = None  Partial = Partial
INVARIANTS HostIsSound OneVersion AloneNotBlocked
PROPERTIES OnlyForward
CHECK_DEADLOCK FALSE
