SPECIFICATION Spec
CONSTANTS
    u1 = u1  u2 = u2
    Users = {u1, u2}
    MaxAccounts = 2
    NoEntry = NoEntry  Torn = Torn  NoUser = NoUser  Unissued = Unissued  Gone = Gone
    FaultKinds = {"crash", "disk", "reject", "search"}
    MaxFaults = 2
    MaxCleanups = 2
SYMMETRY Symmetry
INVARIANTS FileIsSound CleanupComplete
PROPERTIES CorrelationKept DeletesErrorsOnly
