SPECIFICATION FairSpec
CONSTANTS
    u1 = u1  u2 = u2  n1 = n1  n2 = n2  v1 = v1  v2 = v2  p1 = p1  p2 = p2
    Users = {u1, u2}
    Names = {n1, n2}
    NameOf <- TwoNames
    Vals = {v1, v2}
    Profiles = {p1, p2}
    MaxAccounts = 3
    Unmapped = Unmapped  NoUser = NoUser  NoEntry = NoEntry  NoSnap = NoSnap
    NoExt = NoExt  Unissued = Unissued  Gone = Gone
    Configs <- LiveConfig
    CanRefresh = TRUE
    StaticToken = FALSE
    InitialKc <- BothIn
    InitialMas <- LegacyMas
    InitialFile <- LegacyFile
    FaultKinds = {"keycloak", "expire", "refresh", "reject"}
    MaxFaults = 2
    EditKinds = {"move", "enable", "val", "account"}
    MaxEdits = 3
INVARIANTS SyncedAtIdle SnapshotSound
PROPERTIES RemovedIsDeactivated ScopedIsSynced
