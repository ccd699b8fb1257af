SPECIFICATION Spec
CONSTANTS
    MaxRuns = 2
    Requests <- SomeRequests
    Together <- AtOnce
    None = None  Absent = Absent
    MaxFaults = 1
INVARIANTS AppliedAgree ConnectionsSound DeleteComplete
PROPERTIES TemplatesKept
CHECK_DEADLOCK FALSE
