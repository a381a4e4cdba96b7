SPECIFICATION BackendsSpec
CONSTANTS
    c1 = c1
    c2 = c2
    Absent = Absent
    Empty = Empty
    Loopback = Loopback
    Contents <- TwoContents
    StepsMayFail = TRUE
    MayCrash = TRUE
    CopyMayTear = TRUE
    OthersWrite <- Always
    MaxWrites = 2
    MaxLaunches = 3
    BackendFailures = 2
    BackendLaunches = 3
INVARIANTS
    OriginalKept
    NoDeadRedirect
PROPERTIES
    RestoreExact
    KeepsPromise
CHECK_DEADLOCK FALSE
