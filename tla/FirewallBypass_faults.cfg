SPECIFICATION BackendsSpec
CONSTANTS
    ip1 = ip1
    ip2 = ip2
    ip3 = ip3
    ResolverIps <- Resolvers
    MaxFailures = 2
    MayCrash = TRUE
    MaxLaunches = 3
    BackendFailures = 2
    BackendLaunches = 3
INVARIANTS
    OneJump
    FlagMeansBlocked
PROPERTIES
    RestoreLeavesNothing
    KeepsPromise
CHECK_DEADLOCK FALSE
