SPECIFICATION FairSpec
CONSTANTS
    junk = junk
    google = google
    adult = adult
    plain = plain
    FixedPort = FixedPort
    AnyPort = AnyPort
    NoPort = NoPort
    NoQuery = NoQuery
    Queries <- AllQueries
    Malformed <- JunkQueries
    SafeSearch <- SafeQueries
    Blocked <- AdultQueries
    SocketsMayFail = TRUE
    MaxStarts = 3
INVARIANTS
    OneWorker
    StatusIsTrue
PROPERTIES
    StopReturns
    QueriesAreSettled
CHECK_DEADLOCK FALSE
