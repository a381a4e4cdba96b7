SPECIFICATION Spec
CONSTANTS
    w1 = w1
    w2 = w2
    d1 = d1
    r1 = r1
    t1 = t1
    t2 = t2
    NoDelay = NoDelay
    NoWebhook = NoWebhook
    NoRemoteUrl = NoRemoteUrl
    NoPayload = NoPayload
    Delays <- ShortDelay
    DefaultDelay = 2
    Webhooks <- OneWebhook
    Domains <- NoDomain
    RemoteUrls <- NoRemote
    Kinds <- AllKinds
    ListJobs <- AllJobs
    Ticks <- TwoTicks
    CallsMayFail = FALSE
    MayCrash = FALSE
    MaxTime = 3
    MaxRequests = 1
    MaxLaunches = 1
SYMMETRY TickSymmetry
INVARIANTS
    CancelledIsTrue
CHECK_DEADLOCK FALSE
