SPECIFICATION Spec
CONSTANTS
    w1 = w1
    w2 = w2
    d1 = d1
    r1 = r1
    t1 = t1
    t2 = t2
    NoDelay = NoDelay
    NoWebhook = NoWebhook
    NoRemoteUrl = NoRemoteUrl
    NoPayload = NoPayload
    Delays <- TwoDelays
    DefaultDelay = 2
    Webhooks <- OneWebhook
    Domains <- OneDomain
    RemoteUrls <- OneRemote
    Kinds <- ListChaining
    ListJobs <- OnlyUpdate
    Ticks <- OneTick
    CallsMayFail = FALSE
    MayCrash = FALSE
    MaxTime = 3
    MaxRequests = 2
    MaxLaunches = 1
PROPERTIES
    NoShortcut
    RemovalsStay
CHECK_DEADLOCK FALSE
