SPECIFICATION FairSpec
CONSTANTS
    w1 = w1
    w2 = w2
    NoWebhook = NoWebhook
    NoConfig = NoConfig
    NoPayload = NoPayload
    Delays <- TwoDelays
    DefaultDelay = 2
    Webhooks <- TwoWebhooks
    SetupWebhooks <- OneWebhook
    UnitsPerSecond = 1
    SystemDnsSupported = TRUE
    FirewallSupported = FALSE
    SaveFaults <- NoSaveFaults
    Crashes <- CleanCrash
    MaxTime = 3
    MaxRequests = 2
    MaxLaunches = 2
INVARIANTS
    TypeOK
    OneChangeOpen
    WindowTracksDisk
PROPERTIES
    NoShortcut
    OncePerLaunch
    LabelHolds
    OldPartnerWasTold
    DueIsSettled
CHECK_DEADLOCK FALSE
