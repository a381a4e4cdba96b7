SPECIFICATION Spec
CONSTANTS
    w1 = w1
    w2 = w2
    NoWebhook = NoWebhook
    NoConfig = NoConfig
    NoPayload = NoPayload
    Delays <- EvenDelays
    DefaultDelay = 2
    Webhooks <- OneWebhook
    SetupWebhooks <- OnlyNoWebhook
    UnitsPerSecond = 2
    SystemDnsSupported = FALSE
    FirewallSupported = TRUE
    SaveFaults <- AllSaveFaults
    Crashes <- AllCrashes
    MaxTime = 4
    MaxRequests = 2
    MaxLaunches = 2
PROPERTIES
    LessThanASecondEarly
    KeepsGate
CHECK_DEADLOCK FALSE
