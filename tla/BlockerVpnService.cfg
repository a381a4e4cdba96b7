SPECIFICATION FairSpec
CONSTANTS
    site = site
    page = page
    search = search
    Domains <- ThreeDomains
    Queries <- PageThenSite
    SafeSearch <- SearchDomains
    Lists <- TwoLists
    EstablishFails = TRUE
    JoinsTimeOut = TRUE
    MaxCommands = 2
    MaxKills = 1
    MaxReboots = 1
    MaxRevokes = 1
INVARIANTS
    LastWordHolds
    StatusIsTrue
    OneReader
PROPERTIES
    LeaksOnlyWhileReplaced
    LastWordArrives
CHECK_DEADLOCK FALSE
