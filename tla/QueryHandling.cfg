SPECIFICATION FairSpec
CONSTANTS
    TranslateSuffix <- ProxySuffix
    EnforcedNames <- SafeNames
    EnforcedPrefixes <- SafePrefixes
    Messages <- AllMessages
    Names <- AllNames
    TypesAndClasses <- Tails
    Defaults <- List
    Files <- OneFile
    UpstreamAnswer <- RecordOf
    kMaxLabelHops = 5
    GarbageLength = 4
    NameLength = 4
INVARIANTS
    InBounds
    ParsesWhatItEncodes
    SinkholedIffListed
    ProxySeenThrough
    AnswersTheQuestion
PROPERTIES
    EveryQueryEnds
