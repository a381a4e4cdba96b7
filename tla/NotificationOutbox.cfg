SPECIFICATION FairSpec
CONSTANTS
    f1 = f1
    f2 = f2
    MaxNotes = 4
    MaxQueued = 2
    Unusable <- SecondUnusable
    Flushes <- TwoFlushes
    MaxLaunches = 2
INVARIANTS
    QueueInOrder
    KeptUnlessRaced
PROPERTIES
    ArrivesUnlessRaced
CHECK_DEADLOCK FALSE
