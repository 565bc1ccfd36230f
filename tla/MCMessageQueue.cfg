SPECIFICATION FairSpec
CONSTANTS
    r1 = r1
    r2 = r2
    Ranks = {r1, r2}
    Routes <- MCRoutes
    Sizes = {3, 5}
    MaxMsgSize = 3
    MetaSize = 1
    MaxConcurrent = 2
    FloatBits = 24
    MaxData = 13
INVARIANTS
    QueueAssertions
PROPERTIES
    ImplementsChannels
    EventuallyDrained
CHECK_DEADLOCK FALSE
