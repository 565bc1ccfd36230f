SPECIFICATION Spec
CONSTANTS
    Workers = {0, 1, 2, 3}
    Jobs = {j1}
    Incremental = {}
    Demand <- MCDemand
    JobCacheSize = 1
    ReactivationScheduling = TRUE
    Permutation <- MCPermutation
    Client = Client
    None = None
    Spaced = TRUE
    MaxEpoch = 4
    MaxRevision = 0
    MaxInterrupts = 0
    MaxResults = 0
INVARIANTS
    Filled
    NoWaiterLeft
    SchedulersLinked
    SuspendedRemembered
CHECK_DEADLOCK FALSE
