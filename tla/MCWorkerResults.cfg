SPECIFICATION FairSpec
CONSTANTS
    Workers = {0, 1}
    Jobs = {j1}
    Incremental = {}
    Demand <- MCDemand
    JobCacheSize = 1
    ReactivationScheduling = FALSE
    Permutation <- MCPermutation
    Client = Client
    None = None
    Spaced = FALSE
    MaxEpoch = 2
    MaxRevision = 0
    MaxInterrupts = 1
    MaxResults = 2
INVARIANTS
    ClientOk
    NothingLeftBehind
PROPERTY
    EventuallyReported
CHECK_DEADLOCK FALSE
