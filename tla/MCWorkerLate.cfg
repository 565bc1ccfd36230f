SPECIFICATION Spec
CONSTANTS
    Workers = {0, 1, 2}
    Jobs = {j1}
    Incremental = {}
    Demand <- MCDemandLess
    JobCacheSize = 1
    ReactivationScheduling = TRUE
    Permutation <- MCPermutation
    Client = Client
    None = None
    Spaced = FALSE
    MaxEpoch = 4
    MaxRevision = 0
    MaxInterrupts = 0
    MaxResults = 0
INVARIANTS
    LocalAssertionsHold
    NoCommitmentLeft
    SchedulersClosed
CHECK_DEADLOCK FALSE
