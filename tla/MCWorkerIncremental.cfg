SPECIFICATION Spec
CONSTANTS
    Workers = {0, 1}
    Jobs = {j1}
    Incremental = {j1}
    Demand <- MCDemand
    JobCacheSize = 1
    ReactivationScheduling = FALSE
    Permutation <- MCPermutation
    Client = Client
    None = None
    Spaced = FALSE
    MaxEpoch = 0
    MaxRevision = 1
    MaxInterrupts = 0
    MaxResults = 1
INVARIANTS
    AssertionsHold
    OneRoot
PROPERTY
    RootKept
CHECK_DEADLOCK FALSE
