SPECIFICATION Spec
CONSTANTS
    Workers = {0, 1}
    Jobs = {j1, j2}
    Incremental = {}
    Demand <- MCDemand
    JobCacheSize = 1
    ReactivationScheduling = FALSE
    Permutation <- MCPermutation
    Client = Client
    None = None
    Spaced = FALSE
    MaxEpoch = 4
    MaxRevision = 0
    MaxInterrupts = 0
    MaxResults = 0
INVARIANTS
    AssertionsHold
    LinksReciprocated
    Filled
PROPERTY
    RootEndsWithJob
CHECK_DEADLOCK FALSE
