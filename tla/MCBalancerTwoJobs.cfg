SPECIFICATION FairSpec
CONSTANTS
    Jobs = {j1, j2}
    Demands = {2}
    TermEpoch = 4
    NoEvent = NoEvent
    NumRanks = 3
    ParentRank <- MCParentRank
    ChildRanks <- MCChildRanks
    VolumesOf <- MCVolumesOf
    MaxJobEpoch = 1
    NoJob = NoJob
INVARIANTS
    PlacedOnlyAfterReserved
PROPERTIES
    RootRequestActivated
    TerminatedForgotten
CHECK_DEADLOCK FALSE
