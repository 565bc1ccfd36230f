SPECIFICATION Spec
CONSTANTS
    Jobs = {j1}
    Demands = {2}
    TermEpoch = 4
    NoEvent = NoEvent
    NumRanks = 4
    ParentRank <- MCParentRank
    ChildRanks <- MCChildRanks
    VolumesOf <- MCVolumesOf
    MaxJobEpoch = 3
    NoJob = NoJob
INVARIANTS
    ReplicasFollowLog
    EventIdentity
    NewestEventSurvives
    NoResurrection
PROPERTY
    ImplementsLog
CHECK_DEADLOCK FALSE
