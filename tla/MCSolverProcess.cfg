SPECIFICATION FairSpec
CONSTANTS
    MaxRevision = 2
    Satisfiable = {0, 2}
    MaxBuffers = 0
    MaxCrashes = 1
INVARIANTS
    NoSilentExit
    ResultOfItsRevision
    AnnouncedIsThere
    StoppedIffSuspended
    FreedUnused
PROPERTIES
    ObligationsMet
CHECK_DEADLOCK FALSE
