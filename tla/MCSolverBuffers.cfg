SPECIFICATION Spec
CONSTANTS
    MaxRevision = 1
    Satisfiable = {1}
    MaxBuffers = 2
    MaxCrashes = 0
INVARIANTS
    BufferExclusion
    DigestedOnce
CHECK_DEADLOCK FALSE
