SPECIFICATION Spec
CONSTANTS
    JobIds = {1, 2, 3}
    Demands = {0, 1, 2, 3, 7}
    Priorities = {1, 2, 5}
    Available = {2, 4, 5, 8}
    Grid = 960
INVARIANTS CacheFresh FullyDistributed FollowsPriorities
PROPERTY Terminates
CHECK_DEADLOCK FALSE
