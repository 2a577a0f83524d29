SPECIFICATION Spec
CONSTANTS
    Threads = {t1, t2}
    ShowGasDetails = TRUE
    MAX_SNAPSHOTS = 1
    MaxBlocks = 2
    MaxClock = 1
    None = None
CHECK_DEADLOCK FALSE
INVARIANTS
    StuckCauses
PROPERTIES
    EveryRequestEnds
    CommitsWhereExecuted
