SPECIFICATION PvSpec
CONSTANTS
    p1 = p1
    Damaged = Damaged
    Missing = Missing
    PvProcs = {p1}
    PvBlocks = 2
    PvMaxAttempts = 2
    PvMaxEvents = 1
CHECK_DEADLOCK FALSE
INVARIANTS PvCheckpointDurable
