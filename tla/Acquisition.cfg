SPECIFICATION Spec
CONSTANTS
    g1 = g1
    g2 = g2
    p1 = p1
    p2 = p2
    Raw = Raw
    Bad = Bad
    Theirs = Theirs
    Absent = Absent
    Damaged = Damaged
    Missing = Missing
    GzProcs = {g1, g2}
    GzMaxRuns = 3
    GzMaxEvents = 3
    PvProcs = {p1, p2}
    PvBlocks = 2
    PvMaxAttempts = 3
    PvMaxEvents = 3
    IvStageCount = 2
    IvMaxRuns = 2
SYMMETRY Interchangeable
CHECK_DEADLOCK FALSE
INVARIANTS TypeOK GzPublishedIsVerified GzCompleteIsPublished PvCompleteIsCopy PvCompleteIsLatest IvCompleteReadVerified IvExcludesCopy
PROPERTIES GzKeepsDestination
