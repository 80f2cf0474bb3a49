SPECIFICATION Spec
CONSTANTS
    p1 = p1
    p2 = p2
    p3 = p3
    worse = worse
    repaired = repaired
    resized = resized
    Torn = Torn
    None = None
    Procs = {p1, p2, p3}
    Outcomes = {worse, repaired, resized}
    WrongLength = {resized}
    LockGivesUp = FALSE
    ConcurrentCopies = FALSE
    MaxCommands = 4
    MaxEvents = 1
CHECK_DEADLOCK FALSE
INVARIANTS SliceOfNamedDisk
