SPECIFICATION Spec
CONSTANTS
    p1 = p1
    p2 = p2
    repaired = repaired
    resized = resized
    Torn = Torn
    None = None
    Procs = {p1, p2}
    Outcomes = {repaired, resized}
    WrongLength = {resized}
    LockGivesUp = FALSE
    ConcurrentCopies = FALSE
    MaxCommands = 2
    MaxEvents = 0
SYMMETRY Interchangeable
CHECK_DEADLOCK FALSE
INVARIANTS TargetHoldsCopy
