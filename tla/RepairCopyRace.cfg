SPECIFICATION Spec
CONSTANTS
    p1 = p1
    p2 = p2
    p3 = p3
    repaired = repaired
    resized = resized
    Torn = Torn
    None = None
    Procs = {p1, p2, p3}
    Outcomes = {repaired, resized}
    WrongLength = {resized}
    LockGivesUp = FALSE
    ConcurrentCopies = TRUE
    MaxCommands = 4
    MaxEvents = 0
SYMMETRY Interchangeable
CHECK_DEADLOCK FALSE
INVARIANTS NoConcurrentAttempts
