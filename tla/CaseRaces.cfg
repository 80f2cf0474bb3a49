SPECIFICATION Spec
CONSTANTS
    p1 = p1
    p2 = p2
    s1 = s1
    None = None
    Procs = {p1, p2}
    Sources = {s1}
    Listed = {s1}
    Lanes = {"integrity"}
    OptionalLanes = {}
    VerifyModes = {"hash_only", "gzip_and_disks"}
    Bodies = {"stub", "first"}
    Acceptable = {"first"}
    Stub = "stub"
    Eols = {"lf", "crlf"}
    NativeEol = "lf"
    LockGivesUp = TRUE
    ConcurrentEdits = TRUE
    MaxCommands = 4
    MaxEvents = 2
    Incidents = {"edit", "tool", "disk", "crash"}
SYMMETRY Interchangeable
CHECK_DEADLOCK FALSE
INVARIANTS ReviewMatchesLedger FinalizedBound
PROPERTIES FinalizedFrozen ImplementsGate
