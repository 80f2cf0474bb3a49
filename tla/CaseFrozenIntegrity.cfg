SPECIFICATION Spec
CONSTANTS
    p1 = p1
    p2 = p2
    s1 = s1
    None = None
    Procs = {p1, p2}
    Sources = {s1}
    Listed = {s1}
    Lanes = {"integrity"}
    OptionalLanes = {}
    VerifyModes = {"gzip_and_disks"}
    Bodies = {"stub", "first"}
    Acceptable = {"first"}
    Stub = "stub"
    Eols = {"lf"}
    NativeEol = "lf"
    LockGivesUp = FALSE
    ConcurrentEdits = FALSE
    MaxCommands = 5
    MaxEvents = 2
    Incidents = {"edit"}
SYMMETRY Interchangeable
CHECK_DEADLOCK FALSE
PROPERTIES FinalizedIntegrityFrozen
