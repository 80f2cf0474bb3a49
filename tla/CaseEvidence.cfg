SPECIFICATION Spec
CONSTANTS
    p1 = p1
    s1 = s1
    s2 = s2
    None = None
    Procs = {p1}
    Sources = {s1, s2}
    Listed = {s1}
    Lanes = {"integrity"}
    OptionalLanes = {}
    VerifyModes = {"gzip_and_disks"}
    Bodies = {"stub", "first"}
    Acceptable = {"first"}
    Stub = "stub"
    Eols = {"lf"}
    NativeEol = "lf"
    LockGivesUp = FALSE
    ConcurrentEdits = FALSE
    MaxCommands = 4
    MaxEvents = 2
    Incidents = {"edit", "evidence"}
CHECK_DEADLOCK FALSE
INVARIANTS ReliedIsClean
