SPECIFICATION FairSpec
CONSTANTS
    p1 = p1
    p2 = p2
    s1 = s1
    None = None
    Procs = {p1, p2}
    Sources = {s1}
    Listed = {s1}
    Lanes = {"integrity", "damage_repair_assessment"}
    OptionalLanes = {"damage_repair_assessment"}
    VerifyModes = {"gzip_and_disks"}
    Bodies = {"stub", "first"}
    Acceptable = {"first"}
    Stub = "stub"
    Eols = {"lf"}
    NativeEol = "lf"
    LockGivesUp = FALSE
    ConcurrentEdits = FALSE
    MaxCommands = 3
    MaxEvents = 1
    Incidents = {"edit", "evidence", "crash"}
CHECK_DEADLOCK FALSE
PROPERTIES CommandsEnd GateDecided
