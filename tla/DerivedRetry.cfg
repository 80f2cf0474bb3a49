SPECIFICATION Spec
CONSTANTS
    Routes = {"file"}
    PaJobs = {1, 2}
    PaOutputs <- ToolOutputs
    PaChunk = 2
    PaMaxBytes = 3
    PaMaxLines = 2
    PaMaxRuns = 2
    PaMaxEvents = 1
    PaNil = Nil
    StManifests <- Manifests
    StTold = {1}
    StChunk = 2
    StSummaryLimit = 1
    StMaxRuns = 2
    StMaxEvents = 1
    StBad = StBad
    StNil = Nil
    v1 = v1
    v2 = v2
    VmBlocks = 3
    VmTargets = {v1, v2}
    VmMaxRuns = 3
    VmMaxEvents = 1
    VmNil = Nil
    DtMaxRuns = 4
    DtMaxEvents = 2
    DtNil = Nil
    DfSizes <- Sizes
    DfMaxRuns = 5
    DfMaxEvents = 2
    DfNil = Nil
    p1 = p1
    p2 = p2
    p3 = p3
    old = old
    new = new
    Torn = Torn
    AwNil = Nil
    Procs = {p1, p2, p3}
    Texts = {old, new}
    Serial = TRUE
    MaxWrites = 4
    MaxReads = 3
    Bytes = {"a", "b"}
    ChunkSectors = 2
    MaxSectors = 5
    CsNil = Nil
CHECK_DEADLOCK FALSE
INVARIANTS DfZeroIsUsable
