SPECIFICATION Spec
CONSTANTS
    CrStreams = {1, 2}
    CrCatalogs <- Catalogs
    CrModes = {"all", "deleted"}
    CrBatch = 2
    CrLimit = 3
    CrMaxRuns = 2
    CrMaxEvents = 1
    PhOrdinary = {o1}
    PhThumbs = {t1}
    PhDetections = {d1}
    PhMaxBytes = 3
    PhMaxFiles = 2
    PhMaxSize = 2
    PhMaxEvents = 1
    MpRows = {1, 2}
    MpUnknowns <- Unknowns
    MpMaxRuns = 2
    MpMaxEvents = 2
    CrNil = Nil
    PhNil = Nil
    MpNil = Nil
INVARIANTS TypeOK CrStreamsAreCatalog CrWithinLimit PhAcceptedIsMapped
PROPERTIES CrCompleteIsAll PhStopsCarving MpCompleteIsProbed
CHECK_DEADLOCK FALSE
