SPECIFICATION PartSpec
CONSTANTS
    Parts = {"lifecycle", "pipeline", "transfer"}
    p1 = p1
    p2 = p2
    o1 = o1
    o2 = o2
    c1 = c1
    w1 = w1
    w2 = w2
    NoOperation = NoOperation
    PipelineWorlds <- BackupWorlds
    TransferWorlds <- CarryWorlds
    Apps = {a1, a2}
    Runs = {r1}
    Handlers = {h1}
    NoRun = NoRun
    NoApp = NoApp
    Limit = 2
    Timeout = 1
    BACKUP_MAX_ATTEMPTS = 2
    BACKOFFS = 1
    MaxPolls = 1
    MaxFaults = 1
    DbMayFail = {"tick", "reload"}
    ProviderAction = "stop"
VIEW NoHistory
SYMMETRY Symmetry
INVARIANTS
    VerifiedBeforeShutdown
    ReloadKeepsRun
    CommittedIsWhole
PROPERTIES
    RunsOnlyAdvance
    ImplementsSafeShutdown
CHECK_DEADLOCK FALSE
