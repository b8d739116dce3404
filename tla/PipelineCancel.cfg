SPECIFICATION PartFairSpec
CONSTANTS
    Parts = {"pipeline"}
    p1 = p1
    p2 = p2
    o1 = o1
    o2 = o2
    c1 = c1
    w1 = w1
    w2 = w2
    NoOperation = NoOperation
    PipelineWorlds <- CancelWorlds
    TransferWorlds <- CarryWorlds
    Apps = {a1}
    Runs = {r1}
    Handlers = {}
    NoRun = NoRun
    NoApp = NoApp
    Limit = 1
    Timeout = 1
    BACKUP_MAX_ATTEMPTS = 1
    BACKOFFS = 1
    MaxPolls = 0
    MaxFaults = 1
    DbMayFail = {}
    ProviderAction = "destroy"
PROPERTY
    CancelledBackupEnds
CHECK_DEADLOCK FALSE
