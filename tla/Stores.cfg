SPECIFICATION PartSpec
CONSTANTS
    Parts = {"operations", "profiles", "library", "vault", "packet", "journal"}
    StateWorlds <- VaultWorlds
    c1 = c1
    c2 = c2
    login1 = login1
    login2 = login2
    NoLogin = NoLogin
    Ops = {o1, o2}
    Handlers = {h1, h2}
    Kinds = {"backup", "seal"}
    MaxRetries = 2
    MaxCrashes = 1
    Worlds = {{}, {"dbfail"}, {"race"}}
    NoOp = NoOp
SYMMETRY Symmetry
INVARIANTS
    UnfinishedIsManaged
    StartedOnce
    RevisionsStable
PROPERTIES
    CompletedStays
    SecretsKept
    GoodMeansUsed
CHECK_DEADLOCK FALSE
