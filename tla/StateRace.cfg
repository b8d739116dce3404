SPECIFICATION PartSpec
CONSTANTS
    Parts = {"vault"}
    StateWorlds <- RaceWorlds
    c1 = c1
    c2 = c2
    login1 = login1
    login2 = login2
    NoLogin = NoLogin
    Ops = {o1, o2}
    Handlers = {h1, h2}
    Kinds = {"backup", "seal"}
    MaxRetries = 2
    MaxCrashes = 1
    Worlds = {{}, {"dbfail"}, {"race"}}
    NoOp = NoOp
SYMMETRY Symmetry
PROPERTY
    MoonlightKept
CHECK_DEADLOCK FALSE
