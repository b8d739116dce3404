SPECIFICATION MCSpec
CONSTANTS
    Attempts = {a1}
    Paths = {"p1", "p2"}
    Dirs = {"d"}
    Above <- MCAbove
    Chunks = {"c1", "c2"}
    ChunksOf <- MCChunksOf
    SteamManifests = {}
    Modes = {FALSE}
    Overlap = FALSE
    Faults = {"forward", "db", "rearm", "cleanup"}
INVARIANTS
    RestoreSafe
    ClashRefused
