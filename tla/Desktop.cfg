SPECIFICATION PartSpec
CONSTANTS
    Parts = {"paid", "provisioning", "setup", "host", "spend", "feedback", "handoff", "rollout"}
    Thorough = TRUE
    Requests = {r1, r2}
    Keys = {k1, k2}
    k1 = k1
    Nil = Nil
    MaxCrashes = 1
    MaxSwitches = 1
    Worlds = {{"saveFails", "late"}, {"refresh"}, {"saveFails", "ack"},
              {"late", "lag", "resume"}}
INVARIANTS
    IntentKept
    ReportedServed
    OkMeansDone
PROPERTIES
    NoSecondPaidRequest
    HandoffComplete
    PairedHostMatches
    BilledOnce
    ChoicesRespected
SYMMETRY Symmetry
CHECK_DEADLOCK FALSE
