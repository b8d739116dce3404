SPECIFICATION PartFairSpec
CONSTANTS
    Parts = {"provisioning", "spend", "feedback", "handoff", "rollout", "monitor", "mic"}
    Thorough = FALSE
    Requests = {r1, r2}
    Keys = {k1, k2}
    k1 = k1
    Nil = Nil
    MaxCrashes = 1
    MaxSwitches = 1
    Worlds = {{"saveFails", "late"}, {"refresh"}, {"saveFails", "ack"},
              {"late", "lag", "resume"}}
PROPERTIES
    BudgetStops
    CommandsEnd
CHECK_DEADLOCK FALSE
