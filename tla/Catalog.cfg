SPECIFICATION Spec
CONSTANTS
    Apps = {a1, a2}
    Stores = {s1}
    Lanes = {l1, l2}
    MaxBundles = 3
    MaxOverlapping = 2
    PackCount = 2
    Worlds <- MCWorlds
SYMMETRY Symmetry
CHECK_DEADLOCK FALSE
INVARIANTS
    CommittedReadable
    CompletedVisible
PROPERTIES
    VisibleKept
