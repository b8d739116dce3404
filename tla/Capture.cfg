SPECIFICATION PartSpec
CONSTANTS
    Parts = {"queue", "evidence"}
    Paths = {p1, p2}
    QueueCap = 3
SYMMETRY Symmetry
INVARIANTS
    QueueKept
    CleanMeansCaptured
PROPERTIES
    ProcessStreamKept
    CaptureKept
