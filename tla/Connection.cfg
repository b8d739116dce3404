SPECIFICATION PartSpec
CONSTANTS
    Parts = {"tunnel", "switch", "deploy", "monitor", "mic", "sidecar", "stream", "ring", "rtp"}
    Capacity = 2
    MaxSamples = 6
    Batches = {1, 2, 3}
    Frame = 2
    Worlds = {{}, {"mute"}, {"weak"}}
INVARIANTS
    TunnelSafe
    SwitchAgrees
    AgentsAgree
    RingSound
PROPERTIES
    MicAgrees
    StreamSound
CHECK_DEADLOCK FALSE
