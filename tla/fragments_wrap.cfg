SPECIFICATION Spec
CONSTANTS
    IdSpace = 2
    Slots = 2
    MAX_FRAGMENTS = 3
    MaxPackets = 4
    Sizes = {1, 2, 3}
    InFlight = 1
    MayFail = {"input"}
CHECK_DEADLOCK FALSE
INVARIANTS FramesIntact
