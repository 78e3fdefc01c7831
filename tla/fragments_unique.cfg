SPECIFICATION Spec
CONSTANTS
    IdSpace = 4
    Slots = 2
    MAX_FRAGMENTS = 3
    MaxPackets = 4
    Sizes = {1, 2, 3, 4}
    InFlight = 1
    MayFail = {"input", "tables", "chunk", "result"}
CHECK_DEADLOCK FALSE
INVARIANTS TypeOK ReceivedIsHanded FramesIntact
PROPERTIES DeliverySpec
