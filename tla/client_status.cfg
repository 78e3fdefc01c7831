SPECIFICATION Spec
CONSTANTS
    MaxPackets = 1
CHECK_DEADLOCK FALSE
INVARIANTS StatusShowsConnection
