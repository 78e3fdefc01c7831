SPECIFICATION Spec
CONSTANTS
    c1 = c1
    c2 = c2
    None = None
    serverFd = listener
    timerFd = timer
    Client = {c1, c2}
    FD = {1, 2}
    Sent = {"finished", "upgrade", "accept", "reject"}
    MaxSends = 3
    MaySlow = {}
    MayStop = FALSE
SYMMETRY ClientSymmetry
INVARIANTS TypeOK EdgeKept MediaOnLiveSession
PROPERTIES LifecycleSpec
