SPECIFICATION Spec
CONSTANTS
    c1 = c1
    c2 = c2
    None = None
    serverFd = listener
    timerFd = timer
    Client = {c1}
    FD = {1}
    Sent = {"finished", "upgrade"}
    MaxSends = 2
    MaySlow = {}
    MayStop = FALSE
INVARIANTS DecryptedIsDelivered
