SPECIFICATION ReadingSpec
CONSTANTS
    c1 = c1
    c2 = c2
    None = None
    serverFd = listener
    timerFd = timer
    Client = {c1}
    FD = {1}
    Sent = {"finished", "upgrade", "badRequest", "accept", "reject", "close", "text", "ping", "notify"}
    MaxSends = 4
    MaySlow = {c1}
    MayStop = TRUE
INVARIANTS NoDanglingEntry
PROPERTIES  PeerGoneIsReaped
