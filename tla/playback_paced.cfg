SPECIFICATION Spec
CONSTANTS
    Packets <- ShortFile
    MaxTime = 120
    MaxStall = 10
    MaxDelay = 70
    MaxLate = 10
    MayDrop = TRUE
CHECK_DEADLOCK FALSE
INVARIANTS TypeOK Paced
PROPERTIES AudioIsSequential NotShownEarly 
