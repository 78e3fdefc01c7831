SPECIFICATION Spec
CONSTANTS
    Packets <- ShortFile
    MaxTime = 240
    MaxStall = 0
    MaxDelay = 10
    MaxLate = 10
    MayDrop = FALSE
CHECK_DEADLOCK FALSE
PROPERTIES OnlyLateIsSkipped
