SPECIFICATION RateSpec
CONSTANTS
    Files <- RawFiles
    MaxUnits = 9
CHECK_DEADLOCK FALSE
INVARIANTS TypeOK StartCodesAreNals  FrameRateIsRead CutIsNotFaster 
PROPERTIES PlaysTheFile RefreshIsNotP
