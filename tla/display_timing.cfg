SPECIFICATION Spec
CONSTANTS
    Writers = {uart, mqtt}
    Timeout = 2
    Period = 1
    FrameMax = 1
    WriteMax = 1
    Word = 3
    MaxTime = 8
SYMMETRY Exchange
INVARIANTS
    TypeOK
    FallsBack
PROPERTIES
    StaleIsBrief
CHECK_DEADLOCK FALSE
