SPECIFICATION PathSpec
CONSTANTS
    HalfTrack = 1
    MaxWheel = 0
    MetersPerTick = 1
    Second = 10
    Period = 2
    Jitter = 1
    BootMax = 1
    HeartbeatTimeout = 2
    MaxTime = 7
    MaxLin = 1
    MaxAng = 3
    Alpha = 100
    OpenLoop = FALSE
    OlScale = 10
    OlDeadband = 3
    TelemDiv = 1
    PreemptWindow = 4
    HandleMax = 1
    NoMsg = NoMsg
    VelCmds <- PathVel
    PidCmds <- PathPid
    TickDeltas <- PathTicks
    PidDefaults <- PathDefaults
    MotorInvert <- NoInvert
INVARIANTS
    PathTypeOK
    OneLeakPerWindow
PROPERTIES
    UartPrecedence
