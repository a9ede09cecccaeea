SPECIFICATION Spec
CONSTANTS
    HalfTrack = 1
    MaxWheel = 0
    MetersPerTick = 1
    Second = 3
    Period = 2
    Jitter = 1
    BootMax = 1
    HeartbeatTimeout = 3
    MaxTime = 13
    MaxLin = 1
    MaxAng = 3
    Alpha = 100
    OpenLoop = FALSE
    OlScale = 10
    OlDeadband = 3
    TelemDiv = 2
    NoMsg = NoMsg
    VelCmds <- TimedVel
    PidCmds <- TimedPid
    TickDeltas <- TimedTicks
    PidDefaults <- TimedDefaults
    MotorInvert <- NoInvert
INVARIANTS
    TypeOK
    DeadMan
    CommandedStop
PROPERTIES
    SoftResume
    ImplementsSwitch
