SPECIFICATION Spec
CONSTANTS
    HalfTrack = 1
    MaxWheel = 3
    MetersPerTick = 1
    Second = 10
    Period = 1
    Jitter = 0
    BootMax = 0
    HeartbeatTimeout = 2
    MaxTime = 5
    MaxLin = 2
    MaxAng = 2
    Alpha = 50
    OpenLoop = FALSE
    OlScale = 10
    OlDeadband = 3
    TelemDiv = 1
    NoMsg = NoMsg
    VelCmds <- RegVel
    PidCmds <- RegPid
    TickDeltas <- RegTicks
    PidDefaults <- RegDefaults
    MotorInvert <- LeftInvert
INVARIANTS
    IntegratorInEnvelope
    StopDropsIntegral
    PushesTowardSetpoint
