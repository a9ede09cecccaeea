SPECIFICATION Spec
CONSTANTS
    HalfTrack = 1
    MaxWheel = 0
    MetersPerTick = 4
    HighLimit = 2
    Inverted = {"left"}
    Pi = 4
    Second = 1
    TrackW = 2
    Cos <- CosTruncated
    Sin <- SinTruncated
    AlphaNum = 1
    One = 2
    MaxFaults = 0
    Builds = {TRUE}
    Dts = {1, 2}
    ImuDt = 1
    Tilts = {1}
    TiltRates = {1}
    MaxTurned <- Reach
    MaxUnfelt = 1
    MaxPos = 4
INVARIANTS
    YawFollowsHeading
