SPECIFICATION UplinkFairSpec
CONSTANTS
    StateMayFail = TRUE
    TimerMayFail = TRUE
    MarkMayFail = TRUE
    MaxRetry = 2
    MaxDrops = 5
INVARIANTS
    UplinkTypeOK
    TrialHasFallback
    NextBootWhole
    TrialIsWatched
    WifiRecovers
    FlagImpliesSession
PROPERTIES
    TrialEnds
    UpdateEnds
    Drives
    ComesOnline
CHECK_DEADLOCK FALSE
