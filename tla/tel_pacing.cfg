SPECIFICATION Spec
CONSTANTS
    Rates <- OfferedRates
    Ticks = 12
    WorkMax = 2
    MaxTime = 40
INVARIANTS
    TypeOK
    NoSilentLoss
    BatteryGap
    RatesRun
PROPERTIES
    NewestInOrder
CHECK_DEADLOCK FALSE
