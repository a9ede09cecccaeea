SPECIFICATION Spec
CONSTANTS
    MaxFaults = 4
    Widths = {17, 20, 23}
INVARIANTS
    TypeOK
    PanelFollows
    BatteryHonest
