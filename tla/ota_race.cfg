SPECIFICATION Spec
CONSTANTS
    StateMayFail = FALSE
    TimerMayFail = FALSE
    MarkMayFail = FALSE
PROPERTIES
    ConfirmedStays
