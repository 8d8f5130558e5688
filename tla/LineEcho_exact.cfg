SPECIFICATION EchoSpec
CONSTANTS
    Align = 1
    FreshLimit = 4
    MinRead = 2
    Junk = 0
    SndBuf = 3
    MaxBytes = 7
INVARIANTS
    EchoAlwaysExact
CHECK_DEADLOCK FALSE
