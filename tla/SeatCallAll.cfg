SPECIFICATION Spec
CHECK_DEADLOCK FALSE
CONSTANTS
    SeatConfigs <- MCSeats
    RunLimit = 3
    ProbeLimit = 1
    Calls = 3
INVARIANTS
    AtRest
    InTime
PROPERTIES
    AllAnswered
