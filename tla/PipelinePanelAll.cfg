\* Chains of two stages, parked and resumed, and the control mounted twice.
SPECIFICATION PanelSpec
CONSTANTS
    Runs = {r1, r2}
    NoRun = NoRun
    Orders <- TwoStages
    HoldTime = 1
    MaxTime = 3
    MaxMounts = 1
    MaxSending = 1
    MaxRefused = 1
PROPERTIES
    HoldWakes
    AskedOnce
CHECK_DEADLOCK FALSE
