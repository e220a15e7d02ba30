\* Three seats, one probed and one hosted, two grades of confidence.
SPECIFICATION Spec
CHECK_DEADLOCK FALSE
CONSTANTS
    NumSeats = 3
    Confidences = {1, 3}
    Calls <- MCCalls
    Local = {1}
    Hosted = {2}
    Preferred = 3
    Audits = {0, 5}
INVARIANTS
    PlanningEndsWell
    FiledWell
    PenaltyNeverHelps
PROPERTIES
    AbsentAskedOnce
    RunEnds
