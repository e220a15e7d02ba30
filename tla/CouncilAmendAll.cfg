\* Three seats, two callers, and one amendment more than the cap of three.
SPECIFICATION AmendSpec
CHECK_DEADLOCK FALSE
SYMMETRY Alike
CONSTANTS
    NumSeats = 3
    Confidences = {}
    Callers = {c1, c2}
    MAX_AMENDMENTS = 3
    MaxCalls = 4
INVARIANTS
    RetriesCapped
    FirstReportHonest
PROPERTIES
    FirstAnswersKept
