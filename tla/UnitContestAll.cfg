\* Units of both modes, and proposing rounds, over two or three free seats and up to two paid.
SPECIFICATION RoundSpec
CHECK_DEADLOCK FALSE
CONSTANTS
    a = a  b = b  out = out
    NumSeats = 5
    Confidences = {1}
    FreeSeats = {1, 2, 5}
    Contests <- MCContests
    Files = {a, b, out}
    Granted = {a, b}
    Wanted <- MCWanted
    Proposals <- MCProposals
    MaxReads = 2
    MaxFileChars = 2
    MaxTotalChars = 3
    MaxWriteChars = 2
    MaxWriteTotal = 3
INVARIANTS
    HandsOnWell
    WithinBounds
PROPERTIES
    ContestEnds
