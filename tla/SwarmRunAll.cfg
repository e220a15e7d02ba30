\* Graphs of up to three units, valid and not, under four rosters.
SPECIFICATION Spec
CHECK_DEADLOCK FALSE
CONSTANTS
    a = a  b = b  c = c  ghost = ghost
    Ids = {a, b, c, ghost}
    MaxTasks = 3
    Files = {1, 2}
    Seats = {1, 2, 3}
    Calls <- MCCalls
    Rosters <- MCRosters
    Replies <- MCReplies
INVARIANTS
    WholeGraphRuns
    AskedInOrder
    CirclesFound
    KeepsToPlan
    LoadIsSpread
PROPERTIES
    RunEnds
