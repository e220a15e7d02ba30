\* A round of up to three queries, two at a time, on three lanes.
SPECIFICATION ResearchSpec
CHECK_DEADLOCK FALSE
CONSTANTS
    x = x  y = y  z = z  w = w
    LaneCount = 3
    Metered = {3}
    Keyed = {1, 2, 3}
    Capacity <- MCCapacity
    Policies = {"balanced", "cheapest", "fastest"}
    Cooldown = 1
    Searches <- MCSearches
    Signals = {"round"}
    SignalOf <- MCSignalOf
    Spellings = 2
    MaxSources = 1
    Horizon = 1
    Keys = {x, y, z, w}
    Replies <- MCReplies
    PerSeat = 2
    MaxQueries = 3
    Widths = {2}
    Shared = 0
INVARIANTS
    Accounted
    CostLeads
    BenchStands
    RoundWhole
PROPERTIES
    RoundEnds
