\* Two tool calls may overlap; no write is refused and the host never stops.
SPECIFICATION Spec
CONSTANTS
    Plans = {p1, p2}
    NoPlan = NoPlan
    Jobs = {j1, j2}
    NoJob = NoJob
    PlanTTL = 1
    Gates = {"swarm"}
    Calls = {c1, c2}
    MaxTime = 3
    MaxRestarts = 0
    WritesMayFail = FALSE
INVARIANT
    SingleUse
