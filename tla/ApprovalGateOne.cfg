\* One tool call at a time, two of the gates, refused writes and a restart.
SPECIFICATION Spec
CONSTANTS
    Plans = {p1, p2}
    NoPlan = NoPlan
    Jobs = {j1, j2}
    NoJob = NoJob
    PlanTTL = 1
    Gates = {"council", "propose"}
    Calls = {c1}
    MaxTime = 3
    MaxRestarts = 1
    WritesMayFail = TRUE
SYMMETRY Interchangeable
INVARIANTS
    Consent
    SingleUse
PROPERTIES
    HeldPlanStands
    KeepsPromise
