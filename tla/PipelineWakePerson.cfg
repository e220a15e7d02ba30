\* Who sent the message that confirms an approval; the code lets it be the control.
SPECIFICATION WakeSpec
CONSTANTS
    Runs = {r1}
    NoRun = NoRun
    Orders <- BuildOrder
    Plans = {p1, p2}
    NoPlan = NoPlan
    Graphs = {g1}
    NoGraph = NoGraph
    PlanTTL = 1
    HoldTime = 1
    MaxTime = 3
    MaxRestarts = 0
    WritesMayFail = FALSE
    Bystanders = {}
INVARIANT
    PersonSpoke
