\* One chain through all four stages; any write may be refused, the host may
\* restart, and the standalone council shares the council's gate.
SPECIFICATION Spec
CONSTANTS
    Runs = {r1}
    NoRun = NoRun
    Orders <- BuildOrder
    Plans = {p1, p2}
    NoPlan = NoPlan
    Graphs = {g1}
    NoGraph = NoGraph
    PlanTTL = 1
    HoldTime = 1
    MaxTime = 3
    MaxRestarts = 1
    WritesMayFail = TRUE
    Bystanders = {"council"}
SYMMETRY Interchangeable
VIEW Relevant
INVARIANTS
    StagePassesItsGate
    ApprovalCarriesOneStage
PROPERTIES
    StagesWhole
    PickSurvives
    KeepsPromises
