------------------------------- MODULE Roster -------------------------------
(***************************************************************************)
(* Which seat takes which unit (roster.ts).  Seats are numbered in the     *)
(* alphabetical order of their ids; a worker is a seat with its switch,    *)
(* its cost class and the kinds of work it takes.                          *)
(***************************************************************************)
EXTENDS Integers, Sequences, FiniteSets

CONSTANT Seats

ASSUME RosterAssumption == Seats \subseteq Nat \ {0}

Nobody == 0

(* Cost classes, the scarcest last.                                        *)
Free == 0
Included == 1
Metered == 2

Kinds == {"code", "review", "other", "any"}
Worker == [ on : BOOLEAN, cost : {Free, Included, Metered}, kinds : SUBSET Kinds ]

Accepts(worker, kind) == worker.kinds \intersect {kind, "any"} # {}

(* Mutant: a unit may name any worker at all.                              *)
MayBeNamedAny(roster, s) == s \in DOMAIN roster

(* A name is honoured only when its worker is switched on.                 *)
MayBeNamed(roster, s) == s \in DOMAIN roster /\ roster[s].on

Held(prior, s) == Cardinality({i \in DOMAIN prior : prior[i] = s})

(* Mutant: the load of a worker is not looked at.                          *)
BetterByName(roster, prior, ignoreCost, s, t) ==
    IF ~ignoreCost /\ roster[s].cost # roster[t].cost THEN roster[s].cost < roster[t].cost
    ELSE s <= t

(* Cheapest class first unless cost is ignored, then least loaded, then by *)
(* name.                                                                   *)
Better(roster, prior, ignoreCost, s, t) ==
    IF ~ignoreCost /\ roster[s].cost # roster[t].cost THEN roster[s].cost < roster[t].cost
    ELSE IF Held(prior, s) # Held(prior, t) THEN Held(prior, s) < Held(prior, t)
    ELSE s <= t

(* The worker for one unit, given those the units before it went to: the   *)
(* one it names, the one that earned its kind, or the best that takes it.  *)
WorkerFor(task, roster, earned, prior) ==
    LET able == {s \in DOMAIN roster : roster[s].on /\ Accepts(roster[s], task.kind)}
        earner == IF earned.ignoreCost /\ task.kind = "code" THEN earned.winner ELSE Nobody
    IN  IF MayBeNamed(roster, task.provider) THEN task.provider
        ELSE IF earner \in able THEN earner
        ELSE IF able = {} THEN Nobody
        ELSE CHOOSE s \in able : \A t \in able : Better(roster, prior, earned.ignoreCost, s, t)

(* The units are taken in the order they were listed.                      *)
AssignWorkers(tasks, roster, earned) ==
    LET plan[n \in 0..Len(tasks)] ==
            IF n = 0 THEN <<>>
            ELSE Append(plan[n - 1], WorkerFor(tasks[n], roster, earned, plan[n - 1]))
    IN  plan[Len(tasks)]
=============================================================================
