------------------------------ MODULE SwarmRun ------------------------------
(***************************************************************************)
(* One run of the swarm (swarm.ts, runSwarm): a request is split into a    *)
(* graph of units or a stored graph is taken, the graph is checked, its    *)
(* units are assigned to seats, and, when the gate has been passed, they   *)
(* are run wave by wave.                                                   *)
(*                                                                         *)
(* What a seat answers is open: it fails, asks to be shown files, or does  *)
(* the unit.  With a profile a unit is a contest of several seats, which   *)
(* here is one answer that takes its time.                                 *)
(***************************************************************************)
EXTENDS TaskGraph, Roster

CONSTANTS
    Files,    \* files a unit may target
    Calls,    \* the calls to consider: options, and a stored graph or none
    Rosters,  \* the rosters to consider
    Replies   \* the graphs a planning seat may write

Task ==
    [ id : Ids, after : SUBSET Ids, files : SUBSET Files, acceptance : BOOLEAN,
      kind : Kinds, tier : {"ui", "general"}, provider : Seats \union {Nobody} ]

ASSUME SwarmAssumption ==
    /\ \A graph \in Replies \union {c.graph : c \in Calls} : graph \in Seq(Task)
    /\ \A seats \in Rosters : DOMAIN seats \subseteq Seats /\ seats \in [DOMAIN seats -> Worker]

VARIABLES
    call,       \* the options of the run
    roster,     \* the seats and the overrides for them, as the run reads them
    tasks,      \* the graph
    phase,      \* how far the run is; "plan", "blocked" and "full" end it
    remaining,  \* units not yet removed in the search for a circle
    plan,       \* the seat each unit is assigned to
    wave,       \* the units of the wave that runs
    unit        \* what became of each unit

vars == <<call, roster, tasks, phase, remaining, plan, wave, unit>>

NoTasks == <<>>
Units == IdsOf(tasks)
Done == {u \in Units : unit[u] \in {"ok", "failed", "skipped"}}
Ended == {"plan", "blocked", "full"}
UnitStates == {"waiting", "queued", "asked", "asked again", "ok", "failed", "skipped"}

TypeOK ==
    /\ call \in Calls
    /\ roster \in [DOMAIN roster -> Worker] /\ DOMAIN roster \subseteq Seats
    /\ phase \in {"start", "asking", "checking", "assigning", "running"} \union Ended
    /\ remaining \subseteq Units
    /\ plan \in Seq(Seats \union {Nobody}) /\ Len(plan) \in {0, Len(tasks)}
    /\ wave \subseteq Units
    /\ unit \in [Ids -> UnitStates]

Init ==
    /\ call \in Calls
    /\ roster \in Rosters
    /\ tasks = NoTasks
    /\ phase = "start"
    /\ remaining = {}
    /\ plan = <<>>
    /\ wave = {}
    /\ unit = [u \in Ids |-> "waiting"]

-----------------------------------------------------------------------------
(* The fastest mode works with paid seats only.                            *)
Working ==
    {s \in DOMAIN roster : call.profile = "fastest" => roster[s].cost # Free}
Enabled == {s \in Working : roster[s].on}
Workers == [s \in Working |-> roster[s]]

(* A mode is planned by a paid seat.                                       *)
Planners == {s \in Enabled : call.profile # "none" => roster[s].cost # Free}

Blocked(graph) ==
    /\ phase' = "blocked"
    /\ tasks' = graph
    /\ remaining' = {}
    /\ UNCHANGED <<call, roster, plan, wave, unit>>

Check(graph) ==
    /\ phase' = "checking"
    /\ tasks' = graph
    /\ remaining' = IdsOf(graph)
    /\ UNCHANGED <<call, roster, plan, wave, unit>>

(* A run with a stored graph plans nothing; one without asks a planner.    *)
Start ==
    /\ phase = "start"
    /\ IF Enabled = {} \/ (Planners = {} /\ ~call.stored) THEN Blocked(NoTasks)
       ELSE IF call.stored THEN Check(call.graph)
       ELSE phase' = "asking" /\ UNCHANGED <<call, roster, tasks, remaining, plan, wave, unit>>

(* The planner fails, writes no graph that can be read, leaves the id or   *)
(* the title of a unit out, or writes a graph.                             *)
Decompose ==
    /\ phase = "asking"
    /\ \E graph \in Replies : Blocked(NoTasks) \/ Blocked(graph) \/ Check(graph)

-----------------------------------------------------------------------------
(* Mutant: one predecessor out of the way is enough.                       *)
RemovableSome(u) == After(tasks, u) = {} \/ ~(After(tasks, u) \subseteq remaining)

(* A unit is removed once none of those it follows remains.                *)
Removable(u) == After(tasks, u) \intersect remaining = {}

Prune(u) ==
    /\ phase = "checking"
    /\ u \in remaining /\ Removable(u)
    /\ remaining' = remaining \ {u}
    /\ UNCHANGED <<call, roster, tasks, phase, plan, wave, unit>>

Contestants(task) == {s \in DOMAIN roster :
    roster[s].on /\ roster[s].cost = Free /\ Accepts(roster[s], task.kind)}

(* A mode needs a paid reviewer; economy needs two free seats for a unit.  *)
Understaffed ==
    /\ call.profile # "none"
    /\ tasks # NoTasks
    /\ \/ ~\E s \in DOMAIN roster :
             roster[s].on /\ roster[s].cost # Free /\ Accepts(roster[s], "review")
       \/ /\ call.profile = "economy"
          /\ \E i \in DOMAIN tasks : Cardinality(Contestants(tasks[i])) < 2

(* What cannot be removed is in, or behind, a circle.                      *)
Checked ==
    /\ phase = "checking"
    /\ \A u \in remaining : ~Removable(u)
    /\ IF Faulty(tasks, call.profile) \/ remaining # {} \/ Understaffed
       THEN Blocked(tasks)
       ELSE phase' = "assigning" /\ UNCHANGED <<call, roster, tasks, remaining, plan, wave, unit>>

(* A unit of the interface goes to the seat whose sample the user picked.  *)
Routed ==
    [i \in DOMAIN tasks |->
        IF /\ tasks[i].tier = "ui"
           /\ call.picked \in Enabled /\ Accepts(roster[call.picked], tasks[i].kind)
        THEN [tasks[i] EXCEPT !.provider = call.picked] ELSE tasks[i]]

Earned == [ ignoreCost |-> call.profile = "fastest", winner |-> call.winner ]

Assign ==
    /\ phase = "assigning"
    /\ plan' = AssignWorkers(Routed, Workers, Earned)
    /\ phase' = IF \E i \in DOMAIN plan' : plan'[i] = Nobody THEN "blocked"
                ELSE IF call.approved THEN "running" ELSE "plan"
    /\ UNCHANGED <<call, roster, tasks, remaining, wave, unit>>

-----------------------------------------------------------------------------
(* Mutant: a unit that was run stays on the list.                          *)
ReadyAgain == {u \in Units : After(tasks, u) \subseteq Done}

Ready == {u \in Units \ Done : After(tasks, u) \subseteq Done}

(* The units whose predecessors have reported, well or badly, run          *)
(* together; when there is none the run is over.                           *)
StartWave ==
    /\ phase = "running" /\ wave = {}
    /\ wave' = Ready
    /\ phase' = IF Ready = {} THEN "full" ELSE phase
    /\ unit' = [u \in Ids |-> IF u \in Ready THEN "queued" ELSE unit[u]]
    /\ UNCHANGED <<call, roster, tasks, remaining, plan>>

(* Mutant: a seat is asked for a unit whatever became of those it follows.  *)
MustSkipNever(u) == FALSE

(* A unit one of whose predecessors failed, or was skipped, is not run.    *)
MustSkip(u) == \E d \in After(tasks, u) : unit[d] \in {"failed", "skipped"}

Move(u, to) ==
    /\ unit' = [unit EXCEPT ![u] = to]
    /\ UNCHANGED <<call, roster, tasks, phase, remaining, plan, wave>>

(* One at a time, or all of the wave together.                             *)
TurnOf(u) == call.sequential => \A v \in wave : unit[v] \notin {"asked", "asked again"}

Skip(u) == unit[u] = "queued" /\ MustSkip(u) /\ TurnOf(u) /\ Move(u, "skipped")
Ask(u) == unit[u] = "queued" /\ ~MustSkip(u) /\ TurnOf(u) /\ Move(u, "asked")

(* Without a profile a worker may ask to be shown files, once.             *)
ShowFiles(u) == unit[u] = "asked" /\ call.profile = "none" /\ Move(u, "asked again")

(* A second call that fails leaves the first reply in place.               *)
Answer(u) ==
    \/ unit[u] \in {"asked", "asked again"} /\ Move(u, "ok")
    \/ unit[u] = "asked" /\ Move(u, "failed")

EndWave ==
    /\ wave # {} /\ wave \subseteq Done
    /\ wave' = {}
    /\ UNCHANGED <<call, roster, tasks, phase, remaining, plan, unit>>

Next ==
    \/ Start \/ Decompose \/ Checked \/ Assign \/ StartWave \/ EndWave
    \/ \E u \in Ids : Prune(u) \/ Skip(u) \/ Ask(u) \/ ShowFiles(u) \/ Answer(u)

(* The loops run by themselves; a seat's call ends, by timeout if need be. *)
Fairness == WF_vars(Next)

Spec == Init /\ [][Next]_vars /\ Fairness

-----------------------------------------------------------------------------
(* decompose.ts: "A validated graph cannot stall".  A run that reaches its *)
(* end has a result for every unit: the wave loop never gave up on some.   *)
WholeGraphRuns == phase = "full" => Done = Units

(* A seat is only asked for a unit all of whose predecessors reported and  *)
(* did not fail; a failure is passed on however long the chain, and to     *)
(* nothing off it: what is left out follows one that failed or was left    *)
(* out itself, in whatever order a wave reports (swarm.ts:480-481).        *)
AskedInOrder ==
    \A u \in Units :
        /\ unit[u] \in {"asked", "asked again", "ok"} =>
             \A d \in After(tasks, u) : unit[d] = "ok"
        /\ unit[u] = "skipped" =>
             \E d \in After(tasks, u) : unit[d] \in {"failed", "skipped"}

(* The search by removal finds exactly the circular graphs: what it leaves *)
(* is circular, and what it lets through has no circle anywhere.           *)
CirclesFound ==
    /\ phase = "assigning" => \A S \in SUBSET Units : Knot(tasks, S) => S = {}
    /\ phase = "checking" => \A S \in SUBSET Units : Knot(tasks, S) => S \subseteq remaining

(* roster.ts: "Off workers are never assigned, whatever a decomposition    *)
(* suggests", nor is a free one in the fastest mode.                       *)
OffNeverAssigned ==
    \A i \in DOMAIN plan : plan[i] # Nobody =>
        /\ roster[plan[i]].on
        /\ call.profile = "fastest" => roster[plan[i]].cost # Free

(* roster.ts: "so one subscription is not drained while another sits       *)
(* idle": of two workers of one class that take the same kinds, one never  *)
(* has two units more than the other, but for units that name a worker.    *)
LoadIsSpread ==
    \A s, t \in Enabled :
        /\ roster[s].cost = roster[t].cost /\ roster[s].kinds = roster[t].kinds
        /\ \A i \in DOMAIN plan : Routed[i].provider \notin Enabled
        /\ call.winner \notin Enabled
        => Held(plan, s) <= Held(plan, t) + 1

(* Units of a mode never target the same file, so no accepted artefact     *)
(* overwrites another.                                                     *)
FilesApart ==
    call.profile # "none" /\ phase = "running" =>
        \A u, v \in Units : u # v => FilesOf(tasks, u) \intersect FilesOf(tasks, v) = {}

(* Asked to go one at a time, the run never has two calls out.             *)
OneAtATime ==
    call.sequential =>
        \A u, v \in Units : unit[u] \in {"asked", "asked again"}
                              /\ unit[v] \in {"asked", "asked again"} => u = v

(* What a run keeps to while it goes on: its roster, its files, its pace.  *)
KeepsToPlan == TypeOK /\ OffNeverAssigned /\ FilesApart /\ OneAtATime

(* Every run ends, whatever graph the planner wrote.                       *)
RunEnds == <>(phase \in Ended)
=============================================================================
