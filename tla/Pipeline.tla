------------------------------ MODULE Pipeline ------------------------------
(***************************************************************************)
(* The chain: council, propose, swarm and review as one run that lives in  *)
(* the settings document.  One tool call advances it by one stage, in      *)
(* three steps other actors and a crash may come between: read a snapshot, *)
(* run the stage and write its gate, write the chain back.                 *)
(*                                                                         *)
(* The gates are those of module ApprovalJudge, shared with the standalone *)
(* tools.  Approve is one step here: module ApprovalGate takes it apart.   *)
(***************************************************************************)
EXTENDS Integers, Sequences, SequencesExt

CONSTANTS
    Runs, NoRun,       \* ids of chains (randomUUID), each with its own query
    Orders,            \* stage orders a chain may be started with
    Plans, NoPlan,     \* ids of gate plans
    Graphs, NoGraph,   \* task graphs a decomposition may return
    PlanTTL,           \* PLAN_TTL_MS, in ticks
    HoldTime,          \* DEFAULT_HOLD_MS, in ticks
    MaxTime,           \* bound: last tick of the clock
    MaxRestarts,       \* bound: host restarts
    WritesMayFail,     \* whether a settings write may be refused
    Bystanders         \* gates whose standalone tool is called too

Stages == {"council", "propose", "swarm", "review"}

ASSUME PipelineAssumption ==
    /\ NoRun \notin Runs /\ NoPlan \notin Plans /\ NoGraph \notin Graphs
    /\ Orders \subseteq Seq(Stages) \ {<<>>} /\ Orders # {}
    /\ \A o \in Orders : \A i, j \in DOMAIN o : o[i] = o[j] => i = j
    /\ PlanTTL \in Nat /\ HoldTime \in Nat \ {0}
    /\ MaxTime \in Nat /\ MaxRestarts \in Nat
    /\ WritesMayFail \in BOOLEAN /\ Bystanders \subseteq {"council", "propose", "swarm"}

Gates == {"council", "propose", "swarm"}
GateOf(stage) == IF stage = "review" THEN "council" ELSE stage

(* What a gate plan is for: a stage of a run, and the graph when there is  *)
(* one.  A standalone tool's plan belongs to no run.                       *)
Purpose == [ run : Runs \union {NoRun}, stage : Stages, graph : Graphs \union {NoGraph} ]
NoPurpose == [ run |-> NoRun, stage |-> "none", graph |-> NoGraph ]
INSTANCE ApprovalJudge WITH Jobs <- Purpose, NoJob <- NoPurpose

VARIABLES
    slot,            \* settings: the keys of each gate
    chain,           \* settings: the pipeline keys
    autoApprove,     \* settings: standing permission
    lastUserTurnAt,  \* host memory
    now,             \* Date.now()
    call,            \* host: the pipeline call in flight
    plan,            \* history: what each plan was for, pressed, paid
    worked,          \* history: the stages of a run whose work came back whole
    begun,           \* history: runs started so far
    restarts         \* history: host restarts

settings == <<slot, chain, autoApprove>>
hist == <<plan, worked, begun, restarts>>
vars == <<settings, lastUserTurnAt, now, call, hist>>

-----------------------------------------------------------------------------
(* PipelineState as stored.  candidates and picked name the run they come  *)
(* from.  The text of the approach and its winner are carried along, what  *)
(* the workers reported is written and never read back: both are left out. *)
Chain == [ id : Runs \union {NoRun}, order : Orders, stage : Stages,
           tasks : Graphs \union {NoGraph},
           candidates : Runs \union {NoRun},
           picked : Runs \union {NoRun}, hold : Nat ]

StartPipeline(r, order, picked) ==
    [ id |-> r, order |-> order, stage |-> order[1], tasks |-> NoGraph,
      candidates |-> NoRun, picked |-> picked, hold |-> 0 ]

Position(order, stage) == CHOOSE i \in DOMAIN order : order[i] = stage

(* Mutant: the index of the next stage is one too far.                     *)
NextStageSkips(order, stage) ==
    LET i == Position(order, stage) IN order[IF i + 1 < Len(order) THEN i + 2 ELSE Len(order)]

NextStage(order, stage) == order[Position(order, stage) + 1]

(* Mutant: the end of the order is met one stage early.                    *)
LastStageEarly(s) == Position(s.order, s.stage) + 1 >= Len(s.order)

LastStage(s) == Position(s.order, s.stage) = Len(s.order)

(* A hold ends at its time, or early when the session shows headroom.      *)
HoldElapsed(resumeAt, headroom) == now >= resumeAt \/ headroom

(* What a stage gave back: phase as its tool reports it, the graph,        *)
(* whether a version landed, until when a failure about allowance parks    *)
(* the chain (0: none was), and whether a problem was stated.  by is       *)
(* history: the plan a paid stage spent.                                   *)
Output == [ phase : {"none", "held", "plan", "full", "blocked"},
            graph : Graphs \union {NoGraph}, versions : BOOLEAN,
            hold : Nat, problem : BOOLEAN, by : Plans \union {NoPlan} ]
NoOutput == [ phase |-> "none", graph |-> NoGraph, versions |-> FALSE,
              hold |-> 0, problem |-> FALSE, by |-> NoPlan ]

Call == [ pc : {"idle", "called", "ran", "gated"}, state : Chain, snap : Slot,
          auto : BOOLEAN, headroom : BOOLEAN, out : Output ]

(* History of a plan: what it was issued for, when Approve was pressed,    *)
(* whether a message came after that, and which stages it paid for.        *)
PlanHistory == [ for : Purpose \union {NoPurpose}, pressedAt : Nat,
                 confirmed : BOOLEAN, paid : SUBSET (Runs \X Stages) ]
Issued(purpose) == [ for |-> purpose, pressedAt |-> 0, confirmed |-> FALSE, paid |-> {} ]

NoChain == StartPipeline(NoRun, CHOOSE o \in Orders : TRUE, NoRun)
IdleCall == [ pc |-> "idle", state |-> NoChain, snap |-> EmptySlot,
              auto |-> FALSE, headroom |-> FALSE, out |-> NoOutput ]

TypeOK ==
    /\ slot \in [Gates -> Slot]
    /\ chain \in Chain
    /\ autoApprove \in BOOLEAN
    /\ lastUserTurnAt \in Nat /\ now \in Nat
    /\ call \in Call
    /\ plan \in [Plans -> PlanHistory]
    /\ worked \in [Runs -> SUBSET Stages]
    /\ begun \subseteq Runs
    /\ restarts \in 0..MaxRestarts

Init ==
    /\ slot = [g \in Gates |-> EmptySlot]
    /\ chain = NoChain
    /\ autoApprove = FALSE
    /\ lastUserTurnAt = 0 /\ now = 1
    /\ call = IdleCall
    /\ plan = [p \in Plans |-> Issued(NoPurpose)]
    /\ worked = [r \in Runs |-> {}]
    /\ begun = {} /\ restarts = 0

-----------------------------------------------------------------------------
(* The tool is called: the chain in progress, or a new one (there is none, *)
(* or restart abandons it).  A new chain keeps the pick it finds.  The     *)
(* status line's cache, which another program writes, is consulted for a   *)
(* hold alone.                                                             *)
Snapshot(state) ==
    /\ call.pc = "idle"
    /\ \E headroom \in BOOLEAN :
         /\ headroom => state.hold # 0
         /\ call' = [IdleCall EXCEPT !.pc = "called", !.state = state, !.auto = autoApprove,
                       !.headroom = headroom, !.snap = slot[GateOf(state.stage)]]
    /\ UNCHANGED <<settings, lastUserTurnAt, now, plan, worked, restarts>>

Continue ==
    /\ chain.id # NoRun
    /\ Snapshot(chain)
    /\ UNCHANGED begun

Start(r, order) ==
    /\ r \notin begun
    /\ Snapshot(StartPipeline(r, order, chain.picked))
    /\ begun' = begun \union {r}

-----------------------------------------------------------------------------
(* After the pricing was fetched: the hold, or the stage.  The verdict is  *)
(* reached now, on the slot as the snapshot had it.                        *)
Parked == call.state.hold # 0 /\ ~HoldElapsed(call.state.hold, call.headroom)

(* Mutant: the press alone is enough, no message has to follow.            *)
ApprovedByPress == call.auto \/ (call.snap.pending # NoPlan /\ call.snap.approved = call.snap.pending)

Approved == call.auto \/ Allowed(call.snap, lastUserTurnAt, now)

StageGives(out) ==
    /\ call.pc = "called"
    /\ ~Parked
    /\ call' = [call EXCEPT !.pc = "ran", !.snap = EmptySlot, !.out = out]
    /\ UNCHANGED <<settings, lastUserTurnAt, now, begun, restarts>>

StayHeld ==
    /\ call.pc = "called"
    /\ Parked
    /\ call' = [call EXCEPT !.pc = "gated", !.out = [NoOutput EXCEPT !.phase = "held"]]
    /\ UNCHANGED <<settings, lastUserTurnAt, now, hist>>

(* A decomposition returns any graph; nothing else returns one.            *)
FreshGraphs == IF call.state.stage = "swarm" THEN Graphs ELSE {NoGraph}

(* Only an approved stage is handed the stored graph.                      *)
GraphsToRun == IF call.state.stage = "swarm" /\ call.state.tasks # NoGraph /\ Approved
               THEN {call.state.tasks}
               ELSE FreshGraphs

(* detectQuotaHold: no failure about allowance, or a hold from now.        *)
Holds == {0, now + HoldTime}

(* Not approved: the stage plans and stops.  Only a council's planning     *)
(* round reports failures.                                                 *)
StopAtGate ==
    /\ ~Approved
    /\ \E graph \in FreshGraphs, hold \in Holds :
         /\ hold # 0 => GateOf(call.state.stage) = "council"
         /\ StageGives([NoOutput EXCEPT !.phase = "plan", !.graph = graph, !.hold = hold])
    /\ UNCHANGED <<plan, worked>>

(* Approved: the stage does its paid work, all of it or with a seat that   *)
(* ran out of allowance.                                                   *)
DoWork ==
    /\ Approved
    /\ LET s == call.state
           by == IF call.auto THEN NoPlan ELSE call.snap.pending
       IN  \E graph \in GraphsToRun, hold \in Holds, versions \in BOOLEAN :
             /\ versions => s.stage = "propose"
             /\ StageGives([NoOutput EXCEPT !.phase = "full", !.graph = graph, !.hold = hold,
                                            !.versions = versions, !.by = by])
             /\ plan' = [p \in Plans |-> IF p = by
                   THEN [plan[p] EXCEPT !.paid = @ \union {<<s.id, s.stage>>}] ELSE plan[p]]
             /\ worked' = IF hold # 0 THEN worked
                          ELSE [worked EXCEPT ![s.id] = @ \union {s.stage}]

(* No seat or root will do, or the graph does not hold.  A swarm with no   *)
(* seat left, or none for one unit, says so in its report alone: no        *)
(* problem is stated, and the empty or unassigned graph is its output.     *)
Block ==
    /\ \/ /\ call.state.stage \in {"propose", "swarm"}
          /\ StageGives([NoOutput EXCEPT !.phase = "blocked", !.problem = TRUE])
       \/ /\ call.state.stage = "swarm"
          /\ \E graph \in GraphsToRun \union {NoGraph} :
               StageGives([NoOutput EXCEPT !.phase = "blocked", !.graph = graph])
    /\ UNCHANGED <<plan, worked>>

-----------------------------------------------------------------------------
(* The gate is written before the chain: a plan that stopped there is      *)
(* issued, an approval that was spent is retired.                          *)
Free(p) == /\ p \notin {call.snap.pending, call.out.by}
           /\ \A g \in Gates : p \notin {slot[g].pending, slot[g].approved}

Issue(g, purpose) ==
    \E p \in Plans :
        /\ Free(p)
        /\ slot' = [slot EXCEPT ![g] = IssuedSlot(p, purpose, now)]
        /\ plan' = [plan EXCEPT ![p] = Issued(purpose)]

(* Mutant: the retirement writes what a settings update leaves unchanged.  *)
RetireNothing(g) == UNCHANGED slot

Retire(g) == slot' = [slot EXCEPT ![g] = EmptySlot]

WriteGate ==
    LET s == call.state
        g == GateOf(s.stage)
    IN  /\ call.pc = "ran"
        /\ call' = [call EXCEPT !.pc = "gated"]
        /\ CASE call.out.phase = "plan" ->
                   Issue(g, [run |-> s.id, stage |-> s.stage, graph |-> call.out.graph])
             [] call.out.phase = "full" -> Retire(g) /\ UNCHANGED plan
             [] OTHER -> UNCHANGED <<slot, plan>>
        /\ UNCHANGED <<chain, autoApprove, lastUserTurnAt, now, worked, begun, restarts>>

(* The chain as the call leaves it.                                        *)
Result ==
    LET s == call.state
        o == call.out
        resumed == [s EXCEPT !.hold = 0]
        carried == [resumed EXCEPT !.tasks = IF s.stage = "swarm" THEN o.graph ELSE @]
        landed == [carried EXCEPT !.candidates = IF s.stage # "propose" THEN @
                                                 ELSE IF o.versions THEN s.id ELSE NoRun]
    IN  IF o.phase = "held" THEN s
        ELSE IF o.hold # 0 THEN [landed EXCEPT !.hold = o.hold]
        ELSE IF o.problem THEN resumed
        ELSE IF o.phase # "full" THEN carried
        ELSE IF LastStage(s) THEN [landed EXCEPT !.id = NoRun]
        ELSE [landed EXCEPT !.stage = NextStage(s.order, s.stage)]

(* Mutant: the pick is written back as the call read it.                   *)
PickAsRead == IF Result.id = NoRun THEN NoRun ELSE call.state.picked

(* Only the end of a chain writes the pick, to clear it.                   *)
PickAfter == IF Result.id = NoRun THEN NoRun ELSE chain.picked

WriteChain ==
    /\ call.pc = "gated"
    /\ chain' = [Result EXCEPT !.picked = PickAfter]
    /\ call' = IdleCall
    /\ UNCHANGED <<slot, autoApprove, lastUserTurnAt, now, hist>>

(* A refused write throws the call away where it stands.                   *)
WriteRefused ==
    /\ WritesMayFail
    /\ call.pc \in {"ran", "gated"}
    /\ call' = IdleCall
    /\ UNCHANGED <<settings, lastUserTurnAt, now, hist>>

-----------------------------------------------------------------------------
(* The browser.  The strip shows one thing: the pick of a version while     *)
(* candidates wait for one, or else the first gate of three that holds a   *)
(* plan, with no controls once it expired.  A plan of the pipeline can     *)
(* only be approved there; the card of a standalone council or swarm call  *)
(* offers the controls for its own plan besides.                           *)
PickWaits == chain.candidates # NoRun /\ chain.picked = NoRun

StripOrder == <<"propose", "swarm", "council">>
OnStrip(g) ==
    /\ ~PickWaits
    /\ \A i \in 1..(Position(StripOrder, g) - 1) : slot[StripOrder[i]].pending = NoPlan
    /\ ~PlanExpired(slot[g], now)
OnCard(g) == g # "propose" /\ slot[g].job.run = NoRun

Approvable(g) ==
    /\ slot[g].pending # NoPlan
    /\ slot[g].approved # slot[g].pending
    /\ ~autoApprove
    /\ OnStrip(g) \/ OnCard(g)

Approve(g) ==
    /\ Approvable(g)
    /\ slot' = [slot EXCEPT ![g].approved = slot[g].pending, ![g].approvedAt = now]
    /\ plan' = [plan EXCEPT ![slot[g].pending].pressedAt = now]
    /\ UNCHANGED <<chain, autoApprove, lastUserTurnAt, now, call, worked, begun, restarts>>

Discard(g) ==
    /\ Approvable(g)
    /\ slot' = [slot EXCEPT ![g].pending = NoPlan]
    /\ UNCHANGED <<chain, autoApprove, lastUserTurnAt, now, call, hist>>

Pick ==
    /\ PickWaits
    /\ chain' = [chain EXCEPT !.picked = chain.candidates]
    /\ UNCHANGED <<slot, autoApprove, lastUserTurnAt, now, call, hist>>

ToggleAutoApprove ==
    /\ autoApprove' = ~autoApprove
    /\ UNCHANGED <<slot, chain, lastUserTurnAt, now, call, hist>>

UserTurn ==
    /\ lastUserTurnAt' = now
    /\ plan' = [p \in Plans |-> [plan[p] EXCEPT !.confirmed = @ \/ plan[p].pressedAt \in 1..(now - 1)]]
    /\ UNCHANGED <<settings, now, call, worked, begun, restarts>>

(* A standalone tool, between two calls of the pipeline: it stops at its   *)
(* gate with a plan of its own, or spends whatever approval the gate holds. *)
BystanderIssues(g) ==
    /\ g \in Bystanders /\ call.pc = "idle" /\ ~autoApprove
    /\ ~HeldUnapproved(slot[g], autoApprove, now)
    /\ ~Allowed(slot[g], lastUserTurnAt, now)
    /\ \E graph \in IF g = "swarm" THEN Graphs ELSE {NoGraph} :
         Issue(g, [run |-> NoRun, stage |-> g, graph |-> graph])
    /\ UNCHANGED <<chain, autoApprove, lastUserTurnAt, now, call, worked, begun, restarts>>

BystanderSpends(g) ==
    /\ g \in Bystanders /\ call.pc = "idle"
    /\ Allowed(slot[g], lastUserTurnAt, now)
    /\ Retire(g)
    /\ UNCHANGED <<chain, autoApprove, lastUserTurnAt, now, call, hist>>

Restart ==
    /\ restarts < MaxRestarts
    /\ restarts' = restarts + 1
    /\ lastUserTurnAt' = 0
    /\ call' = IdleCall
    /\ UNCHANGED <<settings, now, plan, worked, begun>>

Tick ==
    /\ now < MaxTime
    /\ now' = now + 1
    /\ UNCHANGED <<settings, lastUserTurnAt, call, hist>>

Next ==
    \/ Continue
    \/ \E r \in Runs, order \in Orders : Start(r, order)
    \/ StayHeld \/ StopAtGate \/ DoWork \/ Block
    \/ WriteGate \/ WriteChain \/ WriteRefused
    \/ \E g \in Gates : \/ Approve(g) \/ Discard(g)
                        \/ BystanderIssues(g) \/ BystanderSpends(g)
    \/ Pick \/ ToggleAutoApprove \/ UserTurn \/ Restart \/ Tick

Spec == Init /\ [][Next]_vars

-----------------------------------------------------------------------------
(* Each stage passes the gate of the tool that spends: without standing    *)
(* permission, paid work is done on a plan of that gate which a person     *)
(* pressed Approve on and then sent a message.                             *)
StagePassesItsGate ==
    call.pc \in {"ran", "gated"} /\ call.out.phase = "full" /\ ~call.auto =>
        LET p == call.out.by
        IN  /\ p \in Plans
            /\ GateOf(plan[p].for.stage) = GateOf(call.state.stage)
            /\ plan[p].confirmed

(* The approval that let one stage of a chain work never carries the next, *)
(* although council and review share a gate.                               *)
ApprovalCarriesOneStage ==
    \A p \in Plans : \A a, b \in plan[p].paid : a[1] = b[1] => a[2] = b[2]

(* A chain never comes to a stage before the work of every earlier stage   *)
(* came back whole, and a run is over only when that of each of its stages *)
(* did, holds, crashes and abandoned calls included.                       *)
Before(s) == { s.order[i] : i \in 1..(Position(s.order, s.stage) - 1) }
IsOver == chain'.id = NoRun /\ chain' # chain /\ call' # call

StagesWhole ==
    [][ /\ chain'.id # NoRun => Before(chain') \subseteq worked'[chain'.id]
        /\ IsOver => ToSet(call.state.order) \subseteq worked[call.state.id] ]_vars

(* The pick a person made is still there for the stage that builds it,     *)
(* whatever calls were under way: only the end of a run clears it.         *)
PickSurvives ==
    [][chain.picked # NoRun /\ chain'.picked # chain.picked
         => chain'.id = NoRun /\ LastStage(call.state)]_vars

(* Whatever the stages do, whatever is pressed meanwhile, and whichever    *)
(* write is refused, the chain is the one ChainSteps describes: no call    *)
(* skips a stage, works on what another one left, or parks it elsewhere.   *)
AsPromised(s) ==
    IF s.id = NoRun THEN [ id |-> NoRun, order |-> <<>>, at |-> 0, hold |-> 0 ]
    ELSE [ id |-> s.id, order |-> s.order, at |-> Position(s.order, s.stage), hold |-> s.hold ]

Promised == INSTANCE ChainSteps WITH
    chain <- AsPromised(chain),
    called <- IF call.pc = "idle" THEN {}
              ELSE {[read |-> AsPromised(call.state), until |-> call.out.hold]}

KeepsPromises == Promised!ChainSpec
=============================================================================
