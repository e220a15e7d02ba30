--------------------------- MODULE PipelineProofs ---------------------------
(***************************************************************************)
(* The chain for any number of runs, any orders of its stages, any plans   *)
(* and any bystanders: its type, that it is the one ChainSteps describes,  *)
(* that no stage is reached before the work of those before it, and that   *)
(* every stage passes its gate on an approval of its own.                  *)
(***************************************************************************)
EXTENDS Pipeline, TLAPS

(* A chain is at a stage of its order.                                     *)
InOrder(s) == \E i \in DOMAIN s.order : s.order[i] = s.stage

(* A call under way works on a run, and has nothing to give back before    *)
(* its stage ran.                                                          *)
Shape ==
    /\ InOrder(chain) /\ InOrder(call.state)
    /\ call.pc # "idle" => call.state.id \in Runs
    /\ call.pc = "called" => call.out = NoOutput
    /\ call.out.hold # 0 => call.out.phase \in {"plan", "full"}

-----------------------------------------------------------------------------
(* The orders of a chain.                                                  *)
LEMMA OrderIsList ==
    ASSUME NEW o \in Orders
    PROVE  /\ o \in Seq(Stages) /\ Len(o) \in Nat \ {0}
           /\ DOMAIN o = 1..Len(o) /\ 1 \in DOMAIN o
           /\ \A i \in DOMAIN o : o[i] \in Stages
           /\ \A i, j \in DOMAIN o : o[i] = o[j] => i = j
<1>1. o \in Seq(Stages) /\ o # <<>>
      BY PipelineAssumption
<1>2. \A i, j \in DOMAIN o : o[i] = o[j] => i = j
      BY PipelineAssumption
<1> QED BY <1>1, <1>2

LEMMA PositionOf ==
    ASSUME NEW o \in Orders, NEW i \in DOMAIN o
    PROVE  Position(o, o[i]) = i
<1> QED BY OrderIsList DEF Position

LEMMA PositionIn ==
    ASSUME NEW s \in Chain, InOrder(s)
    PROVE  /\ Position(s.order, s.stage) \in 1..Len(s.order)
           /\ s.order[Position(s.order, s.stage)] = s.stage
           /\ Len(s.order) \in Nat
           /\ \A i \in 1..Len(s.order) : s.order[i] \in Stages
<1>1. s.order \in Orders
      BY DEF Chain
<1>2. PICK i \in DOMAIN s.order : s.order[i] = s.stage
      BY DEF InOrder
<1>3. Position(s.order, s.stage) = i
      BY <1>1, <1>2, PositionOf
<1> QED BY <1>1, <1>2, <1>3, OrderIsList

LEMMA NewIsChain ==
    ASSUME NEW r \in Runs \union {NoRun}, NEW o \in Orders, NEW p \in Runs \union {NoRun}
    PROVE  /\ StartPipeline(r, o, p) \in Chain /\ InOrder(StartPipeline(r, o, p))
           /\ Position(o, o[1]) = 1
<1>1. 1 \in DOMAIN o /\ o[1] \in Stages
      BY OrderIsList
<1>2. Position(o, o[1]) = 1
      BY <1>1, PositionOf
<1> QED BY <1>1, <1>2 DEF StartPipeline, Chain, InOrder

LEMMA NoChainIsChain == NoChain \in Chain /\ InOrder(NoChain) /\ NoChain.id = NoRun
<1>1. (CHOOSE o \in Orders : TRUE) \in Orders
      BY PipelineAssumption
<1>2. NoChain \in Chain /\ InOrder(NoChain)
      BY <1>1, NewIsChain DEF NoChain
<1>3. NoChain.id = NoRun
      BY DEF NoChain, StartPipeline
<1> QED BY <1>2, <1>3

LEMMA Empties ==
    /\ EmptySlot \in Slot /\ NoOutput \in Output
    /\ IdleCall \in Call /\ InOrder(IdleCall.state)
    /\ IdleCall.pc = "idle" /\ IdleCall.out = NoOutput /\ IdleCall.snap = EmptySlot
    /\ NoOutput.hold = 0 /\ NoOutput.phase = "none"
<1>1. EmptySlot \in Slot
      BY DEF EmptySlot, Slot
<1>2. NoOutput \in Output
      BY DEF NoOutput, Output
<1>3. IdleCall \in Call
      BY <1>1, <1>2, NoChainIsChain DEF IdleCall, Call
<1> QED BY <1>1, <1>2, <1>3, NoChainIsChain DEF IdleCall, NoOutput

-----------------------------------------------------------------------------
(* A chain as a call leaves it: still a chain, at the same stage unless    *)
(* its work came back whole, and one stage on, or over, if it did.         *)
Whole == call.out.phase = "full" /\ call.out.hold = 0 /\ ~call.out.problem

LEMMA ResultIsChain ==
    ASSUME TypeOK, Shape, call.pc # "idle"
    PROVE  /\ Result \in Chain /\ InOrder(Result)
           /\ Result.order = call.state.order
           /\ ~Whole => Result.stage = call.state.stage /\ Result.id = call.state.id
           /\ Whole /\ LastStage(call.state) => Result.stage = call.state.stage /\ Result.id = NoRun
           /\ Whole /\ ~LastStage(call.state) =>
                /\ Result.stage = NextStage(call.state.order, call.state.stage)
                /\ Result.id = call.state.id
                /\ Position(Result.order, Result.stage) = Position(call.state.order, call.state.stage) + 1
                /\ Position(call.state.order, call.state.stage) + 1 \in 1..Len(call.state.order)
<1> DEFINE s == call.state  o == call.out
           at == Position(s.order, s.stage)
<1>1. s \in Chain /\ o \in Output /\ s.order \in Orders /\ s.id \in Runs
      BY DEF TypeOK, Call, Shape, Chain
<1>2. at \in 1..Len(s.order) /\ s.order[at] = s.stage /\ Len(s.order) \in Nat
      BY <1>1, PositionIn DEF Shape
<1>3. ASSUME at # Len(s.order)
      PROVE  /\ at + 1 \in 1..Len(s.order) /\ NextStage(s.order, s.stage) \in Stages
             /\ s.order[at + 1] = NextStage(s.order, s.stage)
             /\ Position(s.order, NextStage(s.order, s.stage)) = at + 1
      <2>1. at + 1 \in DOMAIN s.order
            BY <1>1, <1>2, <1>3, OrderIsList
      <2> QED BY <2>1, <1>1, <1>2, OrderIsList, PositionOf DEF NextStage
<1>4. Result \in Chain
      BY <1>1, <1>3 DEF Result, LastStage, Chain, Output
<1>5. /\ Result.order = s.order
      /\ ~Whole => Result.stage = s.stage /\ Result.id = s.id
      BY <1>1 DEF Result, Whole, Chain, Output
<1>6. Whole /\ LastStage(s) => Result.stage = s.stage /\ Result.id = NoRun
      BY <1>1 DEF Result, Whole, Chain, Output
<1>7. Whole /\ ~LastStage(s) => Result.stage = NextStage(s.order, s.stage) /\ Result.id = s.id
      BY <1>1 DEF Result, Whole, Chain, Output
<1>8. ~LastStage(s) => at # Len(s.order)
      BY DEF LastStage
<1>9. InOrder(Result)
      <2>1. CASE Result.stage = s.stage
            BY <2>1, <1>5 DEF Shape, InOrder
      <2>2. CASE Result.stage # s.stage
            BY <2>2, <1>1, <1>3, <1>5, <1>6, <1>7, <1>8, OrderIsList DEF InOrder
      <2> QED BY <2>1, <2>2
<1> QED BY <1>3, <1>4, <1>5, <1>6, <1>7, <1>8, <1>9

-----------------------------------------------------------------------------
(* Type and shape.                                                         *)
LEMMA ShapeInit == Init => TypeOK /\ Shape
<1> SUFFICES ASSUME Init PROVE TypeOK /\ Shape
    OBVIOUS
<1>1. slot \in [Gates -> Slot] /\ call \in Call /\ chain \in Chain
      BY Empties, NoChainIsChain DEF Init
<1>2. plan \in [Plans -> PlanHistory]
      BY DEF Init, Issued, PlanHistory
<1>3. worked \in [Runs -> SUBSET Stages] /\ begun \subseteq Runs
      BY DEF Init
<1>4. restarts \in 0..MaxRestarts /\ lastUserTurnAt \in Nat /\ now \in Nat
      BY PipelineAssumption DEF Init
<1>5. autoApprove \in BOOLEAN
      BY Zenon DEF Init
<1>6. TypeOK
      BY <1>1, <1>2, <1>3, <1>4, <1>5 DEF TypeOK
<1> QED BY <1>6, Empties, NoChainIsChain DEF Init, Shape

LEMMA SnapshotShape ==
    ASSUME TypeOK, Shape, NEW state \in Chain, InOrder(state), state.id \in Runs, Snapshot(state)
    PROVE  /\ call' \in Call /\ call'.pc = "called" /\ call'.state = state
           /\ call'.out = NoOutput /\ call'.snap = slot[GateOf(state.stage)]
           /\ UNCHANGED <<settings, lastUserTurnAt, now, plan, worked, restarts>>
<1>1. GateOf(state.stage) \in Gates
      BY DEF Chain, GateOf, Gates, Stages
<1>2. PICK headroom \in BOOLEAN :
        call' = [IdleCall EXCEPT !.pc = "called", !.state = state, !.auto = autoApprove,
                   !.headroom = headroom, !.snap = slot[GateOf(state.stage)]]
      BY DEF Snapshot
<1>3. IdleCall \in Call /\ IdleCall.out = NoOutput
      BY Empties
<1>4. slot[GateOf(state.stage)] \in Slot /\ autoApprove \in BOOLEAN
      BY <1>1 DEF TypeOK
<1> QED BY <1>2, <1>3, <1>4 DEF Call, Snapshot

LEMMA StageGivesShape ==
    ASSUME TypeOK, NEW out \in Output, StageGives(out)
    PROVE  /\ call' \in Call /\ call'.pc = "ran" /\ call'.out = out
           /\ call'.state = call.state /\ call'.auto = call.auto
           /\ call.pc = "called"
           /\ UNCHANGED <<settings, lastUserTurnAt, now, begun, restarts>>
<1>1. call \in Call /\ EmptySlot \in Slot
      BY Empties DEF TypeOK
<1> QED BY <1>1 DEF StageGives, Call

(* What the three ways a stage ends give back.                             *)
LEMMA StageOutput ==
    ASSUME TypeOK, Shape, StopAtGate \/ DoWork \/ Block
    PROVE  \E out \in Output :
             /\ StageGives(out)
             /\ out.hold \in {0, now + HoldTime}
             /\ out.hold # 0 => out.phase \in {"plan", "full"}
             /\ out.phase # "full" => UNCHANGED <<plan, worked>>
             /\ out.phase = "full" =>
                  /\ Approved
                  /\ out.by = IF call.auto THEN NoPlan ELSE call.snap.pending
                  /\ plan' = [p \in Plans |-> IF p = out.by
                       THEN [plan[p] EXCEPT !.paid = @ \union {<<call.state.id, call.state.stage>>}]
                       ELSE plan[p]]
                  /\ worked' = IF out.hold # 0 THEN worked
                               ELSE [worked EXCEPT ![call.state.id] = @ \union {call.state.stage}]
<1>1. call \in Call /\ now \in Nat /\ HoldTime \in Nat \ {0}
      BY PipelineAssumption DEF TypeOK
<1>2. call.state \in Chain /\ call.snap \in Slot
      BY <1>1 DEF Call
<1>3. FreshGraphs \subseteq Graphs \union {NoGraph} /\ GraphsToRun \subseteq Graphs \union {NoGraph}
      BY <1>2 DEF FreshGraphs, GraphsToRun, Chain
<1>4. Holds \subseteq Nat /\ Holds = {0, now + HoldTime}
      BY <1>1 DEF Holds
<1>5. CASE StopAtGate
      <2>1. PICK graph \in FreshGraphs, hold \in Holds :
              StageGives([NoOutput EXCEPT !.phase = "plan", !.graph = graph, !.hold = hold])
            BY <1>5 DEF StopAtGate
      <2> DEFINE out == [NoOutput EXCEPT !.phase = "plan", !.graph = graph, !.hold = hold]
      <2>2. out \in Output /\ out.hold = hold /\ out.phase = "plan"
            BY <1>3, <1>4, Empties DEF Output
      <2>3. UNCHANGED <<plan, worked>>
            BY <1>5 DEF StopAtGate
      <2> QED BY <2>1, <2>2, <2>3, <1>4
<1>6. CASE DoWork
      <2> DEFINE by == IF call.auto THEN NoPlan ELSE call.snap.pending
      <2>1. PICK graph \in GraphsToRun, hold \in Holds, versions \in BOOLEAN :
              /\ StageGives([NoOutput EXCEPT !.phase = "full", !.graph = graph, !.hold = hold,
                                             !.versions = versions, !.by = by])
              /\ plan' = [p \in Plans |-> IF p = by
                   THEN [plan[p] EXCEPT !.paid = @ \union {<<call.state.id, call.state.stage>>}]
                   ELSE plan[p]]
              /\ worked' = IF hold # 0 THEN worked
                           ELSE [worked EXCEPT ![call.state.id] = @ \union {call.state.stage}]
            BY <1>6 DEF DoWork
      <2> DEFINE out == [NoOutput EXCEPT !.phase = "full", !.graph = graph, !.hold = hold,
                                         !.versions = versions, !.by = by]
      <2>2. by \in Plans \union {NoPlan}
            BY <1>2 DEF Slot
      <2>3. out \in Output /\ out.hold = hold /\ out.phase = "full" /\ out.by = by
            BY <1>3, <1>4, <2>2, Empties DEF Output
      <2>4. Approved
            BY <1>6 DEF DoWork
      <2> HIDE DEF by, out
      <2>5. StageGives(out)
            BY <2>1 DEF out
      <2> QED BY <2>1, <2>3, <2>4, <2>5, <1>4 DEF by
<1>7. CASE Block
      <2>3. UNCHANGED <<plan, worked>>
            BY <1>7 DEF Block
      <2>1. CASE StageGives([NoOutput EXCEPT !.phase = "blocked", !.problem = TRUE])
            <3> DEFINE out == [NoOutput EXCEPT !.phase = "blocked", !.problem = TRUE]
            <3>1. out \in Output /\ out.hold = 0 /\ out.phase = "blocked"
                  BY Empties DEF Output
            <3> QED BY <2>1, <2>3, <3>1
      <2>2. CASE \E graph \in GraphsToRun \union {NoGraph} :
                   StageGives([NoOutput EXCEPT !.phase = "blocked", !.graph = graph])
            <3>1. PICK graph \in GraphsToRun \union {NoGraph} :
                    StageGives([NoOutput EXCEPT !.phase = "blocked", !.graph = graph])
                  BY <2>2
            <3> DEFINE out == [NoOutput EXCEPT !.phase = "blocked", !.graph = graph]
            <3>2. out \in Output /\ out.hold = 0 /\ out.phase = "blocked"
                  BY <1>3, Empties DEF Output
            <3> QED BY <2>3, <3>1, <3>2
      <2> QED BY <1>7, <2>1, <2>2 DEF Block
<1> QED BY <1>5, <1>6, <1>7

(* A gate that a plan is issued at, or retired at, has a slot of its type.  *)
LEMMA IssueType ==
    ASSUME TypeOK, NEW g \in Gates, NEW purpose \in Purpose, NEW p \in Plans
    PROVE  /\ [slot EXCEPT ![g] = IssuedSlot(p, purpose, now)] \in [Gates -> Slot]
           /\ [plan EXCEPT ![p] = Issued(purpose)] \in [Plans -> PlanHistory]
<1>1. IssuedSlot(p, purpose, now) \in Slot
      BY DEF IssuedSlot, Slot, TypeOK
<1>2. Issued(purpose) \in PlanHistory
      BY DEF Issued, PlanHistory
<1> QED BY <1>1, <1>2 DEF TypeOK

LEMMA ShapeStep == TypeOK /\ Shape /\ [Next]_vars => TypeOK' /\ Shape'
<1> SUFFICES ASSUME TypeOK, Shape, [Next]_vars PROVE TypeOK' /\ Shape'
    OBVIOUS
<1> USE DEF settings, hist
<1>0. /\ call \in Call /\ call.state \in Chain /\ call.out \in Output /\ call.snap \in Slot
      /\ chain \in Chain /\ now \in Nat /\ HoldTime \in Nat \ {0}
      BY PipelineAssumption DEF TypeOK, Call
<1>1. CASE Continue
      <2>1. chain.id \in Runs
            BY <1>0, <1>1 DEF Continue, Chain
      <2>2. Snapshot(chain) /\ UNCHANGED begun
            BY <1>1 DEF Continue
      <2>3. /\ call' \in Call /\ call'.pc = "called" /\ call'.state = chain /\ call'.out = NoOutput
            /\ UNCHANGED <<slot, chain, autoApprove, lastUserTurnAt, now, plan, worked, restarts>>
            BY <1>0, <2>1, <2>2, SnapshotShape DEF Shape
      <2> QED BY <2>1, <2>2, <2>3, Empties DEF TypeOK, Shape
<1>2. CASE \E r \in Runs, order \in Orders : Start(r, order)
      <2>1. PICK r \in Runs, order \in Orders : Start(r, order)
            BY <1>2
      <2> DEFINE new == StartPipeline(r, order, chain.picked)
      <2>2. new \in Chain /\ InOrder(new)
            BY <1>0, NewIsChain DEF Chain
      <2>3. new.id = r
            BY DEF StartPipeline
      <2>4. Snapshot(new) /\ begun' = begun \union {r}
            BY <2>1 DEF Start
      <2> HIDE DEF new
      <2>5. /\ call' \in Call /\ call'.pc = "called" /\ call'.state = new /\ call'.out = NoOutput
            /\ UNCHANGED <<slot, chain, autoApprove, lastUserTurnAt, now, plan, worked, restarts>>
            BY <2>2, <2>3, <2>4, SnapshotShape
      <2> QED BY <2>2, <2>3, <2>4, <2>5, Empties DEF TypeOK, Shape
<1>3. CASE StopAtGate \/ DoWork \/ Block
      <2>1. PICK out \in Output :
              /\ StageGives(out)
              /\ out.hold # 0 => out.phase \in {"plan", "full"}
              /\ out.phase # "full" => UNCHANGED <<plan, worked>>
              /\ out.phase = "full" =>
                   /\ plan' = [p \in Plans |-> IF p = out.by
                        THEN [plan[p] EXCEPT !.paid = @ \union {<<call.state.id, call.state.stage>>}]
                        ELSE plan[p]]
                   /\ worked' = IF out.hold # 0 THEN worked
                                ELSE [worked EXCEPT ![call.state.id] = @ \union {call.state.stage}]
            BY <1>3, StageOutput
      <2>2. /\ call' \in Call /\ call'.pc = "ran" /\ call'.out = out /\ call'.state = call.state
            /\ call.pc = "called"
            /\ UNCHANGED <<slot, chain, autoApprove, lastUserTurnAt, now, begun, restarts>>
            BY <2>1, StageGivesShape
      <2>3. Shape'
            BY <2>1, <2>2 DEF Shape
      <2>4. plan' \in [Plans -> PlanHistory] /\ worked' \in [Runs -> SUBSET Stages]
            <3>1. call.state.id \in Runs /\ call.state.stage \in Stages
                  BY <1>0, <2>2 DEF Shape, Chain
            <3>2. \A p \in Plans : [plan[p] EXCEPT !.paid = @ \union {<<call.state.id, call.state.stage>>}] \in PlanHistory
                  BY <3>1 DEF TypeOK, PlanHistory
            <3> QED BY <2>1, <3>1, <3>2 DEF TypeOK
      <2> QED BY <2>2, <2>3, <2>4 DEF TypeOK
<1>4. CASE StayHeld
      <2>1. [NoOutput EXCEPT !.phase = "held"] \in Output /\ [NoOutput EXCEPT !.phase = "held"].hold = 0
            BY Empties DEF Output
      <2>2. /\ call' \in Call /\ call'.pc = "gated" /\ call'.state = call.state /\ call'.out.hold = 0
            /\ call.pc = "called"
            BY <1>0, <1>4, <2>1 DEF StayHeld, Call
      <2> QED BY <1>4, <2>2 DEF StayHeld, TypeOK, Shape
<1>5. CASE WriteGate
      <2>1. /\ call' \in Call /\ call'.pc = "gated" /\ call'.state = call.state /\ call'.out = call.out
            /\ call.pc = "ran"
            /\ UNCHANGED <<chain, autoApprove, lastUserTurnAt, now, worked, begun, restarts>>
            BY <1>0, <1>5 DEF WriteGate, Call
      <2> DEFINE purpose == [run |-> call.state.id, stage |-> call.state.stage, graph |-> call.out.graph]
      <2>2. GateOf(call.state.stage) \in Gates /\ purpose \in Purpose
            BY <1>0 DEF Chain, GateOf, Gates, Stages, Purpose, Output
      <2>3. slot' \in [Gates -> Slot] /\ plan' \in [Plans -> PlanHistory]
            <3>1. CASE call.out.phase = "plan"
                  <4>1. Issue(GateOf(call.state.stage), purpose)
                        BY <3>1, <1>5 DEF WriteGate
                  <4>2. PICK p \in Plans :
                          /\ slot' = [slot EXCEPT ![GateOf(call.state.stage)] = IssuedSlot(p, purpose, now)]
                          /\ plan' = [plan EXCEPT ![p] = Issued(purpose)]
                        BY <4>1 DEF Issue
                  <4> HIDE DEF purpose
                  <4> QED BY <2>2, <4>2, IssueType
            <3>2. CASE call.out.phase = "full"
                  BY <2>2, <3>2, <1>5, Empties DEF WriteGate, Retire, TypeOK
            <3>3. CASE call.out.phase \notin {"plan", "full"}
                  BY <3>3, <1>5 DEF WriteGate, TypeOK
            <3> QED BY <3>1, <3>2, <3>3
      <2> QED BY <2>1, <2>3 DEF TypeOK, Shape
<1>6. CASE WriteChain
      <2>1. call.pc = "gated" /\ chain' = [Result EXCEPT !.picked = PickAfter] /\ call' = IdleCall
            BY <1>6 DEF WriteChain
      <2>2. Result \in Chain /\ InOrder(Result)
            BY <2>1, ResultIsChain
      <2>3. PickAfter \in Runs \union {NoRun}
            BY <1>0 DEF PickAfter, Chain
      <2>4. chain' \in Chain /\ InOrder(chain')
            BY <2>1, <2>2, <2>3 DEF Chain, InOrder
      <2> QED BY <1>6, <2>1, <2>4, Empties DEF WriteChain, TypeOK, Shape
<1>7. CASE WriteRefused \/ Restart
      BY <1>7, Empties, PipelineAssumption DEF WriteRefused, Restart, TypeOK, Shape
<1>8. CASE \E g \in Gates : Approve(g) \/ Discard(g)
      <2>1. PICK g \in Gates : Approve(g) \/ Discard(g)
            BY <1>8
      <2>2. slot[g] \in Slot /\ slot[g].pending \in Plans
            BY <2>1 DEF TypeOK, Slot, Approve, Discard, Approvable
      <2>3. slot' \in [Gates -> Slot]
            BY <2>1, <2>2 DEF TypeOK, Slot, Approve, Discard
      <2>4. plan' \in [Plans -> PlanHistory]
            BY <2>1, <2>2 DEF TypeOK, PlanHistory, Approve, Discard
      <2> QED BY <2>1, <2>3, <2>4 DEF Approve, Discard, TypeOK, Shape
<1>9. CASE \E g \in Gates : BystanderIssues(g) \/ BystanderSpends(g)
      <2>1. PICK g \in Gates : BystanderIssues(g) \/ BystanderSpends(g)
            BY <1>9
      <2>2. slot' \in [Gates -> Slot] /\ plan' \in [Plans -> PlanHistory]
            <3>1. CASE BystanderIssues(g)
                  <4>1. PICK graph \in Graphs \union {NoGraph} :
                          Issue(g, [run |-> NoRun, stage |-> g, graph |-> graph])
                        BY <3>1 DEF BystanderIssues
                  <4> DEFINE purpose == [run |-> NoRun, stage |-> g, graph |-> graph]
                  <4>2. purpose \in Purpose
                        BY DEF Purpose, Gates, Stages
                  <4>3. PICK p \in Plans : /\ slot' = [slot EXCEPT ![g] = IssuedSlot(p, purpose, now)]
                                           /\ plan' = [plan EXCEPT ![p] = Issued(purpose)]
                        BY <4>1 DEF Issue
                  <4> HIDE DEF purpose
                  <4> QED BY <4>2, <4>3, IssueType
            <3>2. CASE BystanderSpends(g)
                  BY <3>2, Empties DEF BystanderSpends, Retire, TypeOK
            <3> QED BY <2>1, <3>1, <3>2
      <2>3. UNCHANGED <<chain, autoApprove, lastUserTurnAt, now, call, worked, begun, restarts>>
            BY <2>1 DEF BystanderIssues, BystanderSpends
      <2> QED BY <2>2, <2>3 DEF TypeOK, Shape
<1>10. CASE Pick
      BY <1>0, <1>10 DEF Pick, TypeOK, Shape, Chain, InOrder
<1>11. CASE UserTurn
      <2>1. plan' \in [Plans -> PlanHistory]
            BY <1>11 DEF UserTurn, TypeOK, PlanHistory
      <2> QED BY <1>11, <2>1 DEF UserTurn, TypeOK, Shape
<1>12. CASE ToggleAutoApprove
      <2>1. autoApprove' \in BOOLEAN
            BY <1>12, Zenon DEF ToggleAutoApprove
      <2>2. UNCHANGED <<slot, chain, lastUserTurnAt, now, call, plan, worked, begun, restarts>>
            BY <1>12 DEF ToggleAutoApprove
      <2> QED BY <2>1, <2>2 DEF TypeOK, Shape
<1>14. CASE Tick
      BY <1>14 DEF Tick, TypeOK, Shape
<1>13. CASE UNCHANGED vars
      BY <1>13 DEF vars, TypeOK, Shape
<1> QED BY <1>1, <1>2, <1>3, <1>4, <1>5, <1>6, <1>7, <1>8, <1>9, <1>10, <1>11, <1>12, <1>13, <1>14 DEF Next

(* Every variable keeps its type, whatever runs, plans and graphs there    *)
(* are.                                                                    *)
THEOREM TypeCorrect == Spec => []TypeOK
<1> QED BY ShapeInit, ShapeStep, PTL DEF Spec

-----------------------------------------------------------------------------
(* The chain is the one ChainSteps describes.                              *)
LEMMA NewAsPromised ==
    ASSUME NEW r \in Runs, NEW o \in Orders, NEW p \in Runs \union {NoRun}
    PROVE  AsPromised(StartPipeline(r, o, p)) = Promised!NewChain(r, o)
<1>1. Position(o, o[1]) = 1
      BY NewIsChain
<1> QED BY <1>1, PipelineAssumption DEF AsPromised, StartPipeline, Promised!NewChain

(* A call that returns leaves the chain in one of the ways it may.         *)
LEMMA LeftAsPromised ==
    ASSUME TypeOK, Shape, call.pc = "gated", NEW p,
           NEW s, s = [Result EXCEPT !.picked = p]
    PROVE  AsPromised(s) \in
             Promised!Left([read |-> AsPromised(call.state), until |-> call.out.hold])
<1> DEFINE c == call.state  o == call.out  at == Position(c.order, c.stage)
<1>1. c \in Chain /\ o \in Output /\ c.id \in Runs /\ NoRun \notin Runs
      BY PipelineAssumption DEF TypeOK, Call, Shape
<1>2. Result \in Chain /\ InOrder(Result) /\ Result.order = c.order
      BY ResultIsChain
<1>3. s.id = Result.id /\ s.order = Result.order /\ s.stage = Result.stage /\ s.hold = Result.hold
      BY <1>2 DEF Chain
<1>4. AsPromised(c) = [id |-> c.id, order |-> c.order, at |-> at, hold |-> c.hold]
      BY <1>1 DEF AsPromised
<1>5. CASE ~Whole
      <2>1. Result.stage = c.stage /\ Result.id = c.id
            BY <1>5, ResultIsChain
      <2>2. \/ Result.hold = o.hold /\ o.hold # 0
            \/ Result.hold \in {0, c.hold} /\ o.hold = 0
            BY <1>1, <1>5 DEF Result, Whole, Chain, Output, Shape
      <2>3. AsPromised(s) = [id |-> c.id, order |-> c.order, at |-> at, hold |-> Result.hold]
            BY <1>1, <1>2, <1>3, <2>1 DEF AsPromised
      <2> QED BY <1>4, <2>2, <2>3 DEF Promised!Left
<1>6. CASE Whole /\ ~LastStage(c)
      <2>1. /\ Result.id = c.id
            /\ Position(Result.order, Result.stage) = at + 1
            /\ at + 1 \in 1..Len(c.order)
            BY <1>6, ResultIsChain
      <2>2. Result.hold = 0 /\ o.hold = 0
            BY <1>1, <1>6 DEF Result, Whole, Chain, Output
      <2>3. AsPromised(s) = [id |-> c.id, order |-> c.order, at |-> at + 1, hold |-> 0]
            BY <1>1, <1>2, <1>3, <2>1, <2>2 DEF AsPromised
      <2>4. at \in Nat /\ at < Len(c.order)
            BY <1>1, <2>1, PositionIn DEF Shape
      <2> DEFINE free == [AsPromised(c) EXCEPT !.hold = 0]
      <2>5. free = [id |-> c.id, order |-> c.order, at |-> at, hold |-> 0]
            BY <1>4
      <2> HIDE DEF free
      <2>6. AsPromised(s) = [free EXCEPT !.at = @ + 1] /\ free.at < Len(free.order)
            BY <2>3, <2>4, <2>5
      <2> QED BY <2>2, <2>6 DEF Promised!Left, free
<1>7. CASE Whole /\ LastStage(c)
      <2>1. Result.id = NoRun
            BY <1>7, ResultIsChain
      <2>2. AsPromised(s) = Promised!Over /\ o.hold = 0
            BY <1>3, <1>7, <2>1 DEF AsPromised, Promised!Over, Whole
      <2>3. ~(at < Len(c.order))
            BY <1>1, <1>7, PositionIn DEF LastStage, Shape
      <2> QED BY <1>4, <2>2, <2>3 DEF Promised!Left
<1> QED BY <1>5, <1>6, <1>7

(* What a step does not show in the abstract chain.                        *)
LEMMA Unseen ==
    ASSUME AsPromised(chain)' = AsPromised(chain), call'.pc = "idle" <=> call.pc = "idle",
           call'.state = call.state, call'.out.hold = call.out.hold, UNCHANGED <<begun, now>>
    PROVE  UNCHANGED Promised!chainVars
<1>1. AsPromised(call'.state) = AsPromised(call.state)
      OBVIOUS
<1> QED BY <1>1 DEF Promised!chainVars

LEMMA ImplementsInit == Init => Promised!ChainInit
<1> SUFFICES ASSUME Init PROVE Promised!ChainInit
    OBVIOUS
<1>1. AsPromised(chain) = Promised!Over
      BY NoChainIsChain DEF Init, AsPromised, Promised!Over
<1>2. call.pc = "idle"
      BY Empties DEF Init
<1> QED BY <1>1, <1>2 DEF Init, Promised!ChainInit

LEMMA ImplementsStep ==
    TypeOK /\ Shape /\ [Next]_vars => [Promised!ChainNext]_(Promised!chainVars)
<1> SUFFICES ASSUME TypeOK, Shape, [Next]_vars PROVE [Promised!ChainNext]_(Promised!chainVars)
    OBVIOUS
<1> USE DEF settings, hist
<1>0. /\ call \in Call /\ call.state \in Chain /\ call.out \in Output
      /\ chain \in Chain /\ now \in Nat /\ NoRun \notin Runs
      BY PipelineAssumption DEF TypeOK, Call
<1>1. CASE Continue
      <2>1. chain.id \in Runs
            BY <1>0, <1>1 DEF Continue, Chain
      <2>2. Snapshot(chain) /\ UNCHANGED begun
            BY <1>1 DEF Continue
      <2>3. /\ call'.pc = "called" /\ call'.state = chain /\ call'.out.hold = 0
            /\ UNCHANGED <<chain, now>>
            BY <1>0, <2>1, <2>2, SnapshotShape, Empties DEF Shape
      <2>4. call.pc = "idle" /\ AsPromised(chain) # Promised!Over
            BY <1>0, <2>1, <2>2 DEF Snapshot, AsPromised, Promised!Over
      <2>5. Promised!ContinueChain
            BY <2>2, <2>3, <2>4 DEF Promised!ContinueChain, Promised!Begins
      <2> QED BY <2>5 DEF Promised!ChainNext
<1>2. CASE \E r \in Runs, order \in Orders : Start(r, order)
      <2>1. PICK r \in Runs, order \in Orders : Start(r, order)
            BY <1>2
      <2> DEFINE new == StartPipeline(r, order, chain.picked)
      <2>2. new \in Chain /\ InOrder(new)
            BY <1>0, NewIsChain DEF Chain
      <2>3. new.id = r
            BY DEF StartPipeline
      <2>4. AsPromised(new) = Promised!NewChain(r, order)
            BY <1>0, NewAsPromised DEF Chain
      <2>5. Snapshot(new) /\ begun' = begun \union {r} /\ r \notin begun
            BY <2>1 DEF Start
      <2> HIDE DEF new
      <2>6. /\ call'.pc = "called" /\ call'.state = new /\ call'.out.hold = 0
            /\ UNCHANGED <<chain, now>>
            BY <2>2, <2>3, <2>5, SnapshotShape, Empties
      <2>7. call.pc = "idle"
            BY <2>5 DEF Snapshot
      <2>8. Promised!StartChain(r, order)
            BY <2>4, <2>5, <2>6, <2>7 DEF Promised!StartChain, Promised!Begins
      <2> QED BY <2>8 DEF Promised!ChainNext
<1>3. CASE StopAtGate \/ DoWork \/ Block
      <2>1. PICK out \in Output : StageGives(out) /\ out.hold \in {0, now + HoldTime}
            BY <1>3, StageOutput
      <2>2. /\ call'.pc = "ran" /\ call'.out = out /\ call'.state = call.state
            /\ call.pc = "called" /\ call.out.hold = 0
            /\ UNCHANGED <<chain, now, begun>>
            BY <2>1, StageGivesShape, Empties DEF Shape
      <2>3. CASE out.hold = 0
            BY <2>2, <2>3, Unseen
      <2>4. CASE out.hold = now + HoldTime
            <3>1. Promised!IsSpent
                  BY <2>2, <2>4 DEF Promised!IsSpent
            <3> QED BY <3>1 DEF Promised!ChainNext
      <2> QED BY <2>1, <2>3, <2>4
<1>4. CASE StayHeld
      <2>1. /\ call'.pc = "gated" /\ call'.state = call.state /\ call'.out.hold = 0
            /\ call.pc = "called" /\ call.out.hold = 0
            /\ UNCHANGED <<chain, now, begun>>
            BY <1>0, <1>4, Empties DEF StayHeld, Call, Output, Shape
      <2> QED BY <2>1, Unseen
<1>5. CASE WriteGate
      <2>1. /\ call'.pc = "gated" /\ call'.state = call.state /\ call'.out.hold = call.out.hold
            /\ call.pc = "ran"
            /\ UNCHANGED <<chain, now, begun>>
            BY <1>0, <1>5 DEF WriteGate, Call
      <2> QED BY <2>1, Unseen
<1>6. CASE WriteChain
      <2>1. /\ call.pc = "gated" /\ chain' = [Result EXCEPT !.picked = PickAfter] /\ call'.pc = "idle"
            /\ UNCHANGED <<begun, now>>
            BY <1>6, Empties DEF WriteChain
      <2>2. AsPromised(chain') \in
              Promised!Left([read |-> AsPromised(call.state), until |-> call.out.hold])
            BY <2>1, LeftAsPromised
      <2>3. Promised!CallReturns
            BY <2>1, <2>2 DEF Promised!CallReturns
      <2> QED BY <2>3 DEF Promised!ChainNext
<1>7. CASE WriteRefused \/ Restart
      <2>1. call'.pc = "idle" /\ UNCHANGED <<chain, begun, now>>
            BY <1>7, Empties DEF WriteRefused, Restart
      <2>2. CASE call.pc = "idle"
            BY <2>1, <2>2 DEF Promised!chainVars
      <2>3. CASE call.pc # "idle"
            <3>1. Promised!IsLost
                  BY <2>1, <2>3 DEF Promised!IsLost
            <3> QED BY <3>1 DEF Promised!ChainNext
      <2> QED BY <2>2, <2>3
<1>8. CASE \E g \in Gates : Approve(g) \/ Discard(g) \/ BystanderIssues(g) \/ BystanderSpends(g)
      <2>1. UNCHANGED <<chain, call, now, begun>>
            BY <1>8 DEF Approve, Discard, BystanderIssues, BystanderSpends
      <2> QED BY <2>1, Unseen
<1>9. CASE Pick
      <2>1. AsPromised(chain') = AsPromised(chain)
            BY <1>0, <1>9 DEF Pick, AsPromised, Chain
      <2> QED BY <1>9, <2>1, Unseen DEF Pick
<1>10. CASE ToggleAutoApprove \/ UserTurn \/ UNCHANGED vars
      <2>1. UNCHANGED <<chain, call, now, begun>>
            BY <1>10 DEF ToggleAutoApprove, UserTurn, vars
      <2> QED BY <2>1, Unseen
<1>11. CASE Tick
      <2>1. Promised!TimePasses
            BY <1>11 DEF Tick, Promised!TimePasses
      <2> QED BY <2>1 DEF Promised!ChainNext
<1> QED BY <1>1, <1>2, <1>3, <1>4, <1>5, <1>6, <1>7, <1>8, <1>9, <1>10, <1>11 DEF Next

(* However the stages end, whoever approves, discards or calls meanwhile,  *)
(* and whichever write is refused, the chain in the settings is advanced   *)
(* by one call at a time, a stage at a time, and parked only where it is.  *)
THEOREM ChainKept == Spec => KeepsPromises
<1>1. Spec => [](TypeOK /\ Shape)
      BY ShapeInit, ShapeStep, PTL DEF Spec
<1> QED BY <1>1, ImplementsInit, ImplementsStep, PTL DEF Spec, KeepsPromises, Promised!ChainSpec

-----------------------------------------------------------------------------
(* No stage is reached before the work of those before it.                 *)
WorkWhole(s) == s.id \in Runs => Before(s) \subseteq worked[s.id]

Came ==
    /\ WorkWhole(chain) /\ WorkWhole(call.state)
    /\ call.pc \in {"ran", "gated"} /\ Whole => call.state.stage \in worked[call.state.id]

LEMMA NothingBefore ==
    ASSUME NEW r \in Runs, NEW o \in Orders, NEW p \in Runs \union {NoRun}
    PROVE  Before(StartPipeline(r, o, p)) = {}
<1> DEFINE s == StartPipeline(r, o, p)
<1>1. s.order = o /\ s.stage = o[1]
      BY DEF StartPipeline
<1>2. Position(s.order, s.stage) - 1 = 0
      BY <1>1, NewIsChain
<1> HIDE DEF s
<1>3. Before(s) = {}
      BY <1>2 DEF Before
<1> QED BY <1>3 DEF s

(* What is over, or comes next, has all that came before it.               *)
LEMMA BeforeNext ==
    ASSUME TypeOK, Shape, Came, call.pc = "gated", NEW p,
           NEW s, s = [Result EXCEPT !.picked = p]
    PROVE  /\ s.id \in Runs => s.id = call.state.id /\ Before(s) \subseteq worked[s.id]
           /\ s.id = NoRun => ToSet(call.state.order) \subseteq worked[call.state.id]
<1> DEFINE c == call.state  at == Position(c.order, c.stage)
<1>1. c \in Chain /\ c.id \in Runs /\ c.order \in Orders /\ NoRun \notin Runs
      BY PipelineAssumption DEF TypeOK, Call, Shape, Chain
<1>2. Result \in Chain /\ Result.order = c.order
      BY ResultIsChain
<1>3. s.id = Result.id /\ s.order = c.order /\ s.stage = Result.stage
      BY <1>2 DEF Chain
<1>4. Before(c) \subseteq worked[c.id]
      BY <1>1 DEF Came, WorkWhole
<1>5. /\ at \in 1..Len(c.order) /\ c.order[at] = c.stage /\ Len(c.order) \in Nat
      BY <1>1, PositionIn DEF Shape
<1>6. CASE ~Whole
      <2>1. s.id = c.id /\ s.stage = c.stage
            BY <1>3, <1>6, ResultIsChain
      <2> QED BY <1>1, <1>3, <1>4, <2>1 DEF Before
<1>7. CASE Whole /\ ~LastStage(c)
      <2>1. s.id = c.id /\ Position(s.order, s.stage) = at + 1
            BY <1>2, <1>3, <1>7, ResultIsChain
      <2>2. Before(s) = Before(c) \union {c.stage}
            BY <1>3, <1>5, <2>1 DEF Before
      <2>3. c.stage \in worked[c.id]
            BY <1>7 DEF Came
      <2> QED BY <1>1, <1>4, <2>1, <2>2, <2>3
<1>8. CASE Whole /\ LastStage(c)
      <2>1. s.id = NoRun /\ at = Len(c.order)
            BY <1>3, <1>8, ResultIsChain DEF LastStage
      <2>2. DOMAIN c.order = 1..Len(c.order)
            BY <1>1, OrderIsList
      <2>3. ToSet(c.order) = Before(c) \union {c.stage}
            BY <1>5, <2>1, <2>2 DEF Before, ToSet
      <2>4. c.stage \in worked[c.id]
            BY <1>8 DEF Came
      <2> QED BY <1>1, <1>4, <2>1, <2>3, <2>4
<1> QED BY <1>6, <1>7, <1>8

(* Work that came back is never taken back.                                *)
LEMMA WorkStays ==
    ASSUME TypeOK, [Next]_vars
    PROVE  \A r \in Runs : worked[r] \subseteq worked'[r]
<1>1. CASE DoWork
      BY <1>1 DEF DoWork, TypeOK
<1>2. CASE ~DoWork
      <2>1. worked' = worked
            BY <1>2 DEF Next, Continue, Start, Snapshot, StayHeld, StopAtGate, Block, WriteGate,
               WriteChain, WriteRefused, Approve, Discard, BystanderIssues, BystanderSpends, Pick,
               ToggleAutoApprove, UserTurn, Restart, Tick, vars, hist
      <2> QED BY <2>1
<1> QED BY <1>1, <1>2

LEMMA CameInit == Init => Came
<1> QED BY NoChainIsChain, PipelineAssumption, Empties DEF Init, Came, WorkWhole, IdleCall

LEMMA CameStep == TypeOK /\ Shape /\ Came /\ [Next]_vars => Came'
<1> SUFFICES ASSUME TypeOK, Shape, Came, [Next]_vars PROVE Came'
    OBVIOUS
<1> USE DEF settings, hist
<1>0. /\ call \in Call /\ call.state \in Chain /\ chain \in Chain /\ NoRun \notin Runs
      /\ \A r \in Runs : worked[r] \subseteq worked'[r]
      BY WorkStays, PipelineAssumption DEF TypeOK, Call
<1>1. ASSUME NEW s, WorkWhole(s) PROVE s.id \in Runs => Before(s) \subseteq worked'[s.id]
      BY <1>0, <1>1 DEF WorkWhole
<1>2. CASE Continue
      <2>1. chain.id \in Runs /\ Snapshot(chain)
            BY <1>0, <1>2 DEF Continue, Chain
      <2>2. call'.pc = "called" /\ call'.state = chain /\ chain' = chain
            BY <1>0, <2>1, SnapshotShape DEF Shape
      <2> QED BY <1>1, <2>2 DEF Came, WorkWhole, Before
<1>3. CASE \E r \in Runs, order \in Orders : Start(r, order)
      <2>1. PICK r \in Runs, order \in Orders : Start(r, order)
            BY <1>3
      <2> DEFINE new == StartPipeline(r, order, chain.picked)
      <2>2. new \in Chain /\ InOrder(new) /\ Before(new) = {}
            BY <1>0, NewIsChain, NothingBefore DEF Chain
      <2>3. new.id = r /\ Snapshot(new)
            BY <2>1 DEF StartPipeline, Start
      <2> HIDE DEF new
      <2>4. call'.pc = "called" /\ call'.state = new /\ chain' = chain
            BY <2>2, <2>3, SnapshotShape
      <2> QED BY <1>1, <2>2, <2>4 DEF Came, WorkWhole, Before
<1>4. CASE StopAtGate \/ DoWork \/ Block
      <2>1. PICK out \in Output :
              /\ StageGives(out)
              /\ out.phase = "full" /\ out.hold = 0 =>
                   worked' = [worked EXCEPT ![call.state.id] = @ \union {call.state.stage}]
            BY <1>4, StageOutput
      <2>2. /\ call'.pc = "ran" /\ call'.out = out /\ call'.state = call.state
            /\ call.pc = "called" /\ chain' = chain
            BY <2>1, StageGivesShape
      <2>3. call.state.id \in Runs
            BY <2>2 DEF Shape
      <2>4. Whole' => call.state.stage \in worked'[call.state.id]
            BY <2>1, <2>2, <2>3 DEF Whole, TypeOK
      <2> QED BY <1>1, <2>2, <2>4 DEF Came, WorkWhole, Before
<1>5. CASE StayHeld \/ WriteGate
      <2>1. /\ call'.state = call.state /\ chain' = chain /\ call'.pc = "gated"
            /\ \/ call'.out = call.out /\ call.pc = "ran"
               \/ call'.out.phase = "held"
            <3>1. CASE StayHeld
                  <4>1. [NoOutput EXCEPT !.phase = "held"].phase = "held"
                        BY DEF NoOutput
                  <4> QED BY <1>0, <3>1, <4>1 DEF StayHeld, Call
            <3>2. CASE WriteGate
                  BY <1>0, <3>2 DEF WriteGate, Call
            <3> QED BY <1>5, <3>1, <3>2
      <2>2. Whole' => Whole /\ call.pc = "ran" /\ call.state.id \in Runs
            BY <2>1 DEF Whole, Shape
      <2> QED BY <1>0, <1>1, <2>1, <2>2 DEF Came, WorkWhole, Before
<1>6. CASE WriteChain
      <2>1. call.pc = "gated" /\ chain' = [Result EXCEPT !.picked = PickAfter] /\ call' = IdleCall
            BY <1>6 DEF WriteChain
      <2>2. chain'.id \in Runs => Before(chain') \subseteq worked[chain'.id]
            BY <2>1, BeforeNext
      <2>3. IdleCall.state.id = NoRun /\ IdleCall.pc = "idle"
            BY NoChainIsChain DEF IdleCall
      <2> QED BY <1>0, <2>1, <2>2, <2>3 DEF Came, WorkWhole, Before
<1>7. CASE WriteRefused \/ Restart
      <2>1. call' = IdleCall /\ chain' = chain
            BY <1>7 DEF WriteRefused, Restart
      <2>2. IdleCall.state.id = NoRun /\ IdleCall.pc = "idle"
            BY NoChainIsChain DEF IdleCall
      <2> QED BY <1>0, <1>1, <2>1, <2>2 DEF Came, WorkWhole, Before
<1>8. CASE Pick
      <2>1. /\ chain'.id = chain.id /\ chain'.order = chain.order /\ chain'.stage = chain.stage
            /\ call' = call /\ worked' = worked
            BY <1>0, <1>8 DEF Pick, Chain
      <2> QED BY <2>1 DEF Came, WorkWhole, Before, Whole
<1>9. CASE \/ \E g \in Gates : Approve(g) \/ Discard(g) \/ BystanderIssues(g) \/ BystanderSpends(g)
           \/ ToggleAutoApprove \/ UserTurn \/ Tick \/ UNCHANGED vars
      <2>1. UNCHANGED <<chain, call, worked>>
            BY <1>9 DEF Approve, Discard, BystanderIssues, BystanderSpends, ToggleAutoApprove,
               UserTurn, Tick, vars
      <2> QED BY <2>1 DEF Came, WorkWhole, Before, Whole
<1> QED BY <1>2, <1>3, <1>4, <1>5, <1>6, <1>7, <1>8, <1>9 DEF Next

(* Only the end of a call and a pick change the chain.                     *)
LEMMA ChainChanges ==
    ASSUME [Next]_vars, chain' # chain
    PROVE  WriteChain \/ (Pick /\ call' = call)
<1> QED BY DEF Next, Continue, Start, Snapshot, StayHeld, StopAtGate, DoWork, Block, StageGives, WriteGate,
        WriteRefused, Approve, Discard, BystanderIssues, BystanderSpends, Pick,
        ToggleAutoApprove, UserTurn, Restart, Tick, vars, settings, hist

(* However many runs are begun and abandoned, whichever stages are held,   *)
(* blocked or lost, a chain is never at a stage before the work of every   *)
(* earlier one came back whole, and never over before that of all did.     *)
THEOREM StagesKept == Spec => StagesWhole
<1>1. ASSUME TypeOK, Shape, Came, [Next]_vars, TypeOK', Came'
      PROVE  [ /\ chain'.id # NoRun => Before(chain') \subseteq worked'[chain'.id]
               /\ IsOver => ToSet(call.state.order) \subseteq worked[call.state.id] ]_vars
      <2>1. chain'.id # NoRun => Before(chain') \subseteq worked'[chain'.id]
            <3>1. chain'.id \in Runs \union {NoRun}
                  BY <1>1 DEF TypeOK, Chain
            <3>2. chain'.id \in Runs => Before(chain)' \subseteq worked'[chain'.id]
                  BY <1>1 DEF Came, WorkWhole
            <3> QED BY <3>1, <3>2 DEF Before
      <2>2. IsOver => ToSet(call.state.order) \subseteq worked[call.state.id]
            <3> SUFFICES ASSUME IsOver PROVE ToSet(call.state.order) \subseteq worked[call.state.id]
                OBVIOUS
            <3>1. WriteChain
                  BY <1>1, ChainChanges DEF IsOver
            <3>2. call.pc = "gated" /\ chain' = [Result EXCEPT !.picked = PickAfter]
                  BY <3>1 DEF WriteChain
            <3> QED BY <1>1, <3>2, BeforeNext DEF IsOver
      <2> QED BY <2>1, <2>2
<1>2. Spec => [](TypeOK /\ Shape /\ Came)
      BY ShapeInit, ShapeStep, CameInit, CameStep, PTL DEF Spec
<1> QED BY <1>1, <1>2, PTL DEF Spec, StagesWhole

(* A pick is cleared by the end of a run and by nothing else, whatever     *)
(* calls read the chain before it was made.                                *)
THEOREM PickKept == Spec => PickSurvives
<1>1. ASSUME TypeOK, Shape, [Next]_vars
      PROVE  [chain.picked # NoRun /\ chain'.picked # chain.picked
                => chain'.id = NoRun /\ LastStage(call.state)]_vars
      <2> SUFFICES ASSUME chain.picked # NoRun, chain'.picked # chain.picked
                   PROVE  chain'.id = NoRun /\ LastStage(call.state)
          OBVIOUS
      <2>1. WriteChain
            BY <1>1, ChainChanges DEF Pick, PickWaits
      <2>2. call.pc = "gated" /\ chain' = [Result EXCEPT !.picked = PickAfter]
            BY <2>1 DEF WriteChain
      <2>3. Result \in Chain /\ call.state.id \in Runs /\ NoRun \notin Runs
            BY <1>1, <2>2, ResultIsChain, PipelineAssumption DEF Shape
      <2>4. chain'.picked = PickAfter /\ chain'.id = Result.id
            BY <2>2, <2>3 DEF Chain
      <2>5. Result.id = NoRun
            BY <2>4 DEF PickAfter
      <2> QED BY <1>1, <2>2, <2>3, <2>4, <2>5, ResultIsChain
<1>2. Spec => [](TypeOK /\ Shape)
      BY ShapeInit, ShapeStep, PTL DEF Spec
<1> QED BY <1>1, <1>2, PTL DEF Spec, PickSurvives

-----------------------------------------------------------------------------
(* Every stage passes its gate.                                            *)
Timely ==
    /\ now >= 1 /\ lastUserTurnAt <= now
    /\ \A p \in Plans :
         /\ plan[p].pressedAt <= now
         /\ 1 <= plan[p].pressedAt /\ plan[p].pressedAt < lastUserTurnAt => plan[p].confirmed

(* The plan a slot holds was issued for a gate, and an approval of it is   *)
(* the last press on it.                                                   *)
Holder(s, gate) ==
    s.pending \in Plans =>
        /\ GateOf(plan[s.pending].for.stage) = gate
        /\ s.approved = s.pending => s.approvedAt = plan[s.pending].pressedAt /\ s.approvedAt >= 1

(* So it is for a call that read the slot, and the plan it read approved   *)
(* is not pressed again.                                                   *)
ReadHolds ==
    call.pc = "called" =>
        /\ Holder(call.snap, GateOf(call.state.stage))
        /\ call.snap.pending \in Plans /\ call.snap.approved = call.snap.pending =>
             \A g \in Gates : slot[g].pending = call.snap.pending => slot[g].approved = call.snap.pending

Asked == Timely /\ (\A g \in Gates : Holder(slot[g], g)) /\ ReadHolds /\ StagePassesItsGate

LEMMA AskedInit == Init => Asked
<1> SUFFICES ASSUME Init PROVE Asked
    OBVIOUS
<1>1. call.pc = "idle"
      BY Empties DEF Init
<1>2. \A g \in Gates : slot[g].pending \notin Plans
      BY PipelineAssumption DEF Init, EmptySlot
<1>3. Timely
      BY DEF Init, Timely, Issued
<1> QED BY <1>1, <1>2, <1>3 DEF Asked, Holder, ReadHolds, StagePassesItsGate

(* A plan is issued at a gate, under an id nothing refers to.              *)
IssuedAt(g, p, purpose) ==
    /\ g \in Gates /\ p \in Plans /\ purpose \in Purpose /\ GateOf(purpose.stage) = g
    /\ Free(p)
    /\ slot' = [slot EXCEPT ![g] = IssuedSlot(p, purpose, now)]
    /\ plan' = [plan EXCEPT ![p] = Issued(purpose)]
    /\ \/ call.pc = "ran" /\ call' = [call EXCEPT !.pc = "gated"]
       \/ call.pc = "idle" /\ call' = call
    /\ UNCHANGED <<chain, lastUserTurnAt, now, begun>>

LEMMA WriteGateIs ==
    ASSUME TypeOK, WriteGate
    PROVE  /\ call.pc = "ran" /\ call' = [call EXCEPT !.pc = "gated"]
           /\ UNCHANGED <<chain, lastUserTurnAt, now, begun>>
           /\ \/ \E g, p, purpose : IssuedAt(g, p, purpose) /\ call.out.phase = "plan"
              \/ slot' = [slot EXCEPT ![GateOf(call.state.stage)] = EmptySlot] /\ plan' = plan
              \/ slot' = slot /\ plan' = plan /\ call.out.phase # "full"
<1> DEFINE g == GateOf(call.state.stage)
           purpose == [run |-> call.state.id, stage |-> call.state.stage, graph |-> call.out.graph]
<1>1. call.state \in Chain /\ call.out \in Output
      BY DEF TypeOK, Call
<1>2. g \in Gates /\ purpose \in Purpose /\ GateOf(purpose.stage) = g
      BY <1>1 DEF Chain, GateOf, Gates, Stages, Purpose, Output
<1>3. /\ call.pc = "ran" /\ call' = [call EXCEPT !.pc = "gated"]
      /\ UNCHANGED <<chain, lastUserTurnAt, now, begun>>
      BY DEF WriteGate
<1>4. CASE call.out.phase = "plan"
      <2>1. Issue(g, purpose)
            BY <1>4 DEF WriteGate
      <2>2. PICK p \in Plans : /\ Free(p)
                               /\ slot' = [slot EXCEPT ![g] = IssuedSlot(p, purpose, now)]
                               /\ plan' = [plan EXCEPT ![p] = Issued(purpose)]
            BY <2>1 DEF Issue
      <2> HIDE DEF g, purpose
      <2>3. IssuedAt(g, p, purpose)
            BY <1>2, <1>3, <2>2 DEF IssuedAt
      <2> QED BY <1>3, <1>4, <2>3
<1>5. CASE call.out.phase # "plan"
      BY <1>3, <1>5 DEF WriteGate, Retire
<1> QED BY <1>4, <1>5

LEMMA BystanderIs ==
    ASSUME TypeOK, NEW g \in Gates, BystanderIssues(g)
    PROVE  \E p, purpose : IssuedAt(g, p, purpose)
<1>1. PICK graph \in Graphs \union {NoGraph} : Issue(g, [run |-> NoRun, stage |-> g, graph |-> graph])
      BY DEF BystanderIssues
<1> DEFINE purpose == [run |-> NoRun, stage |-> g, graph |-> graph]
<1>2. purpose \in Purpose /\ GateOf(purpose.stage) = g
      BY DEF Purpose, Gates, Stages, GateOf
<1>3. PICK p \in Plans : /\ Free(p)
                         /\ slot' = [slot EXCEPT ![g] = IssuedSlot(p, purpose, now)]
                         /\ plan' = [plan EXCEPT ![p] = Issued(purpose)]
      BY <1>1 DEF Issue
<1>4. call.pc = "idle" /\ UNCHANGED <<chain, lastUserTurnAt, now, call, begun>>
      BY DEF BystanderIssues
<1> HIDE DEF purpose
<1>5. IssuedAt(g, p, purpose)
      BY <1>2, <1>3, <1>4 DEF IssuedAt
<1> QED BY <1>5

LEMMA IssuedAsked ==
    ASSUME TypeOK, Asked, NEW g, NEW p, NEW purpose, IssuedAt(g, p, purpose)
    PROVE  Asked'
<1>1. /\ g \in Gates /\ p \in Plans /\ GateOf(purpose.stage) = g
      /\ p # call.out.by /\ \A h \in Gates : p # slot[h].pending
      /\ slot' = [slot EXCEPT ![g] = IssuedSlot(p, purpose, now)]
      /\ plan' = [plan EXCEPT ![p] = Issued(purpose)]
      /\ UNCHANGED <<lastUserTurnAt, now>>
      BY DEF IssuedAt, Free
<1>2. slot \in [Gates -> Slot] /\ plan \in [Plans -> PlanHistory] /\ now \in Nat /\ NoPlan \notin Plans
      BY PipelineAssumption DEF TypeOK
<1>3. plan'[p] = Issued(purpose) /\ \A q \in Plans : q # p => plan'[q] = plan[q]
      BY <1>1, <1>2
<1>4. slot'[g] = IssuedSlot(p, purpose, now) /\ \A h \in Gates : h # g => slot'[h] = slot[h]
      BY <1>1, <1>2
<1>5. Timely'
      BY <1>1, <1>2, <1>3 DEF Asked, Timely, Issued
<1>6. Holder(slot[g], g)'
      BY <1>1, <1>2, <1>3, <1>4 DEF Holder, IssuedSlot, Issued
<1>7. ASSUME NEW h \in Gates, h # g PROVE Holder(slot[h], h)'
      BY <1>1, <1>3, <1>4, <1>7 DEF Asked, Holder
<1>8. call'.pc # "called" /\ call'.out = call.out /\ call'.auto = call.auto /\ call'.state = call.state
      /\ (call'.pc \in {"ran", "gated"} => call.pc \in {"ran", "gated"})
      BY DEF IssuedAt, TypeOK, Call
<1>9. StagePassesItsGate'
      BY <1>1, <1>3, <1>8 DEF Asked, StagePassesItsGate
<1> QED BY <1>5, <1>6, <1>7, <1>8, <1>9 DEF Asked, ReadHolds

LEMMA AskedStep == TypeOK /\ Shape /\ Asked /\ [Next]_vars => Asked'
<1> SUFFICES ASSUME TypeOK, Shape, Asked, [Next]_vars PROVE Asked'
    OBVIOUS
<1> USE DEF settings, hist
<1>0. /\ call \in Call /\ call.state \in Chain /\ call.snap \in Slot /\ chain \in Chain /\ now \in Nat
      /\ slot \in [Gates -> Slot] /\ plan \in [Plans -> PlanHistory] /\ lastUserTurnAt \in Nat
      /\ NoPlan \notin Plans
      BY PipelineAssumption DEF TypeOK, Call
<1>1. ASSUME NEW state \in Chain, Snapshot(state), call'.pc = "called", call'.state = state,
             call'.snap = slot[GateOf(state.stage)],
             UNCHANGED <<slot, lastUserTurnAt, now, plan>>
      PROVE  Asked'
      <2>1. GateOf(state.stage) \in Gates /\ \A g \in Gates : GateOf(g) = g
            BY DEF Chain, GateOf, Gates, Stages
      <2>2. ReadHolds'
            <3>1. Holder(call.snap, GateOf(call.state.stage))'
                  BY <1>1, <2>1 DEF Asked, Holder
            <3>2. ASSUME NEW g \in Gates, call'.snap.pending \in Plans, slot[g].pending = call'.snap.pending
                  PROVE  g = GateOf(state.stage)
                  BY <1>1, <2>1, <3>2 DEF Asked, Holder
            <3> QED BY <1>1, <3>1, <3>2 DEF ReadHolds
      <2> QED BY <1>1, <2>2 DEF Asked, Timely, Holder, StagePassesItsGate
<1>2. CASE Continue
      <2>1. chain.id \in Runs /\ Snapshot(chain)
            BY <1>0, <1>2 DEF Continue, Chain
      <2>2. /\ call'.pc = "called" /\ call'.state = chain /\ call'.snap = slot[GateOf(chain.stage)]
            /\ UNCHANGED <<slot, lastUserTurnAt, now, plan>>
            BY <1>0, <2>1, SnapshotShape DEF Shape
      <2> QED BY <1>0, <1>1, <2>1, <2>2
<1>3. CASE \E r \in Runs, order \in Orders : Start(r, order)
      <2>1. PICK r \in Runs, order \in Orders : Start(r, order)
            BY <1>3
      <2> DEFINE new == StartPipeline(r, order, chain.picked)
      <2>2. new \in Chain /\ InOrder(new)
            BY <1>0, NewIsChain DEF Chain
      <2>3. new.id = r /\ Snapshot(new)
            BY <2>1 DEF StartPipeline, Start
      <2> HIDE DEF new
      <2>4. /\ call'.pc = "called" /\ call'.state = new /\ call'.snap = slot[GateOf(new.stage)]
            /\ UNCHANGED <<slot, lastUserTurnAt, now, plan>>
            BY <2>2, <2>3, SnapshotShape
      <2> QED BY <1>1, <2>2, <2>3, <2>4
<1>4. CASE StopAtGate \/ DoWork \/ Block
      <2>1. PICK out \in Output :
              /\ StageGives(out)
              /\ out.phase # "full" => plan' = plan
              /\ out.phase = "full" =>
                   /\ Approved
                   /\ out.by = IF call.auto THEN NoPlan ELSE call.snap.pending
                   /\ plan' = [p \in Plans |-> IF p = out.by
                        THEN [plan[p] EXCEPT !.paid = @ \union {<<call.state.id, call.state.stage>>}]
                        ELSE plan[p]]
            BY <1>4, StageOutput
      <2>2. /\ call'.pc = "ran" /\ call'.out = out /\ call'.state = call.state
            /\ call'.auto = call.auto /\ call.pc = "called"
            /\ UNCHANGED <<slot, lastUserTurnAt, now>>
            BY <2>1, StageGivesShape
      <2>3. \A p \in Plans : /\ plan'[p].for = plan[p].for /\ plan'[p].pressedAt = plan[p].pressedAt
                             /\ plan'[p].confirmed = plan[p].confirmed
            BY <1>0, <2>1 DEF PlanHistory
      <2>4. StagePassesItsGate'
            <3> SUFFICES ASSUME out.phase = "full", ~call.auto
                         PROVE  /\ out.by \in Plans
                                /\ GateOf(plan'[out.by].for.stage) = GateOf(call.state.stage)
                                /\ plan'[out.by].confirmed
                BY <2>2 DEF StagePassesItsGate
            <3>1. Allowed(call.snap, lastUserTurnAt, now) /\ out.by = call.snap.pending
                  BY <2>1 DEF Approved
            <3>2. /\ out.by \in Plans /\ call.snap.approved = call.snap.pending
                  /\ lastUserTurnAt > call.snap.approvedAt
                  BY <1>0, <3>1 DEF Allowed, Slot
            <3>3. /\ GateOf(plan[out.by].for.stage) = GateOf(call.state.stage)
                  /\ call.snap.approvedAt = plan[out.by].pressedAt /\ call.snap.approvedAt >= 1
                  BY <2>2, <3>1, <3>2 DEF Asked, ReadHolds, Holder
            <3>4. plan[out.by].confirmed
                  BY <3>2, <3>3 DEF Asked, Timely
            <3> QED BY <2>3, <3>2, <3>3, <3>4
      <2>5. Timely' /\ \A g \in Gates : Holder(slot[g], g)'
            BY <2>2, <2>3 DEF Asked, Timely, Holder
      <2> QED BY <2>2, <2>4, <2>5 DEF Asked, ReadHolds
<1>5. CASE StayHeld
      <2>1. /\ call'.pc = "gated" /\ call'.out.phase = "held"
            /\ UNCHANGED <<slot, lastUserTurnAt, now, plan>>
            <3>1. [NoOutput EXCEPT !.phase = "held"].phase = "held"
                  BY DEF NoOutput
            <3> QED BY <1>0, <1>5, <3>1 DEF StayHeld, Call
      <2> QED BY <2>1 DEF Asked, Timely, Holder, ReadHolds, StagePassesItsGate
<1>6. CASE WriteGate
      <2>1. CASE \E g, p, purpose : IssuedAt(g, p, purpose)
            BY <2>1, IssuedAsked
      <2>2. CASE ~\E g, p, purpose : IssuedAt(g, p, purpose)
            <3>1. /\ call.pc = "ran" /\ call' = [call EXCEPT !.pc = "gated"]
                  /\ UNCHANGED <<lastUserTurnAt, now, plan>>
                  /\ \/ slot' = [slot EXCEPT ![GateOf(call.state.stage)] = EmptySlot]
                     \/ slot' = slot
                  BY <1>6, <2>2, WriteGateIs
            <3>2. call'.pc = "gated" /\ call'.state = call.state /\ call'.out = call.out /\ call'.auto = call.auto
                  BY <1>0, <3>1 DEF Call
            <3>3. \A g \in Gates : slot'[g] = slot[g] \/ slot'[g].pending \notin Plans
                  BY <1>0, <3>1 DEF EmptySlot
            <3> QED BY <3>1, <3>2, <3>3 DEF Asked, Timely, Holder, ReadHolds, StagePassesItsGate
      <2> QED BY <2>1, <2>2
<1>7. CASE WriteChain \/ WriteRefused \/ Restart
      <2>1. call'.pc = "idle" /\ lastUserTurnAt' \in {0, lastUserTurnAt} /\ UNCHANGED <<slot, now, plan>>
            BY <1>7, Empties DEF WriteChain, WriteRefused, Restart
      <2> QED BY <1>0, <2>1 DEF Asked, Timely, Holder, ReadHolds, StagePassesItsGate, PlanHistory
<1>8. CASE \E g \in Gates : Approve(g)
      <2>1. PICK g \in Gates : Approve(g)
            BY <1>8
      <2> DEFINE p == slot[g].pending
      <2>2. /\ p \in Plans /\ slot[g].approved # p
            /\ slot' = [slot EXCEPT ![g].approved = p, ![g].approvedAt = now]
            /\ plan' = [plan EXCEPT ![p].pressedAt = now]
            /\ UNCHANGED <<lastUserTurnAt, now, call>>
            BY <1>0, <2>1 DEF Approve, Approvable, Slot
      <2>3. /\ slot'[g].pending = p /\ slot'[g].approved = p /\ slot'[g].approvedAt = now
            /\ \A h \in Gates : h # g => slot'[h] = slot[h]
            BY <1>0, <2>2 DEF Slot
      <2>4. /\ plan'[p].pressedAt = now /\ plan'[p].for = plan[p].for /\ plan'[p].confirmed = plan[p].confirmed
            /\ \A q \in Plans : q # p => plan'[q] = plan[q]
            BY <1>0, <2>2 DEF PlanHistory
      <2> HIDE DEF p
      <2>5. \A h \in Gates : slot[h].pending = p => h = g
            BY <2>2 DEF Asked, Holder, p
      <2>6. Timely'
            BY <1>0, <2>2, <2>4 DEF Asked, Timely
      <2>7. \A h \in Gates : Holder(slot[h], h)'
            <3>1. Holder(slot[g], g)'
                  BY <1>0, <2>2, <2>3, <2>4 DEF Asked, Timely, Holder, p
            <3>2. ASSUME NEW h \in Gates, h # g PROVE Holder(slot[h], h)'
                  BY <2>3, <2>4, <2>5, <3>2 DEF Asked, Holder
            <3> QED BY <3>1, <3>2
      <2>8. ReadHolds'
            <3> SUFFICES ASSUME call.pc = "called", call.snap.pending \in Plans
                         PROVE  ReadHolds'
                BY <2>2 DEF ReadHolds, Holder
            <3>1. CASE call.snap.pending # p
                  BY <2>2, <2>3, <2>4, <3>1 DEF Asked, ReadHolds, Holder, p
            <3>2. CASE call.snap.pending = p
                  <4>1. call.snap.approved # p
                        BY <2>2, <3>2 DEF Asked, ReadHolds, p
                  <4> QED BY <2>2, <2>4, <3>2, <4>1 DEF Asked, ReadHolds, Holder
            <3> QED BY <3>1, <3>2
      <2>9. StagePassesItsGate'
            BY <2>2, <2>4 DEF Asked, StagePassesItsGate
      <2> QED BY <2>6, <2>7, <2>8, <2>9 DEF Asked
<1>9. CASE \E g \in Gates : Discard(g)
      <2>1. PICK g \in Gates : Discard(g)
            BY <1>9
      <2>2. /\ slot' = [slot EXCEPT ![g].pending = NoPlan]
            /\ UNCHANGED <<lastUserTurnAt, now, call, plan>>
            BY <2>1 DEF Discard
      <2>3. \A h \in Gates : slot'[h] = slot[h] \/ slot'[h].pending \notin Plans
            BY <1>0, <2>2 DEF Slot
      <2> QED BY <2>2, <2>3 DEF Asked, Timely, Holder, ReadHolds, StagePassesItsGate
<1>10. CASE \E g \in Gates : BystanderIssues(g)
      BY <1>10, BystanderIs, IssuedAsked
<1>11. CASE \E g \in Gates : BystanderSpends(g)
      <2>1. PICK g \in Gates : BystanderSpends(g)
            BY <1>11
      <2>2. /\ slot' = [slot EXCEPT ![g] = EmptySlot]
            /\ UNCHANGED <<lastUserTurnAt, now, call, plan>>
            BY <2>1 DEF BystanderSpends, Retire
      <2>3. \A h \in Gates : slot'[h] = slot[h] \/ slot'[h].pending \notin Plans
            BY <1>0, <2>2 DEF EmptySlot
      <2>4. call.pc = "idle"
            BY <2>1 DEF BystanderSpends
      <2> QED BY <2>2, <2>3, <2>4 DEF Asked, Timely, Holder, ReadHolds, StagePassesItsGate
<1>12. CASE UserTurn
      <2>1. /\ lastUserTurnAt' = now /\ UNCHANGED <<slot, now, call>>
            /\ \A p \in Plans : /\ plan'[p].for = plan[p].for /\ plan'[p].pressedAt = plan[p].pressedAt
                                /\ plan[p].confirmed => plan'[p].confirmed
                                /\ plan[p].pressedAt \in 1..(now - 1) => plan'[p].confirmed
            BY <1>0, <1>12 DEF UserTurn, PlanHistory
      <2>2. Timely'
            BY <1>0, <2>1 DEF Asked, Timely, PlanHistory
      <2>3. ReadHolds' /\ \A g \in Gates : Holder(slot[g], g)'
            BY <2>1 DEF Asked, Holder, ReadHolds
      <2>4. StagePassesItsGate'
            BY <2>1 DEF Asked, StagePassesItsGate
      <2> QED BY <2>2, <2>3, <2>4 DEF Asked
<1>13. CASE Tick
      <2>1. now' = now + 1 /\ UNCHANGED <<slot, call, plan, lastUserTurnAt>>
            BY <1>13 DEF Tick
      <2>2. Timely'
            BY <1>0, <2>1 DEF Asked, Timely, PlanHistory
      <2> QED BY <2>1, <2>2 DEF Asked, Holder, ReadHolds, StagePassesItsGate
<1>14. CASE Pick \/ ToggleAutoApprove \/ UNCHANGED vars
      <2>1. UNCHANGED <<slot, call, plan, lastUserTurnAt, now>>
            BY <1>14 DEF Pick, ToggleAutoApprove, vars
      <2> QED BY <2>1 DEF Asked, Timely, Holder, ReadHolds, StagePassesItsGate
<1> QED BY <1>2, <1>3, <1>4, <1>5, <1>6, <1>7, <1>8, <1>9, <1>10, <1>11, <1>12, <1>13, <1>14 DEF Next

(* Without standing permission a stage does its paid work on a plan of its *)
(* gate that a person approved and confirmed, whatever shares the gate and *)
(* whatever is written and lost meanwhile.                                 *)
THEOREM GatesPassed == Spec => []StagePassesItsGate
<1>1. Asked => StagePassesItsGate
      BY DEF Asked
<1> QED BY <1>1, ShapeInit, ShapeStep, AskedInit, AskedStep, PTL DEF Spec

-----------------------------------------------------------------------------
(* An approval carries one stage of a chain.                               *)

(* The runs known are those begun, and a call works on the stage its chain *)
(* is at.                                                                  *)
Known ==
    /\ chain.id \in begun \union {NoRun}
    /\ call.pc # "idle" =>
         call.state.id \in begun /\ (call.state.id = chain.id => call.state.stage = chain.stage)

(* What a plan paid for was asked at its gate, in a run that was begun.    *)
PaidAtGate ==
    \A p \in Plans : \A w \in plan[p].paid :
        w[1] \in begun /\ GateOf(w[2]) = GateOf(plan[p].for.stage)

(* A plan that may pay yet has paid, in a run that is under way, only for  *)
(* the stage that run is still at.                                         *)
Live(p) ==
    \/ \E g \in Gates : slot[g].pending = p
    \/ call.pc = "called" /\ call.snap.pending = p

Fits(w) ==
    /\ w[1] = chain.id => w[2] = chain.stage
    /\ call.pc # "idle" /\ w[1] = call.state.id =>
         w[2] = call.state.stage /\ ~(call.pc = "gated" /\ Whole)

LiveFits == \A p \in Plans : Live(p) => \A w \in plan[p].paid : Fits(w)

Spent == Known /\ PaidAtGate /\ LiveFits /\ ApprovalCarriesOneStage

LEMMA SpentInit == Init => Spent
<1> SUFFICES ASSUME Init PROVE Spent
    OBVIOUS
<1>1. \A p \in Plans : plan[p].paid = {}
      BY DEF Init, Issued
<1>2. call.pc = "idle" /\ chain.id = NoRun
      BY Empties, NoChainIsChain DEF Init
<1> QED BY <1>1, <1>2 DEF Spent, Known, PaidAtGate, LiveFits, ApprovalCarriesOneStage

LEMMA IssuedSpent ==
    ASSUME TypeOK, Spent, NEW g, NEW p, NEW purpose, IssuedAt(g, p, purpose), call.out.phase # "full" \/ call.pc = "idle"
    PROVE  Spent'
<1>1. /\ g \in Gates /\ p \in Plans
      /\ slot' = [slot EXCEPT ![g] = IssuedSlot(p, purpose, now)]
      /\ plan' = [plan EXCEPT ![p] = Issued(purpose)]
      /\ UNCHANGED <<chain, begun>>
      BY DEF IssuedAt
<1>2. slot \in [Gates -> Slot] /\ plan \in [Plans -> PlanHistory] /\ call \in Call
      BY DEF TypeOK
<1>3. plan'[p].paid = {} /\ \A q \in Plans : q # p => plan'[q] = plan[q]
      BY <1>1, <1>2 DEF Issued
<1>4. slot'[g].pending = p /\ \A h \in Gates : h # g => slot'[h] = slot[h]
      BY <1>1, <1>2 DEF IssuedSlot
<1>5. /\ call.pc # "called" /\ call'.pc # "called" /\ call'.out = call.out /\ call'.state = call.state
      /\ call'.pc = "idle" <=> call.pc = "idle"
      BY <1>2 DEF IssuedAt, Call
<1>6. Known' /\ PaidAtGate' /\ ApprovalCarriesOneStage'
      BY <1>1, <1>3, <1>5 DEF Spent, Known, PaidAtGate, ApprovalCarriesOneStage
<1>7. \A q \in Plans : q # p => (Live(q)' => Live(q))
      BY <1>4, <1>5 DEF Live
<1>8. \A w : Fits(w) => Fits(w)'
      BY <1>1, <1>5 DEF Fits, Whole
<1>9. ASSUME NEW q \in Plans, Live(q)', NEW w \in plan'[q].paid PROVE Fits(w)'
      BY <1>3, <1>7, <1>8, <1>9 DEF Spent, LiveFits
<1> QED BY <1>6, <1>9 DEF Spent, LiveFits

LEMMA SpentStep == TypeOK /\ Shape /\ Asked /\ Spent /\ [Next]_vars => Spent'
<1> SUFFICES ASSUME TypeOK, Shape, Asked, Spent, [Next]_vars PROVE Spent'
    OBVIOUS
<1> USE DEF settings, hist
<1>0. /\ call \in Call /\ call.state \in Chain /\ call.snap \in Slot /\ chain \in Chain
      /\ slot \in [Gates -> Slot] /\ plan \in [Plans -> PlanHistory]
      /\ NoPlan \notin Plans /\ NoRun \notin Runs /\ begun \subseteq Runs
      BY PipelineAssumption DEF TypeOK, Call
(* The tool is called: what it reads from a slot was live there.           *)
<1>1. ASSUME NEW state \in Chain, call'.pc = "called", call'.state = state,
             call'.snap = slot[GateOf(state.stage)], call.pc = "idle",
             UNCHANGED <<slot, chain, plan>>, begun \subseteq begun', state.id \in begun',
             state.id = chain.id => state.stage = chain.stage,
             \A p \in Plans : \A w \in plan[p].paid : w[1] = state.id => state.id = chain.id
      PROVE  Spent'
      <2>1. GateOf(state.stage) \in Gates
            BY DEF Chain, GateOf, Gates, Stages
      <2>2. \A p \in Plans : Live(p)' => Live(p)
            BY <1>1, <2>1 DEF Live
      <2>3. Known' /\ PaidAtGate' /\ ApprovalCarriesOneStage'
            BY <1>1 DEF Spent, Known, PaidAtGate, ApprovalCarriesOneStage
      <2>4. ASSUME NEW p \in Plans, Live(p)', NEW w \in plan[p].paid PROVE Fits(w)'
            <3>1. Fits(w)
                  BY <2>2, <2>4 DEF Spent, LiveFits
            <3> QED BY <1>1, <2>4, <3>1 DEF Fits
      <2> QED BY <1>1, <2>3, <2>4 DEF Spent, LiveFits
<1>2. CASE Continue
      <2>1. chain.id \in Runs /\ Snapshot(chain) /\ begun' = begun
            BY <1>0, <1>2 DEF Continue, Chain
      <2>2. /\ call'.pc = "called" /\ call'.state = chain /\ call'.snap = slot[GateOf(chain.stage)]
            /\ UNCHANGED <<slot, chain, plan>>
            BY <1>0, <2>1, SnapshotShape DEF Shape
      <2>3. call.pc = "idle" /\ chain.id \in begun
            BY <1>0, <2>1 DEF Snapshot, Spent, Known
      <2> QED BY <1>0, <1>1, <2>1, <2>2, <2>3
<1>3. CASE \E r \in Runs, order \in Orders : Start(r, order)
      <2>1. PICK r \in Runs, order \in Orders : Start(r, order)
            BY <1>3
      <2> DEFINE new == StartPipeline(r, order, chain.picked)
      <2>2. new \in Chain /\ InOrder(new)
            BY <1>0, NewIsChain DEF Chain
      <2>3. new.id = r /\ Snapshot(new) /\ begun' = begun \union {r} /\ r \notin begun
            BY <2>1 DEF StartPipeline, Start
      <2> HIDE DEF new
      <2>4. /\ call'.pc = "called" /\ call'.state = new /\ call'.snap = slot[GateOf(new.stage)]
            /\ UNCHANGED <<slot, chain, plan>>
            BY <2>2, <2>3, SnapshotShape
      <2>5. call.pc = "idle" /\ new.id # chain.id
            BY <1>0, <2>1, <2>3 DEF Snapshot, Spent, Known
      <2>6. \A p \in Plans : \A w \in plan[p].paid : w[1] # r
            BY <2>3 DEF Spent, PaidAtGate
      <2> QED BY <1>1, <2>2, <2>3, <2>4, <2>5, <2>6
<1>4. CASE StopAtGate \/ DoWork \/ Block
      <2>1. PICK out \in Output :
              /\ StageGives(out)
              /\ out.phase # "full" => plan' = plan
              /\ out.phase = "full" =>
                   /\ Approved
                   /\ out.by = IF call.auto THEN NoPlan ELSE call.snap.pending
                   /\ plan' = [p \in Plans |-> IF p = out.by
                        THEN [plan[p] EXCEPT !.paid = @ \union {<<call.state.id, call.state.stage>>}]
                        ELSE plan[p]]
            BY <1>4, StageOutput
      <2>2. /\ call'.pc = "ran" /\ call'.state = call.state /\ call.pc = "called"
            /\ UNCHANGED <<slot, chain, begun>>
            BY <2>1, StageGivesShape
      <2> DEFINE here == <<call.state.id, call.state.stage>>
      <2>3. \A p \in Plans : /\ plan'[p].for = plan[p].for
                             /\ \/ plan'[p].paid = plan[p].paid
                                \/ plan'[p].paid = plan[p].paid \union {here} /\ p = call.snap.pending
            BY <1>0, <2>1 DEF PlanHistory
      <2>4. Fits(here) /\ here[1] \in begun
            BY <2>2 DEF Fits, Spent, Known
      <2>5. \A w : Fits(w) => Fits(w)'
            BY <2>2 DEF Fits, Whole
      <2>6. \A p \in Plans : Live(p)' => Live(p)
            BY <2>2 DEF Live
      <2>7. ASSUME call.snap.pending \in Plans
            PROVE  /\ GateOf(call.state.stage) = GateOf(plan[call.snap.pending].for.stage)
                   /\ \A w \in plan[call.snap.pending].paid :
                        w[1] = call.state.id => w[2] = call.state.stage
            <3>1. Live(call.snap.pending)
                  BY <2>2 DEF Live
            <3> QED BY <2>2, <2>7, <3>1 DEF Asked, ReadHolds, Holder, Spent, LiveFits, Fits
      <2>8. Known'
            BY <2>2 DEF Spent, Known
      <2>9. PaidAtGate'
            BY <2>2, <2>3, <2>4, <2>7 DEF Spent, PaidAtGate
      <2>10. LiveFits'
            BY <2>3, <2>4, <2>5, <2>6 DEF Spent, LiveFits
      <2>11. ApprovalCarriesOneStage'
            BY <2>3, <2>7 DEF Spent, ApprovalCarriesOneStage
      <2> QED BY <2>8, <2>9, <2>10, <2>11 DEF Spent
<1>5. CASE StayHeld
      <2>1. /\ call'.pc = "gated" /\ call'.state = call.state /\ call'.out.phase = "held" /\ call.pc = "called"
            /\ UNCHANGED <<slot, chain, plan, begun>>
            <3>1. [NoOutput EXCEPT !.phase = "held"].phase = "held"
                  BY DEF NoOutput
            <3> QED BY <1>0, <1>5, <3>1 DEF StayHeld, Call
      <2>2. \A p \in Plans : Live(p)' => Live(p)
            BY <2>1 DEF Live
      <2>3. \A w : Fits(w) => Fits(w)'
            BY <2>1 DEF Fits, Whole
      <2> QED BY <2>1, <2>2, <2>3 DEF Spent, Known, PaidAtGate, LiveFits, ApprovalCarriesOneStage
<1>6. CASE WriteGate
      <2>1. CASE \E g, p, purpose : IssuedAt(g, p, purpose) /\ call.out.phase = "plan"
            BY <2>1, IssuedSpent
      <2>2. CASE ~\E g, p, purpose : IssuedAt(g, p, purpose) /\ call.out.phase = "plan"
            <3> DEFINE g == GateOf(call.state.stage)
            <3>1. /\ call.pc = "ran" /\ call' = [call EXCEPT !.pc = "gated"]
                  /\ UNCHANGED <<chain, begun, plan>>
                  /\ \/ slot' = [slot EXCEPT ![g] = EmptySlot]
                     \/ slot' = slot /\ call.out.phase # "full"
                  BY <1>6, <2>2, WriteGateIs
            <3>2. call'.pc = "gated" /\ call'.state = call.state /\ call'.out = call.out
                  BY <1>0, <3>1 DEF Call
            <3>3. g \in Gates
                  BY <1>0 DEF Chain, GateOf, Gates, Stages
            <3> HIDE DEF g
            <3>4. \A p \in Plans : Live(p)' => Live(p)
                  BY <1>0, <3>1, <3>2, <3>3 DEF Live, EmptySlot
            <3>5. ASSUME NEW p \in Plans, Live(p)', NEW w \in plan[p].paid PROVE Fits(w)'
                  <4>1. Fits(w)
                        BY <3>4, <3>5 DEF Spent, LiveFits
                  <4>2. CASE slot' = slot /\ call.out.phase # "full"
                        BY <3>1, <3>2, <4>1, <4>2 DEF Fits, Whole
                  <4>3. CASE slot' = [slot EXCEPT ![g] = EmptySlot]
                        <5>1. PICK h \in Gates : slot'[h].pending = p
                              BY <3>2, <3>5 DEF Live
                        <5>2. h # g /\ slot[h].pending = p
                              BY <1>0, <3>3, <4>3, <5>1 DEF EmptySlot
                        <5>3. GateOf(w[2]) = h
                              BY <3>5, <5>2 DEF Asked, Holder, Spent, PaidAtGate
                        <5>4. w[2] # call.state.stage
                              BY <5>2, <5>3 DEF g
                        <5> QED BY <3>1, <3>2, <4>1, <5>4 DEF Fits
                  <4> QED BY <3>1, <4>2, <4>3
            <3> QED BY <3>1, <3>2, <3>5 DEF Spent, Known, PaidAtGate, LiveFits, ApprovalCarriesOneStage
      <2> QED BY <2>1, <2>2
<1>7. CASE WriteChain
      <2>1. /\ call.pc = "gated" /\ chain' = [Result EXCEPT !.picked = PickAfter] /\ call'.pc = "idle"
            /\ UNCHANGED <<slot, plan, begun>>
            BY <1>7, Empties DEF WriteChain
      <2>2. Result \in Chain
            BY <2>1, ResultIsChain
      <2>3. chain'.id = Result.id /\ chain'.stage = Result.stage
            BY <2>1, <2>2 DEF Chain
      <2>4. \A p \in Plans : Live(p)' => Live(p)
            BY <2>1 DEF Live
      <2>5. \/ ~Whole /\ Result.id = call.state.id /\ Result.stage = call.state.stage
            \/ Whole /\ Result.id \in {call.state.id, NoRun}
            BY <2>1, ResultIsChain
      <2>6. ASSUME NEW p \in Plans, Live(p)', NEW w \in plan[p].paid PROVE Fits(w)'
            <3>1. Fits(w) /\ w[1] # NoRun
                  BY <1>0, <2>4, <2>6 DEF Spent, LiveFits, PaidAtGate
            <3> QED BY <2>1, <2>3, <2>5, <3>1 DEF Fits
      <2> QED BY <2>1, <2>3, <2>5, <2>6 DEF Spent, Known, PaidAtGate, LiveFits, ApprovalCarriesOneStage
<1>8. CASE WriteRefused \/ Restart
      <2>1. call'.pc = "idle" /\ UNCHANGED <<slot, chain, plan, begun>>
            BY <1>8, Empties DEF WriteRefused, Restart
      <2>2. \A p \in Plans : Live(p)' => Live(p)
            BY <2>1 DEF Live
      <2>3. \A w : Fits(w) => Fits(w)'
            BY <2>1 DEF Fits
      <2> QED BY <2>1, <2>2, <2>3 DEF Spent, Known, PaidAtGate, LiveFits, ApprovalCarriesOneStage
<1>9. CASE (\E g \in Gates : Approve(g) \/ Discard(g) \/ BystanderSpends(g)) \/ UserTurn
      <2>1. /\ UNCHANGED <<chain, call, begun>>
            /\ \A h \in Gates : slot'[h].pending \in {slot[h].pending, NoPlan}
            <3>1. ASSUME NEW g \in Gates, Approve(g) PROVE /\ UNCHANGED <<chain, call, begun>>
                         /\ \A h \in Gates : slot'[h].pending \in {slot[h].pending, NoPlan}
                  BY <1>0, <3>1 DEF Approve, Slot
            <3>2. ASSUME NEW g \in Gates, Discard(g) PROVE /\ UNCHANGED <<chain, call, begun>>
                         /\ \A h \in Gates : slot'[h].pending \in {slot[h].pending, NoPlan}
                  BY <1>0, <3>2 DEF Discard, Slot
            <3>3. ASSUME NEW g \in Gates, BystanderSpends(g) PROVE /\ UNCHANGED <<chain, call, begun>>
                         /\ \A h \in Gates : slot'[h].pending \in {slot[h].pending, NoPlan}
                  BY <1>0, <3>3 DEF BystanderSpends, Retire, EmptySlot
            <3>4. CASE UserTurn
                  BY <3>4 DEF UserTurn
            <3> QED BY <1>9, <3>1, <3>2, <3>3, <3>4
      <2>2. \A p \in Plans : plan'[p].paid = plan[p].paid /\ plan'[p].for = plan[p].for
            <3>1. ASSUME NEW g \in Gates, Approve(g) PROVE \A p \in Plans : plan'[p].paid = plan[p].paid /\ plan'[p].for = plan[p].for
                  BY <1>0, <3>1 DEF Approve, PlanHistory
            <3>2. CASE UNCHANGED plan
                  BY <3>2
            <3>3. CASE UserTurn
                  BY <1>0, <3>3 DEF UserTurn, PlanHistory
            <3> QED BY <1>9, <3>1, <3>2, <3>3 DEF Discard, BystanderSpends
      <2>3. \A p \in Plans : Live(p)' => Live(p)
            BY <1>0, <2>1 DEF Live
      <2>4. \A w : Fits(w) => Fits(w)'
            BY <2>1 DEF Fits, Whole
      <2> QED BY <2>1, <2>2, <2>3, <2>4 DEF Spent, Known, PaidAtGate, LiveFits, ApprovalCarriesOneStage
<1>10. CASE \E g \in Gates : BystanderIssues(g)
      <2>1. call.pc = "idle"
            BY <1>10 DEF BystanderIssues
      <2> QED BY <1>10, <2>1, BystanderIs, IssuedSpent
<1>11. CASE Pick \/ ToggleAutoApprove \/ Tick \/ UNCHANGED vars
      <2>1. chain'.id = chain.id /\ chain'.stage = chain.stage /\ UNCHANGED <<slot, call, plan, begun>>
            BY <1>0, <1>11 DEF Pick, ToggleAutoApprove, Tick, vars, Chain
      <2>2. \A p \in Plans : Live(p)' => Live(p)
            BY <2>1 DEF Live
      <2>3. \A w : Fits(w) => Fits(w)'
            BY <2>1 DEF Fits, Whole
      <2> QED BY <2>1, <2>2, <2>3 DEF Spent, Known, PaidAtGate, LiveFits, ApprovalCarriesOneStage
<1> QED BY <1>2, <1>3, <1>4, <1>5, <1>6, <1>7, <1>8, <1>9, <1>10, <1>11 DEF Next

(* A plan pays for one stage of a run at most, though stages share a gate, *)
(* chains are abandoned, and the write that retires it may be refused.     *)
THEOREM OneStageEach == Spec => []ApprovalCarriesOneStage
<1>1. Spent => ApprovalCarriesOneStage
      BY DEF Spent
<1> QED BY <1>1, ShapeInit, ShapeStep, AskedInit, AskedStep, SpentInit, SpentStep, PTL DEF Spec
=============================================================================
