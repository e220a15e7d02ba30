---------------------------- MODULE ApprovalGate ----------------------------
(***************************************************************************)
(* The approval gate as a system: the council, swarm and propose tools of  *)
(* the host, the settings document they share, the browser controls that   *)
(* press Approve or Discard, the user turns that confirm, and the clock.   *)
(*                                                                         *)
(* A tool call reads ONE snapshot of the settings, awaits a run that may   *)
(* take minutes, and then writes the slots of its gate from what it read.  *)
(* Anything may happen during that await: another call, a press, a restart *)
(* of the host.                                                            *)
(***************************************************************************)
EXTENDS ApprovalJudge, FiniteSets

CONSTANTS
    Gates,         \* the gates in use, of the three the host has
    Calls,         \* tool calls that may be in flight at the same time
    MaxTime,       \* bound: last tick of the clock
    MaxRestarts,   \* bound: host restarts
    WritesMayFail  \* whether a settings write may be refused

ASSUME GateAssumption ==
    /\ Gates \subseteq {"council", "swarm", "propose"}
    /\ MaxTime \in Nat /\ MaxRestarts \in Nat
    /\ WritesMayFail \in BOOLEAN

VARIABLES
    slot,            \* settings: the keys of each gate
    autoApprove,     \* settings: standing permission
    lastUserTurnAt,  \* host memory: when a user message last arrived
    now,             \* Date.now()
    call,            \* host: the calls in flight
    click,           \* browser: an Approve whose two writes are under way
    plan,            \* history: what each id was issued for, pressed, paid
    spokeAt,         \* history: the last user turn, restarts or not
    restarts         \* history: host restarts so far

hist == <<plan, spokeAt, restarts>>
vars == <<slot, autoApprove, lastUserTurnAt, now, call, click, hist>>

-----------------------------------------------------------------------------
NoGate == "none"

(* A call: what its snapshot said, which request it runs, and for which    *)
(* plan it may pay.  "judged" is before anything paid, "paid" is after.    *)
(* The last three fields are history: when it was judged, the press time   *)
(* it saw, and the last user turn there had been by then.                  *)
Call == [ pc       : {"idle", "judged", "paid"},
          gate     : Gates \union {NoGate},
          asked    : Jobs \union {NoJob},
          runs     : Jobs \union {NoJob},
          auto     : BOOLEAN,
          pays     : Plans \union {NoPlan},
          judgedAt : Nat, pressAt : Nat, turnAt : Nat ]

IdleCall == [ pc |-> "idle", gate |-> NoGate, asked |-> NoJob, runs |-> NoJob,
              auto |-> FALSE, pays |-> NoPlan,
              judgedAt |-> 0, pressAt |-> 0, turnAt |-> 0 ]

Click == [ pc : {"none", "id", "at"}, plan : Plans \union {NoPlan}, at : Nat ]
NoClick == [ pc |-> "none", plan |-> NoPlan, at |-> 0 ]

(* History of one id: what it was issued for, when Approve was first       *)
(* pressed on it (0: never), how many paid runs began on it (2: or more),  *)
(* and whether the retirement of one was lost to a refused write or a      *)
(* restart.                                                                *)
PlanHistory == [ gate : Gates \union {NoGate}, job : Jobs \union {NoJob},
                 issuedAt : Nat, pressedAt : Nat, paid : 0..2, lost : BOOLEAN ]
NewPlan(g, j, t) == [ gate |-> g, job |-> j, issuedAt |-> t,
                      pressedAt |-> 0, paid |-> 0, lost |-> FALSE ]
Unissued == NewPlan(NoGate, NoJob, 0)

TypeOK ==
    /\ slot \in [Gates -> Slot]
    /\ autoApprove \in BOOLEAN
    /\ lastUserTurnAt \in Nat
    /\ now \in Nat
    /\ call \in [Calls -> Call]
    /\ click \in [Gates -> Click]
    /\ plan \in [Plans -> PlanHistory]
    /\ spokeAt \in Nat
    /\ restarts \in 0..MaxRestarts

Init ==
    /\ slot = [g \in Gates |-> EmptySlot]
    /\ autoApprove = FALSE
    /\ lastUserTurnAt = 0
    /\ now = 1
    /\ call = [c \in Calls |-> IdleCall]
    /\ click = [g \in Gates |-> NoClick]
    /\ plan = [p \in Plans |-> Unissued]
    /\ spokeAt = 0
    /\ restarts = 0

-----------------------------------------------------------------------------
(* Mutant: the approval stands for the arguments of the call.              *)
RequestAsked(g, asked, s, allowed, auto) == asked

(* What a call runs once it may: the council keeps to its own argument     *)
(* under auto-approve, the other two take whatever request the slot holds. *)
RequestRun(g, asked, s, allowed, auto) ==
    IF /\ s.job # NoJob
       /\ IF g = "council" THEN allowed /\ ~auto ELSE allowed \/ auto
    THEN s.job
    ELSE asked

(* Mutant: every call plans, whatever is held.                             *)
PlansAnew(g) == FALSE

(* A live plan nobody has approved is only shown again, so a call that     *)
(* finds one changes nothing.                                              *)
ShownAgain(g) == HeldUnapproved(slot[g], autoApprove, now)

(* The tool is called: one snapshot, judged once.                          *)
Ask(c, g, j) ==
    LET s == slot[g]
        allowed == Allowed(s, lastUserTurnAt, now)
        asking == [IdleCall EXCEPT !.pc = "judged", !.gate = g, !.asked = j,
                      !.runs = RequestRun(g, j, s, allowed, autoApprove),
                      !.auto = autoApprove]
    IN  /\ call[c].pc = "idle"
        /\ ~ShownAgain(g)
        /\ call' = [call EXCEPT ![c] =
             IF allowed THEN [asking EXCEPT !.pays = s.pending, !.judgedAt = now,
                                            !.pressAt = s.approvedAt, !.turnAt = spokeAt]
                        ELSE asking]
        /\ UNCHANGED <<slot, autoApprove, lastUserTurnAt, now, click, hist>>

(* An allowed call spends the plan it was allowed for, an auto-approved    *)
(* one spends none.                                                        *)
Spends(c) == IF call[c].auto THEN NoPlan ELSE call[c].pays
MayPay(c) == call[c].auto \/ call[c].pays # NoPlan

(* The paid rounds begin: drafts, units or writing calls are sent.         *)
BeginPaid(c) ==
    /\ call[c].pc = "judged"
    /\ MayPay(c)
    /\ call' = [call EXCEPT ![c].pc = "paid"]
    /\ plan' = [p \in Plans |-> IF p = Spends(c)
                                THEN [plan[p] EXCEPT !.paid = IF @ = 0 THEN 1 ELSE 2]
                                ELSE plan[p]]
    /\ UNCHANGED <<slot, autoApprove, lastUserTurnAt, now, click, spokeAt, restarts>>

-----------------------------------------------------------------------------
(* Write-back.  Each runs after the await, on the slot as it is by then.   *)
Issue(g, j) ==
    \E p \in Plans :
        /\ plan[p] = Unissued
        /\ slot' = [slot EXCEPT ![g] = IssuedSlot(p, j, now)]
        /\ plan' = [plan EXCEPT ![p] = NewPlan(g, j, now)]

(* Mutant: the retirement writes the values the settings leave unchanged.  *)
RetireNothing(g) == UNCHANGED <<slot, plan>>

Retire(g) ==
    /\ slot' = [slot EXCEPT ![g] = EmptySlot]
    /\ UNCHANGED plan

(* A retirement the settings refuse leaves the slot, approval and all.     *)
Lose(P) == plan' = [p \in Plans |-> IF p \in P /\ plan[p].paid # 0
                                    THEN [plan[p] EXCEPT !.lost = TRUE]
                                    ELSE plan[p]]
RetireOrNot(c) ==
    \/ Retire(call[c].gate)
    \/ WritesMayFail /\ Lose({Spends(c)}) /\ UNCHANGED slot

IssueOrNot(g, j) ==
    \/ Issue(g, j)
    \/ WritesMayFail /\ UNCHANGED <<slot, plan>>

Returns(c) ==
    /\ call' = [call EXCEPT ![c] = IdleCall]
    /\ UNCHANGED <<autoApprove, lastUserTurnAt, now, click, spokeAt, restarts>>

(* The run stopped at the gate with a plan.  A council run that was        *)
(* allowed stops here too when the budget refuses it.                      *)
ReturnPlan(c) ==
    LET g == call[c].gate
    IN  /\ call[c].pc = "judged"
        /\ MayPay(c) => g = "council"
        /\ IF ~call[c].auto
           THEN IssueOrNot(g, IF g = "council" THEN call[c].asked ELSE call[c].runs)
           ELSE RetireOrNot(c)
        /\ Returns(c)

(* The run could not start: no seat, no root, a graph that does not hold.  *)
ReturnBlocked(c) ==
    LET g == call[c].gate
    IN  /\ call[c].pc = "judged"
        /\ g # "council"
        /\ IF g = "propose" /\ Spends(c) # NoPlan
           THEN RetireOrNot(c)
           ELSE UNCHANGED <<slot, plan>>
        /\ Returns(c)

(* The paid run came back.  The proposing round retires only the approval  *)
(* it spent; the other two empty their slots whatever they hold by now.    *)
ReturnFull(c) ==
    LET g == call[c].gate
    IN  /\ call[c].pc = "paid"
        /\ IF g = "propose" /\ call[c].auto
           THEN UNCHANGED <<slot, plan>>
           ELSE RetireOrNot(c)
        /\ Returns(c)

-----------------------------------------------------------------------------
(* The Approve control: two settings writes, sent one after the other and  *)
(* applied by the host when they arrive.  The strip and the call card both *)
(* offer it for the plan held now and not yet approved; only the strip     *)
(* shows a proposing round, and it hides an expired one.                   *)
Approvable(g) ==
    /\ slot[g].pending # NoPlan
    /\ slot[g].approved # slot[g].pending
    /\ ~autoApprove
    /\ g = "propose" => ~PlanExpired(slot[g], now)

PressApprove(g) ==
    /\ Approvable(g)
    /\ click[g].pc = "none"
    /\ click' = [click EXCEPT ![g] = [pc |-> "id", plan |-> slot[g].pending, at |-> now]]
    /\ plan' = [plan EXCEPT ![slot[g].pending].pressedAt = IF @ = 0 THEN now ELSE @]
    /\ UNCHANGED <<slot, autoApprove, lastUserTurnAt, now, call, spokeAt, restarts>>

(* Mutant: the write names the plan held when it arrives, not the pressed. *)
ApprovedIdOfHeld(g) ==
    /\ click[g].pc = "id"
    /\ slot' = [slot EXCEPT ![g].approved = slot[g].pending]
    /\ click' = [click EXCEPT ![g].pc = "at"]
    /\ UNCHANGED <<autoApprove, lastUserTurnAt, now, call, hist>>

ApprovedIdArrives(g) ==
    /\ click[g].pc = "id"
    /\ slot' = [slot EXCEPT ![g].approved = click[g].plan]
    /\ click' = [click EXCEPT ![g].pc = "at"]
    /\ UNCHANGED <<autoApprove, lastUserTurnAt, now, call, hist>>

ApprovedAtArrives(g) ==
    /\ click[g].pc = "at"
    /\ slot' = [slot EXCEPT ![g].approvedAt = click[g].at]
    /\ click' = [click EXCEPT ![g] = NoClick]
    /\ UNCHANGED <<autoApprove, lastUserTurnAt, now, call, hist>>

(* Discard empties the id alone; the request and its graph stay behind.    *)
Discard(g) ==
    /\ Approvable(g)
    /\ slot' = [slot EXCEPT ![g].pending = NoPlan]
    /\ UNCHANGED <<autoApprove, lastUserTurnAt, now, call, click, hist>>

ToggleAutoApprove ==
    /\ autoApprove' = ~autoApprove
    /\ UNCHANGED <<slot, lastUserTurnAt, now, call, click, hist>>

(* A user message, in any conversation, enters a step of the agent.        *)
UserTurn ==
    /\ lastUserTurnAt' = now
    /\ spokeAt' = now
    /\ UNCHANGED <<slot, autoApprove, now, call, click, plan, restarts>>

(* The host stops and starts: settings persist, memory and calls do not.   *)
Restart ==
    /\ restarts < MaxRestarts
    /\ restarts' = restarts + 1
    /\ lastUserTurnAt' = 0
    /\ call' = [c \in Calls |-> IdleCall]
    /\ Lose({Spends(c) : c \in {d \in Calls : call[d].pc = "paid"}})
    /\ UNCHANGED <<slot, autoApprove, now, click, spokeAt>>

Tick ==
    /\ now < MaxTime
    /\ now' = now + 1
    /\ UNCHANGED <<slot, autoApprove, lastUserTurnAt, call, click, hist>>

Next ==
    \/ \E c \in Calls, g \in Gates, j \in Jobs : Ask(c, g, j)
    \/ \E c \in Calls : \/ BeginPaid(c)
                        \/ ReturnPlan(c)
                        \/ ReturnBlocked(c)
                        \/ ReturnFull(c)
    \/ \E g \in Gates : \/ PressApprove(g)
                        \/ ApprovedIdArrives(g)
                        \/ ApprovedAtArrives(g)
                        \/ Discard(g)
    \/ ToggleAutoApprove
    \/ UserTurn
    \/ Restart
    \/ Tick

Spec == Init /\ [][Next]_vars

-----------------------------------------------------------------------------
(* A call that pays without auto-approve was judged while its own gate     *)
(* held a plan less than its time to live old, runs the request that plan  *)
(* was issued for, and the person had pressed Approve on that very plan    *)
(* and then sent a message.  The one corner: an older press that reaches   *)
(* the settings in the very millisecond the plan was issued in may lend it *)
(* its time, so the message is then only known to follow the plan.         *)
PaidWithConsent(c) ==
    LET p == Spends(c)
    IN  /\ p \in Plans
        /\ plan[p].gate = call[c].gate
        /\ call[c].judgedAt - plan[p].issuedAt <= PlanTTL
        /\ call[c].runs = plan[p].job
        /\ plan[p].pressedAt # 0
        /\ call[c].turnAt > plan[p].issuedAt
        /\ \/ call[c].turnAt > plan[p].pressedAt
           \/ call[c].pressAt = plan[p].issuedAt

Consent == \A c \in Calls : call[c].pc = "paid" /\ ~call[c].auto => PaidWithConsent(c)

(* "Approvals are single-use": two paid runs never begin on one plan,      *)
(* unless the write that retires it was refused or the host stopped before *)
(* it.  True of calls that never overlap.                                  *)
SingleUse == \A p \in Plans : plan[p].paid > 1 => plan[p].lost

(* A live plan nobody has approved is never displaced by a call coming     *)
(* back, except by one that started under auto-approve: calling again      *)
(* cannot reset the gate.  True of calls that never overlap.               *)
HeldPlanStands ==
    [][\A g \in Gates :
         /\ HeldUnapproved(slot[g], autoApprove, now)
         /\ \A c \in Calls : ~call[c].auto
         /\ call' # call
         => slot'[g].pending = slot[g].pending]_vars

(* The gate keeps the promise of module Consent: what a gate offers, what  *)
(* was pressed, what was spent.                                            *)
Promise == INSTANCE Consent WITH
    offered <- [g \in Gates |-> slot[g].pending],
    known   <- {p \in Plans : plan[p].gate # NoGate},
    pressed <- {p \in Plans : plan[p].pressedAt # 0},
    spent   <- {p \in Plans : plan[p].paid # 0}
KeepsPromise == Promise!Spec
=============================================================================
