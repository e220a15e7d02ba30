------------------------- MODULE ApprovalGateProofs -------------------------
(***************************************************************************)
(* For every number of plans, requests, overlapping calls, restarts and    *)
(* refused writes, and every time to live: the gate is well typed, and no  *)
(* paid run begins without a press on that very plan followed by a         *)
(* message.  When its calls never overlap, an approval pays once, a held   *)
(* plan is not displaced, and the gate implements Consent.                 *)
(***************************************************************************)
EXTENDS ApprovalGate, TLAPS

USE JudgeAssumption, GateAssumption DEF NoGate

-----------------------------------------------------------------------------
(* The strengthening of Consent.  The three named parts say what a held    *)
(* plan, an Approve still travelling and a judged call have in common with *)
(* the history of the plan they name.                                      *)
SlotTellsPlan(g) ==
    LET s == slot[g]
        p == slot[g].pending
    IN  p # NoPlan =>
          /\ plan[p].gate = g
          /\ plan[p].job = s.job
          /\ s.job \in Jobs
          /\ plan[p].issuedAt = s.issuedAt
          /\ s.issuedAt <= now
          /\ s.approved = p => plan[p].pressedAt # 0
          /\ s.approvedAt > s.issuedAt => plan[p].pressedAt # 0 /\ plan[p].pressedAt <= s.approvedAt

ClickTellsPlan(g) ==
    LET q == click[g].plan
    IN  click[g].pc # "none" =>
          /\ q \in Plans
          /\ plan[q].pressedAt # 0
          /\ plan[q].pressedAt <= click[g].at
          /\ click[g].at <= now
          /\ slot[g].pending # NoPlan /\ click[g].at > slot[g].issuedAt => q = slot[g].pending

JudgedWithConsent(c) ==
    LET p == call[c].pays
    IN  /\ p \in Plans
        /\ plan[p].gate = call[c].gate
        /\ call[c].judgedAt - plan[p].issuedAt <= PlanTTL
        /\ call[c].auto \/ call[c].runs = plan[p].job
        /\ plan[p].pressedAt # 0
        /\ call[c].turnAt > plan[p].issuedAt
        /\ \/ call[c].turnAt > plan[p].pressedAt
           \/ call[c].pressAt = plan[p].issuedAt

CallsOK ==
    /\ \A c \in Calls : call[c].pays # NoPlan => JudgedWithConsent(c)
    /\ \A c \in Calls : call[c].pc = "paid" => MayPay(c)
    /\ \A c \in Calls : call[c].pc # "idle" => /\ call[c].gate \in Gates
                                               /\ call[c].asked \in Jobs
                                               /\ call[c].runs \in Jobs
PressesOK ==
    \A p \in Plans : plan[p].pressedAt # 0 => /\ plan[p].gate # NoGate
                                             /\ plan[p].pressedAt <= now

IInv ==
    /\ TypeOK
    /\ now # 0
    /\ lastUserTurnAt <= spokeAt
    /\ \A g \in Gates : SlotTellsPlan(g) /\ ClickTellsPlan(g)
    /\ CallsOK
    /\ PressesOK

-----------------------------------------------------------------------------
(* Type correctness.                                                       *)
LEMMA InitTypeOK == Init => TypeOK
  <1> SUFFICES ASSUME Init PROVE TypeOK
    OBVIOUS
  <1>1. EmptySlot \in Slot
    BY DEF EmptySlot, Slot
  <1>2. IdleCall \in Call
    BY DEF IdleCall, Call
  <1>3. NoClick \in Click
    BY DEF NoClick, Click
  <1>4. Unissued \in PlanHistory
    BY DEF Unissued, NewPlan, PlanHistory
  <1>5. slot \in [Gates -> Slot] /\ click \in [Gates -> Click]
    BY <1>1, <1>3 DEF Init
  <1>6. call \in [Calls -> Call] /\ plan \in [Plans -> PlanHistory]
    BY <1>2, <1>4 DEF Init
  <1>7. restarts \in 0..MaxRestarts /\ now \in Nat
    BY DEF Init
  <1>. QED BY <1>5, <1>6, <1>7 DEF Init, TypeOK

LEMMA LoseType ==
  ASSUME plan \in [Plans -> PlanHistory], NEW P, Lose(P)
  PROVE  plan' \in [Plans -> PlanHistory]
  BY DEF Lose, PlanHistory

LEMMA IssueType ==
  ASSUME TypeOK, NEW g \in Gates \union {NoGate},
         NEW j \in Jobs \union {NoJob}, Issue(g, j)
  PROVE  /\ slot' \in [Gates -> Slot]
         /\ plan' \in [Plans -> PlanHistory]
  <1>1. PICK p \in Plans :
          /\ slot' = [slot EXCEPT ![g] = IssuedSlot(p, j, now)]
          /\ plan' = [plan EXCEPT ![p] = NewPlan(g, j, now)]
    BY DEF Issue
  <1>2. IssuedSlot(p, j, now) \in Slot
    BY DEF IssuedSlot, Slot, TypeOK
  <1>3. NewPlan(g, j, now) \in PlanHistory
    BY DEF NewPlan, PlanHistory, TypeOK
  <1>. QED BY <1>1, <1>2, <1>3 DEF TypeOK

LEMMA RetireType ==
  ASSUME TypeOK, NEW c \in Calls, RetireOrNot(c)
  PROVE  /\ slot' \in [Gates -> Slot]
         /\ plan' \in [Plans -> PlanHistory]
  BY LoseType DEF TypeOK, RetireOrNot, Retire, EmptySlot, Slot

LEMMA NextTypeOK == TypeOK /\ [Next]_vars => TypeOK'
  <1> SUFFICES ASSUME TypeOK, [Next]_vars PROVE TypeOK'
    OBVIOUS
  <1>1. ASSUME NEW c \in Calls, NEW g \in Gates, NEW j \in Jobs, Ask(c, g, j)
        PROVE TypeOK'
    <2>1. RequestRun(g, j, slot[g], Allowed(slot[g], lastUserTurnAt, now), autoApprove)
            \in Jobs \union {NoJob}
      BY DEF RequestRun, TypeOK, Slot
    <2>2. call' \in [Calls -> Call]
      BY <1>1, <2>1 DEF Ask, TypeOK, IdleCall, Call, Slot
    <2>. QED BY <1>1, <2>2 DEF Ask, TypeOK, hist
  <1>2. ASSUME NEW c \in Calls, BeginPaid(c)
        PROVE TypeOK'
    <2>1. call' \in [Calls -> Call]
      BY <1>2 DEF BeginPaid, TypeOK, Call
    <2>2. plan' \in [Plans -> PlanHistory]
      BY <1>2 DEF BeginPaid, TypeOK, PlanHistory
    <2>. QED BY <1>2, <2>1, <2>2 DEF BeginPaid, TypeOK
  <1>3. ASSUME NEW c \in Calls, Returns(c)
        PROVE /\ call' \in [Calls -> Call]
              /\ autoApprove' \in BOOLEAN /\ lastUserTurnAt' \in Nat /\ now' \in Nat
              /\ click' \in [Gates -> Click] /\ spokeAt' \in Nat
              /\ restarts' \in 0..MaxRestarts
    BY <1>3 DEF Returns, TypeOK, IdleCall, Call
  <1>4. ASSUME NEW c \in Calls, ReturnPlan(c) PROVE TypeOK'
    <2> DEFINE g == call[c].gate
    <2>1. CASE ~call[c].auto
      <3>1. IssueOrNot(g, IF g = "council" THEN call[c].asked ELSE call[c].runs)
        BY <1>4, <2>1 DEF ReturnPlan
      <3>2. QED BY <1>3, <1>4, <3>1, IssueType DEF ReturnPlan, IssueOrNot, TypeOK, Call
    <2>2. CASE call[c].auto
      BY <1>3, <1>4, <2>2, RetireType DEF ReturnPlan, TypeOK
    <2>. QED BY <2>1, <2>2
  <1>5. ASSUME NEW c \in Calls, ReturnBlocked(c) PROVE TypeOK'
    BY <1>3, <1>5, RetireType DEF ReturnBlocked, TypeOK
  <1>6. ASSUME NEW c \in Calls, ReturnFull(c) PROVE TypeOK'
    BY <1>3, <1>6, RetireType DEF ReturnFull, TypeOK
  <1>7. ASSUME NEW g \in Gates, PressApprove(g) PROVE TypeOK'
    <2>1. click' \in [Gates -> Click]
      BY <1>7 DEF PressApprove, TypeOK, Click, Slot
    <2>2. plan' \in [Plans -> PlanHistory]
      BY <1>7 DEF PressApprove, Approvable, TypeOK, PlanHistory, Slot
    <2>. QED BY <1>7, <2>1, <2>2 DEF PressApprove, TypeOK
  <1>8. ASSUME NEW g \in Gates, ApprovedIdArrives(g) PROVE TypeOK'
    <2>0. slot[g] \in Slot /\ click[g].plan \in Plans \union {NoPlan}
      BY DEF TypeOK, Click
    <2>1. slot' \in [Gates -> Slot]
      <3>1. [slot[g] EXCEPT !.approved = click[g].plan] \in Slot
        BY <2>0 DEF Slot
      <3>. QED BY <1>8, <3>1 DEF ApprovedIdArrives, TypeOK
    <2>2. click' \in [Gates -> Click]
      BY <1>8 DEF ApprovedIdArrives, TypeOK, Click
    <2>. QED BY <1>8, <2>1, <2>2 DEF ApprovedIdArrives, TypeOK, hist
  <1>9. ASSUME NEW g \in Gates, ApprovedAtArrives(g) PROVE TypeOK'
    <2>1. slot' \in [Gates -> Slot]
      BY <1>9 DEF ApprovedAtArrives, TypeOK, Slot, Click
    <2>2. click' \in [Gates -> Click]
      BY <1>9 DEF ApprovedAtArrives, TypeOK, Click, NoClick
    <2>. QED BY <1>9, <2>1, <2>2 DEF ApprovedAtArrives, TypeOK, hist
  <1>10. ASSUME NEW g \in Gates, Discard(g) PROVE TypeOK'
    BY <1>10 DEF Discard, TypeOK, Slot, hist
  <1>11. CASE ToggleAutoApprove
    BY <1>11 DEF ToggleAutoApprove, TypeOK, hist
  <1>12. CASE UserTurn
    BY <1>12 DEF UserTurn, TypeOK
  <1>13. CASE Restart
    <2>1. call' \in [Calls -> Call]
      BY <1>13 DEF Restart, IdleCall, Call
    <2>. QED BY <1>13, <2>1, LoseType DEF Restart, TypeOK
  <1>14. CASE Tick
    BY <1>14 DEF Tick, TypeOK, hist
  <1>15. CASE UNCHANGED vars
    BY <1>15 DEF vars, hist, TypeOK
  <1>. QED BY <1>1, <1>2, <1>4, <1>5, <1>6, <1>7, <1>8, <1>9, <1>10, <1>11,
              <1>12, <1>13, <1>14, <1>15 DEF Next

(* The gate's state is well typed, whatever overlaps and whatever fails.   *)
THEOREM TypeCorrect == Spec => []TypeOK
  BY InitTypeOK, NextTypeOK, PTL DEF Spec

-----------------------------------------------------------------------------
(* What is known of an id once it is issued never changes, the time of its *)
(* first press once there is one.                                          *)
Remembers ==
    \A p \in Plans :
      plan[p].gate # NoGate =>
        /\ plan'[p].gate = plan[p].gate
        /\ plan'[p].job = plan[p].job
        /\ plan'[p].issuedAt = plan[p].issuedAt
        /\ plan[p].pressedAt # 0 => plan'[p].pressedAt = plan[p].pressedAt

LEMMA IssueRemembers ==
  ASSUME TypeOK, NEW g, NEW j, Issue(g, j) PROVE Remembers
  BY DEF Issue, Unissued, NewPlan, Remembers, TypeOK

LEMMA LoseRemembers ==
  ASSUME TypeOK, NEW P, Lose(P) PROVE Remembers
  BY DEF Lose, Remembers, TypeOK, PlanHistory

LEMMA SameRemembers ==
  ASSUME UNCHANGED plan PROVE Remembers
  BY DEF Remembers

LEMMA PaidRemembers ==
  ASSUME TypeOK, NEW c \in Calls, BeginPaid(c) PROVE Remembers
  BY DEF BeginPaid, Remembers, TypeOK, PlanHistory

LEMMA PressRemembers ==
  ASSUME TypeOK, NEW g \in Gates, PressApprove(g) PROVE Remembers
  BY DEF PressApprove, Approvable, Remembers, TypeOK, PlanHistory, Slot

(* The three parts of the invariant last as long as what they speak of.    *)
LEMMA SlotStands ==
  ASSUME IInv, TypeOK', Remembers, NEW g \in Gates,
         slot'[g] = slot[g], now' >= now
  PROVE  SlotTellsPlan(g)'
  <1>1. slot[g] \in Slot /\ now \in Nat /\ now' \in Nat /\ SlotTellsPlan(g)
    BY DEF IInv, TypeOK
  <1>2. CASE slot[g].pending = NoPlan
    BY <1>2 DEF SlotTellsPlan
  <1>3. CASE slot[g].pending # NoPlan
    <2> DEFINE p == slot[g].pending
    <2>1. p \in Plans /\ plan[p].gate = g /\ g # NoGate
      BY <1>1, <1>3 DEF SlotTellsPlan, Slot
    <2>. QED BY <1>1, <1>3, <2>1 DEF SlotTellsPlan, Remembers, Slot
  <1>. QED BY <1>2, <1>3

LEMMA ClickStands ==
  ASSUME IInv, TypeOK', Remembers, NEW g \in Gates, click'[g] = click[g],
         now' >= now,
         \/ slot'[g].pending = slot[g].pending /\ slot'[g].issuedAt = slot[g].issuedAt
         \/ slot'[g].pending = NoPlan
         \/ slot'[g].issuedAt = now
  PROVE  ClickTellsPlan(g)'
  <1>1. /\ slot[g] \in Slot /\ slot'[g] \in Slot /\ now \in Nat /\ now' \in Nat
        /\ click[g] \in Click /\ ClickTellsPlan(g)
    BY DEF IInv, TypeOK
  <1>2. CASE click[g].pc = "none"
    BY <1>2 DEF ClickTellsPlan
  <1>3. CASE click[g].pc # "none"
    <2> DEFINE q == click[g].plan
    <2>1. q \in Plans /\ plan[q].pressedAt # 0 /\ plan[q].gate # NoGate
      BY <1>1, <1>3 DEF ClickTellsPlan, IInv, PressesOK
    <2>2. plan'[q].pressedAt = plan[q].pressedAt
      BY <2>1 DEF Remembers
    <2>. QED BY <1>1, <1>3, <2>1, <2>2 DEF ClickTellsPlan, Slot, Click
  <1>. QED BY <1>2, <1>3

LEMMA JudgementStands ==
  ASSUME IInv, Remembers, NEW c \in Calls, call[c].pays # NoPlan,
         \/ call'[c] = call[c]
         \/ call'[c] = [call[c] EXCEPT !.pc = "paid"]
  PROVE  JudgedWithConsent(c)'
  <1> DEFINE p == call[c].pays
  <1>1. JudgedWithConsent(c) /\ call[c] \in Call
    BY DEF IInv, CallsOK, TypeOK
  <1>2. p \in Plans /\ plan[p].pressedAt # 0 /\ plan[p].gate # NoGate
    BY <1>1 DEF JudgedWithConsent, IInv, PressesOK
  <1>3. /\ plan'[p].gate = plan[p].gate /\ plan'[p].job = plan[p].job
        /\ plan'[p].issuedAt = plan[p].issuedAt
        /\ plan'[p].pressedAt = plan[p].pressedAt
    BY <1>2 DEF Remembers
  <1>4. /\ call'[c].pays = p /\ call'[c].gate = call[c].gate
        /\ call'[c].judgedAt = call[c].judgedAt /\ call'[c].auto = call[c].auto
        /\ call'[c].runs = call[c].runs /\ call'[c].turnAt = call[c].turnAt
        /\ call'[c].pressAt = call[c].pressAt
    BY DEF Call, IInv, TypeOK
  <1>. QED BY <1>1, <1>3, <1>4 DEF JudgedWithConsent

(* What Ask finds true of the plan its snapshot names.                     *)
LEMMA AskJudges ==
  ASSUME IInv, NEW c \in Calls, NEW g \in Gates, NEW j \in Jobs, Ask(c, g, j),
         call'[c].pays # NoPlan
  PROVE  JudgedWithConsent(c)'
  <1> DEFINE s == slot[g]
             p == slot[g].pending
             runs == RequestRun(g, j, s, Allowed(s, lastUserTurnAt, now), autoApprove)
  <1>1. s \in Slot /\ SlotTellsPlan(g) /\ lastUserTurnAt <= spokeAt
        /\ now \in Nat /\ lastUserTurnAt \in Nat /\ spokeAt \in Nat /\ UNCHANGED plan
    BY DEF IInv, TypeOK, Ask, hist
  <1>2. Allowed(s, lastUserTurnAt, now)
    BY DEF Ask, IdleCall, IInv, TypeOK
  <1>3. /\ call'[c].pays = p /\ call'[c].gate = g /\ call'[c].runs = runs
        /\ call'[c].auto = autoApprove /\ call'[c].judgedAt = now
        /\ call'[c].pressAt = s.approvedAt /\ call'[c].turnAt = spokeAt
    BY <1>2 DEF Ask, IdleCall, IInv, TypeOK
  <1>4. p # NoPlan /\ s.approved = p /\ now - s.issuedAt <= PlanTTL
        /\ s.approvedAt >= s.issuedAt /\ lastUserTurnAt > s.approvedAt
    BY <1>1, <1>2 DEF Allowed, PlanExpired, Slot
  <1>5. p \in Plans /\ plan[p].gate = g /\ plan[p].job = s.job /\ s.job \in Jobs
        /\ plan[p].issuedAt = s.issuedAt /\ plan[p].pressedAt # 0
    BY <1>1, <1>4 DEF SlotTellsPlan, Slot
  <1>6. autoApprove \/ runs = plan[p].job
    BY <1>2, <1>5 DEF RequestRun
  <1>7. \/ spokeAt > plan[p].pressedAt
        \/ s.approvedAt = plan[p].issuedAt
    <2>1. plan[p].pressedAt \in Nat
      BY <1>5 DEF IInv, TypeOK, PlanHistory
    <2>. QED BY <1>1, <1>4, <1>5, <2>1 DEF SlotTellsPlan, Slot
  <1>8. spokeAt > plan[p].issuedAt
    BY <1>1, <1>4, <1>5 DEF Slot
  <1>. QED BY <1>1, <1>3, <1>4, <1>5, <1>6, <1>7, <1>8 DEF JudgedWithConsent

-----------------------------------------------------------------------------
LEMMA CallsStand ==
  ASSUME IInv, Remembers,
         \A c \in Calls : call'[c] = call[c] \/ call'[c] = IdleCall
  PROVE  CallsOK'
  <1>1. ASSUME NEW c \in Calls, call'[c].pays # NoPlan PROVE JudgedWithConsent(c)'
    <2>1. call'[c] = call[c]
      BY <1>1 DEF IdleCall
    <2>. QED BY <1>1, <2>1, JudgementStands
  <1>2. ASSUME NEW c \in Calls, call'[c].pc # "idle"
        PROVE call'[c] = call[c]
    BY <1>2 DEF IdleCall
  <1>. QED BY <1>1, <1>2 DEF CallsOK, MayPay, IInv

LEMMA PressesStand ==
  ASSUME IInv, TypeOK', now' >= now,
         \A p \in Plans : /\ plan'[p].pressedAt # 0 => plan'[p].pressedAt = plan[p].pressedAt
                          /\ plan[p].gate # NoGate => plan'[p].gate = plan[p].gate
  PROVE  PressesOK'
  <1> SUFFICES ASSUME NEW p \in Plans, plan'[p].pressedAt # 0
               PROVE  plan'[p].gate # NoGate /\ plan'[p].pressedAt <= now'
    BY DEF PressesOK
  <1>1. plan[p].pressedAt \in Nat /\ now \in Nat /\ now' \in Nat
    BY DEF IInv, TypeOK, PlanHistory
  <1>. QED BY <1>1 DEF IInv, PressesOK

LEMMA InitIInv == Init => IInv
  <1> SUFFICES ASSUME Init PROVE IInv
    OBVIOUS
  <1>1. \A g \in Gates : SlotTellsPlan(g) /\ ClickTellsPlan(g)
    BY DEF Init, EmptySlot, NoClick, SlotTellsPlan, ClickTellsPlan
  <1>2. CallsOK
    BY DEF Init, IdleCall, CallsOK
  <1>3. PressesOK
    BY DEF Init, Unissued, NewPlan, PressesOK
  <1>. QED BY <1>1, <1>2, <1>3, InitTypeOK DEF Init, IInv

(* A gate that issues or retires its plan tells the truth afterwards.      *)
LEMMA WriteBackTells ==
  ASSUME IInv, TypeOK', NEW g \in Gates, NEW j \in Jobs, UNCHANGED <<now, click>>,
         \/ Issue(g, j)
         \/ Retire(g)
         \/ UNCHANGED slot,
         Remembers, PressesOK'
  PROVE  \A h \in Gates : SlotTellsPlan(h)' /\ ClickTellsPlan(h)'
  <1> SUFFICES ASSUME NEW h \in Gates PROVE SlotTellsPlan(h)' /\ ClickTellsPlan(h)'
    OBVIOUS
  <1>0. now \in Nat /\ now' = now /\ slot \in [Gates -> Slot] /\ plan \in [Plans -> PlanHistory]
    BY DEF IInv, TypeOK
  <1>1. CASE slot'[h] = slot[h]
    BY <1>0, <1>1, SlotStands, ClickStands
  <1>2. CASE h = g /\ Issue(g, j)
    <2>1. PICK p \in Plans : /\ slot' = [slot EXCEPT ![g] = IssuedSlot(p, j, now)]
                             /\ plan' = [plan EXCEPT ![p] = NewPlan(g, j, now)]
      BY <1>2 DEF Issue
    <2>2. slot'[g] = IssuedSlot(p, j, now) /\ plan'[p] = NewPlan(g, j, now)
      BY <1>0, <2>1
    <2>3. SlotTellsPlan(g)'
      BY <1>0, <2>2 DEF SlotTellsPlan, IssuedSlot, NewPlan
    <2>4. ClickTellsPlan(g)'
      BY <1>0, <2>2, ClickStands DEF IssuedSlot
    <2>. QED BY <1>2, <2>3, <2>4
  <1>3. CASE h = g /\ Retire(g)
    <2>1. slot'[g] = EmptySlot
      BY <1>0, <1>3 DEF Retire
    <2>2. SlotTellsPlan(g)'
      BY <2>1 DEF SlotTellsPlan, EmptySlot
    <2>3. ClickTellsPlan(g)'
      BY <1>0, <2>1, ClickStands DEF EmptySlot
    <2>. QED BY <1>3, <2>2, <2>3
  <1>4. \/ slot'[h] = slot[h]
        \/ h = g /\ Issue(g, j)
        \/ h = g /\ Retire(g)
    BY <1>0 DEF Issue, Retire
  <1>. QED BY <1>1, <1>2, <1>3, <1>4

(* A call coming back: whatever it wrote, the invariant holds.             *)
LEMMA ReturnKeeps ==
  ASSUME IInv, TypeOK', NEW c \in Calls, call[c].gate \in Gates, NEW j \in Jobs,
         Returns(c),
         \/ IssueOrNot(call[c].gate, j)
         \/ RetireOrNot(c)
         \/ UNCHANGED <<slot, plan>>
  PROVE  IInv'
  <1> DEFINE g == call[c].gate
  <1>0. TypeOK /\ now' = now /\ now \in Nat /\ UNCHANGED click
    BY DEF IInv, TypeOK, Returns
  <1>1. Remembers
    BY <1>0, IssueRemembers, LoseRemembers, SameRemembers DEF IssueOrNot, RetireOrNot, Retire
  <1>2. \A p \in Plans : /\ plan'[p].pressedAt # 0 => plan'[p].pressedAt = plan[p].pressedAt
                         /\ plan[p].gate # NoGate => plan'[p].gate = plan[p].gate
    <2>1. CASE IssueOrNot(g, j)
      BY <1>0, <1>1, <2>1 DEF IssueOrNot, Issue, NewPlan, Remembers, TypeOK
    <2>2. CASE RetireOrNot(c)
      BY <1>0, <2>2 DEF RetireOrNot, Retire, Lose, TypeOK, PlanHistory
    <2>. QED BY <2>1, <2>2
  <1>3. PressesOK'
    BY <1>0, <1>2, PressesStand
  <1>4. CallsOK'
    BY <1>0, <1>1, CallsStand DEF Returns, TypeOK
  <1>5. Issue(g, j) \/ Retire(g) \/ UNCHANGED slot
    BY DEF IssueOrNot, RetireOrNot
  <1>6. \A h \in Gates : SlotTellsPlan(h)' /\ ClickTellsPlan(h)'
    BY <1>0, <1>1, <1>3, <1>5, WriteBackTells
  <1>7. now' # 0 /\ lastUserTurnAt' <= spokeAt'
    BY DEF IInv, Returns
  <1>. QED BY <1>3, <1>4, <1>6, <1>7 DEF IInv

(* A step of the browser that leaves calls and history alone.              *)
LEMMA BrowserKeeps ==
  ASSUME IInv, TypeOK', now' >= now, UNCHANGED plan,
         \A c \in Calls : call'[c] = call[c] \/ call'[c] = IdleCall,
         lastUserTurnAt' <= spokeAt',
         \A g \in Gates : SlotTellsPlan(g)' /\ ClickTellsPlan(g)'
  PROVE  IInv'
  <1>1. Remembers
    BY SameRemembers
  <1>2. CallsOK'
    BY <1>1, CallsStand
  <1>3. PressesOK'
    BY PressesStand
  <1>4. now' # 0
    BY DEF IInv, TypeOK
  <1>. QED BY <1>2, <1>3, <1>4 DEF IInv

LEMMA AskKeeps ==
  ASSUME IInv, TypeOK', NEW c \in Calls, NEW g \in Gates, NEW j \in Jobs, Ask(c, g, j)
  PROVE  IInv'
  <1>0. TypeOK /\ now' = now /\ now \in Nat /\ UNCHANGED <<slot, click, plan, lastUserTurnAt, spokeAt>>
    BY DEF IInv, TypeOK, Ask, hist
  <1>1. Remembers
    BY <1>0, SameRemembers
  <1>2. \A h \in Gates : SlotTellsPlan(h)' /\ ClickTellsPlan(h)'
    BY <1>0, <1>1, SlotStands, ClickStands
  <1>3. PressesOK'
    BY <1>0, PressesStand
  <1>4. ASSUME NEW d \in Calls, d # c PROVE call'[d] = call[d]
    BY <1>0, <1>4 DEF Ask, TypeOK
  <1>5. ASSUME NEW d \in Calls, call'[d].pays # NoPlan PROVE JudgedWithConsent(d)'
    <2>1. CASE d = c
      BY <1>5, <2>1, AskJudges
    <2>2. CASE d # c
      BY <1>1, <1>4, <1>5, <2>2, JudgementStands
    <2>. QED BY <2>1, <2>2
  <1>6. /\ call'[c].pc = "judged" /\ call'[c].gate = g /\ call'[c].asked = j
        /\ call'[c].runs = RequestRun(g, j, slot[g], Allowed(slot[g], lastUserTurnAt, now), autoApprove)
    BY <1>0 DEF Ask, IdleCall, TypeOK
  <1>7. call'[c].runs \in Jobs
    BY <1>0, <1>6 DEF RequestRun, TypeOK, Slot
  <1>8. CallsOK'
    <2>1. ASSUME NEW d \in Calls, call'[d].pc = "paid" PROVE MayPay(d)'
      BY <1>4, <1>6, <2>1 DEF IInv, CallsOK, MayPay
    <2>2. ASSUME NEW d \in Calls, call'[d].pc # "idle"
          PROVE call'[d].gate \in Gates /\ call'[d].asked \in Jobs /\ call'[d].runs \in Jobs
      BY <1>4, <1>6, <1>7, <2>2 DEF IInv, CallsOK
    <2>. QED BY <1>5, <2>1, <2>2 DEF CallsOK
  <1>9. now' # 0 /\ lastUserTurnAt' <= spokeAt'
    BY <1>0 DEF IInv
  <1>. QED BY <1>2, <1>3, <1>8, <1>9 DEF IInv

LEMMA BeginPaidKeeps ==
  ASSUME IInv, TypeOK', NEW c \in Calls, BeginPaid(c)
  PROVE  IInv'
  <1>0. TypeOK /\ now' = now /\ now \in Nat /\ UNCHANGED <<slot, click, lastUserTurnAt, spokeAt>>
    BY DEF IInv, TypeOK, BeginPaid
  <1>1. Remembers
    BY <1>0, PaidRemembers
  <1>2. ASSUME NEW h \in Gates PROVE SlotTellsPlan(h)' /\ ClickTellsPlan(h)'
    <2>1. slot'[h] = slot[h] /\ click'[h] = click[h] /\ now' >= now
      BY <1>0
    <2>2. SlotTellsPlan(h)'
      BY <1>1, <2>1, SlotStands
    <2>3. ClickTellsPlan(h)'
      BY <1>1, <2>1, ClickStands
    <2>. QED BY <2>2, <2>3
  <1>3. ASSUME NEW p \in Plans
        PROVE  plan'[p].pressedAt = plan[p].pressedAt /\ plan'[p].gate = plan[p].gate
    <2>1. plan[p] \in PlanHistory
      BY <1>0 DEF TypeOK
    <2>. QED BY <2>1 DEF BeginPaid, PlanHistory
  <1>4. PressesOK'
    BY <1>0, <1>3, PressesStand
  <1>5. /\ call'[c] = [call[c] EXCEPT !.pc = "paid"]
        /\ \A d \in Calls : d # c => call'[d] = call[d]
    BY <1>0 DEF BeginPaid, TypeOK
  <1>6. call[c].pc = "judged" /\ MayPay(c) /\ call[c] \in Call
    BY <1>0 DEF BeginPaid, TypeOK
  <1>7. /\ call'[c].pays = call[c].pays /\ call'[c].auto = call[c].auto
        /\ call'[c].gate = call[c].gate /\ call'[c].asked = call[c].asked
        /\ call'[c].runs = call[c].runs
    BY <1>5, <1>6 DEF Call
  <1>8. CallsOK'
    <2>1. ASSUME NEW d \in Calls, call'[d].pays # NoPlan PROVE JudgedWithConsent(d)'
      BY <1>1, <1>5, <1>7, <2>1, JudgementStands
    <2>2. ASSUME NEW d \in Calls, call'[d].pc = "paid" PROVE MayPay(d)'
      BY <1>5, <1>6, <1>7, <2>2 DEF IInv, CallsOK, MayPay
    <2>3. ASSUME NEW d \in Calls, call'[d].pc # "idle"
          PROVE call'[d].gate \in Gates /\ call'[d].asked \in Jobs /\ call'[d].runs \in Jobs
      BY <1>5, <1>6, <1>7, <2>3 DEF IInv, CallsOK
    <2>. QED BY <2>1, <2>2, <2>3 DEF CallsOK
  <1>9. now' # 0 /\ lastUserTurnAt' <= spokeAt'
    BY <1>0 DEF IInv
  <1>. QED BY <1>2, <1>4, <1>8, <1>9 DEF IInv

LEMMA PressKeeps ==
  ASSUME IInv, TypeOK', NEW g \in Gates, PressApprove(g)
  PROVE  IInv'
  <1> DEFINE p == slot[g].pending
  <1>0. TypeOK /\ now' = now /\ now \in Nat /\ UNCHANGED <<slot, call, lastUserTurnAt, spokeAt>>
    BY DEF IInv, TypeOK, PressApprove
  <1>1. Remembers
    BY <1>0, PressRemembers
  <1>2. p \in Plans /\ plan[p].gate = g /\ now # 0
    BY <1>0 DEF PressApprove, Approvable, IInv, SlotTellsPlan, TypeOK, Slot
  <1>3. \A q \in Plans : /\ plan'[q].gate = plan[q].gate
                         /\ q # p => plan'[q].pressedAt = plan[q].pressedAt
                         /\ plan'[p].pressedAt = IF plan[p].pressedAt = 0 THEN now
                                                                         ELSE plan[p].pressedAt
    BY <1>0, <1>2 DEF PressApprove, TypeOK, PlanHistory
  <1>4. ASSUME NEW q \in Plans, plan'[q].pressedAt # 0
        PROVE  plan'[q].gate # NoGate /\ plan'[q].pressedAt <= now'
    <2>1. g # NoGate
      OBVIOUS
    <2>2. CASE q = p
      BY <1>0, <1>2, <1>3, <2>1, <2>2 DEF PressesOK, IInv
    <2>3. CASE q # p
      BY <1>0, <1>3, <1>4, <2>3 DEF PressesOK, IInv
    <2>. QED BY <2>2, <2>3
  <1>5. \A h \in Gates : SlotTellsPlan(h)'
    BY <1>0, <1>1, SlotStands
  <1>6. ASSUME NEW h \in Gates PROVE ClickTellsPlan(h)'
    <2>1. CASE h # g
      <3>1. click'[h] = click[h]
        BY <1>0, <2>1 DEF PressApprove, TypeOK
      <3>. QED BY <1>0, <1>1, <3>1, ClickStands
    <2>2. CASE h = g
      <3>1. click'[g] = [pc |-> "id", plan |-> p, at |-> now]
        BY <1>0 DEF PressApprove, TypeOK
      <3>2. plan'[p].pressedAt # 0 /\ plan'[p].pressedAt <= now
        BY <1>0, <1>2, <1>3 DEF IInv, PressesOK
      <3>. QED BY <1>0, <1>2, <2>2, <3>1, <3>2 DEF ClickTellsPlan
    <2>. QED BY <2>1, <2>2
  <1>7. CallsOK'
    BY <1>0, <1>1, CallsStand
  <1>8. now' # 0 /\ lastUserTurnAt' <= spokeAt'
    BY <1>0 DEF IInv
  <1>. QED BY <1>4, <1>5, <1>6, <1>7, <1>8 DEF IInv, PressesOK

LEMMA ApprovedIdKeeps ==
  ASSUME IInv, TypeOK', NEW g \in Gates, ApprovedIdArrives(g)
  PROVE  IInv'
  <1>0. /\ slot \in [Gates -> Slot] /\ click \in [Gates -> Click]
        /\ now \in Nat /\ now' = now /\ UNCHANGED <<call, plan>>
        /\ lastUserTurnAt' <= spokeAt'
    BY DEF IInv, TypeOK, ApprovedIdArrives, hist
  <1>1. Remembers
    BY <1>0, SameRemembers
  <1>2. /\ slot'[g] = [slot[g] EXCEPT !.approved = click[g].plan]
        /\ click'[g] = [click[g] EXCEPT !.pc = "at"]
        /\ \A h \in Gates : h # g => slot'[h] = slot[h] /\ click'[h] = click[h]
    BY <1>0 DEF ApprovedIdArrives
  <1>3. slot[g] \in Slot /\ click[g] \in Click /\ SlotTellsPlan(g) /\ ClickTellsPlan(g)
    BY <1>0 DEF IInv
  <1>4. /\ slot'[g].pending = slot[g].pending /\ slot'[g].job = slot[g].job
        /\ slot'[g].issuedAt = slot[g].issuedAt /\ slot'[g].approved = click[g].plan
        /\ slot'[g].approvedAt = slot[g].approvedAt
        /\ click'[g].plan = click[g].plan /\ click'[g].at = click[g].at
        /\ click'[g].pc # "none" /\ click[g].pc # "none"
    BY <1>2, <1>3 DEF Slot, Click, ApprovedIdArrives
  <1>5. SlotTellsPlan(g)'
    BY <1>0, <1>3, <1>4 DEF SlotTellsPlan, ClickTellsPlan
  <1>6. ClickTellsPlan(g)'
    BY <1>0, <1>3, <1>4 DEF ClickTellsPlan
  <1>7. ASSUME NEW h \in Gates, h # g PROVE SlotTellsPlan(h)' /\ ClickTellsPlan(h)'
    BY <1>0, <1>1, <1>2, <1>7, SlotStands, ClickStands
  <1>. QED BY <1>0, <1>5, <1>6, <1>7, BrowserKeeps

LEMMA ApprovedAtKeeps ==
  ASSUME IInv, TypeOK', NEW g \in Gates, ApprovedAtArrives(g)
  PROVE  IInv'
  <1>0. /\ slot \in [Gates -> Slot] /\ click \in [Gates -> Click]
        /\ now \in Nat /\ now' = now /\ UNCHANGED <<call, plan>>
        /\ lastUserTurnAt' <= spokeAt'
    BY DEF IInv, TypeOK, ApprovedAtArrives, hist
  <1>1. Remembers
    BY <1>0, SameRemembers
  <1>2. /\ slot'[g] = [slot[g] EXCEPT !.approvedAt = click[g].at]
        /\ click'[g] = NoClick
        /\ \A h \in Gates : h # g => slot'[h] = slot[h] /\ click'[h] = click[h]
    BY <1>0 DEF ApprovedAtArrives
  <1>3. slot[g] \in Slot /\ click[g] \in Click /\ SlotTellsPlan(g) /\ ClickTellsPlan(g)
    BY <1>0 DEF IInv
  <1>4. /\ slot'[g].pending = slot[g].pending /\ slot'[g].job = slot[g].job
        /\ slot'[g].issuedAt = slot[g].issuedAt /\ slot'[g].approved = slot[g].approved
        /\ slot'[g].approvedAt = click[g].at /\ click[g].pc # "none"
    BY <1>2, <1>3 DEF Slot, Click, ApprovedAtArrives
  <1>5. SlotTellsPlan(g)'
    BY <1>0, <1>3, <1>4 DEF SlotTellsPlan, ClickTellsPlan
  <1>6. ClickTellsPlan(g)'
    BY <1>2 DEF ClickTellsPlan, NoClick
  <1>7. ASSUME NEW h \in Gates, h # g PROVE SlotTellsPlan(h)' /\ ClickTellsPlan(h)'
    BY <1>0, <1>1, <1>2, <1>7, SlotStands, ClickStands
  <1>. QED BY <1>0, <1>5, <1>6, <1>7, BrowserKeeps

LEMMA DiscardKeeps ==
  ASSUME IInv, TypeOK', NEW g \in Gates, Discard(g)
  PROVE  IInv'
  <1>0. /\ slot \in [Gates -> Slot]
        /\ now \in Nat /\ now' = now /\ UNCHANGED <<call, click, plan>>
        /\ lastUserTurnAt' <= spokeAt'
    BY DEF IInv, TypeOK, Discard, hist
  <1>1. Remembers
    BY <1>0, SameRemembers
  <1>2. /\ slot'[g].pending = NoPlan
        /\ \A h \in Gates : h # g => slot'[h] = slot[h]
    BY <1>0 DEF Discard, Slot
  <1>3. SlotTellsPlan(g)'
    BY <1>2 DEF SlotTellsPlan
  <1>4. ClickTellsPlan(g)'
    BY <1>0, <1>1, <1>2, ClickStands
  <1>5. ASSUME NEW h \in Gates, h # g PROVE SlotTellsPlan(h)' /\ ClickTellsPlan(h)'
    BY <1>0, <1>1, <1>2, <1>5, SlotStands, ClickStands
  <1>. QED BY <1>0, <1>3, <1>4, <1>5, BrowserKeeps

(* The switch, a user turn, the clock and a stutter touch no gate.         *)
LEMMA QuietKeeps ==
  ASSUME IInv, TypeOK',
         ToggleAutoApprove \/ UserTurn \/ Tick \/ UNCHANGED vars
  PROVE  IInv'
  <1>1. /\ UNCHANGED <<slot, click, call, plan>>
        /\ now \in Nat /\ now' >= now /\ lastUserTurnAt' <= spokeAt'
    BY DEF ToggleAutoApprove, UserTurn, Tick, vars, hist, IInv, TypeOK
  <1>2. Remembers
    BY <1>1, SameRemembers
  <1>3. \A g \in Gates : SlotTellsPlan(g)' /\ ClickTellsPlan(g)'
    BY <1>1, <1>2, SlotStands, ClickStands
  <1>. QED BY <1>1, <1>3, BrowserKeeps

LEMMA RestartKeeps ==
  ASSUME IInv, TypeOK', Restart
  PROVE  IInv'
  <1>0. TypeOK /\ UNCHANGED <<slot, click>> /\ now \in Nat /\ now' = now
        /\ lastUserTurnAt' <= spokeAt'
    BY DEF Restart, IInv, TypeOK
  <1>1. PICK P : Lose(P)
    BY DEF Restart
  <1>2. Remembers
    BY <1>0, <1>1, LoseRemembers
  <1>3. \A p \in Plans : plan'[p].pressedAt = plan[p].pressedAt /\ plan'[p].gate = plan[p].gate
    BY <1>0, <1>1 DEF Lose, TypeOK, PlanHistory
  <1>4. PressesOK'
    BY <1>0, <1>3, PressesStand
  <1>5. CallsOK'
    BY <1>2, CallsStand DEF Restart
  <1>6. \A g \in Gates : SlotTellsPlan(g)' /\ ClickTellsPlan(g)'
    BY <1>0, <1>2, SlotStands, ClickStands
  <1>. QED BY <1>0, <1>4, <1>5, <1>6 DEF IInv

LEMMA NextIInv == IInv /\ [Next]_vars => IInv'
  <1> SUFFICES ASSUME IInv, [Next]_vars PROVE IInv'
    OBVIOUS
  <1>0. TypeOK'
    BY NextTypeOK DEF IInv
  <1>1. ASSUME NEW c \in Calls, call[c].pc # "idle"
        PROVE  call[c].gate \in Gates /\ call[c].asked \in Jobs /\ call[c].runs \in Jobs
    BY <1>1 DEF IInv, CallsOK
  <1>2. ASSUME NEW c \in Calls, NEW g \in Gates, NEW j \in Jobs, Ask(c, g, j) PROVE IInv'
    BY <1>0, <1>2, AskKeeps
  <1>3. ASSUME NEW c \in Calls, BeginPaid(c) PROVE IInv'
    BY <1>0, <1>3, BeginPaidKeeps
  <1>4. ASSUME NEW c \in Calls, ReturnPlan(c) PROVE IInv'
    <2> DEFINE j == IF call[c].gate = "council" THEN call[c].asked ELSE call[c].runs
    <2>1. call[c].gate \in Gates /\ j \in Jobs
      BY <1>1, <1>4 DEF ReturnPlan
    <2>2. Returns(c) /\ (IssueOrNot(call[c].gate, j) \/ RetireOrNot(c))
      BY <1>4 DEF ReturnPlan
    <2>. QED BY <1>0, <2>1, <2>2, ReturnKeeps
  <1>5. ASSUME NEW c \in Calls, ReturnBlocked(c) \/ ReturnFull(c) PROVE IInv'
    <2>1. call[c].gate \in Gates /\ call[c].asked \in Jobs
      BY <1>1, <1>5 DEF ReturnBlocked, ReturnFull
    <2>2. Returns(c) /\ (RetireOrNot(c) \/ UNCHANGED <<slot, plan>>)
      BY <1>5 DEF ReturnBlocked, ReturnFull
    <2>. QED BY <1>0, <2>1, <2>2, ReturnKeeps
  <1>6. ASSUME NEW g \in Gates,
               PressApprove(g) \/ ApprovedIdArrives(g) \/ ApprovedAtArrives(g) \/ Discard(g)
        PROVE IInv'
    BY <1>0, <1>6, PressKeeps, ApprovedIdKeeps, ApprovedAtKeeps, DiscardKeeps
  <1>7. CASE Restart
    BY <1>0, <1>7, RestartKeeps
  <1>8. CASE ToggleAutoApprove \/ UserTurn \/ Tick \/ UNCHANGED vars
    BY <1>0, <1>8, QuietKeeps
  <1>. QED BY <1>2, <1>3, <1>4, <1>5, <1>6, <1>7, <1>8 DEF Next

(* The invariant holds of every behaviour of the gate.                     *)
THEOREM Inductive == Spec => []IInv
  BY InitIInv, NextIInv, PTL DEF Spec

(* No paid run begins without a press of Approve on the very plan it runs, *)
(* held at its own gate and live when judged, and a later message: for any *)
(* number of overlapping calls, refused writes and restarts.               *)
THEOREM ConsentHolds == Spec => []Consent
  <1>1. IInv => Consent
    BY DEF IInv, CallsOK, Consent, MayPay, Spends, JudgedWithConsent, PaidWithConsent
  <1>. QED BY <1>1, Inductive, PTL

-----------------------------------------------------------------------------
(* The gate when its calls never overlap, as in a host with one            *)
(* conversation.  Overlap refutes the first two of its theorems.           *)

OneCaller == \A c, d \in Calls : c = d

-----------------------------------------------------------------------------
(* A press still travelling with its id is on a plan not yet approved.     *)
IdTravels(g) ==
    slot[g].pending # NoPlan /\ slot[g].approved = slot[g].pending => click[g].pc # "id"

(* What a call finds at its gate stays so until it returns: no live plan   *)
(* that waits, and the plan it pays for still pending and approved.        *)
FindsNoneWaiting(c) ==
    LET s == slot[call[c].gate]
    IN  call[c].pc # "idle" /\ ~call[c].auto =>
          s.pending = NoPlan \/ s.approved = s.pending \/ PlanExpired(s, now)

HoldsItsPlan(c) ==
    call[c].pays # NoPlan => /\ call[c].pc # "idle"
                             /\ slot[call[c].gate].pending = call[c].pays
                             /\ slot[call[c].gate].approved = call[c].pays

(* A plan paid for, whose retirement was not lost, is being worked on or   *)
(* waits at no gate.                                                       *)
UnderWay(p) == \E c \in Calls : call[c].pc = "paid" /\ Spends(c) = p
Settled(p) ==
    plan[p].paid # 0 /\ ~plan[p].lost =>
        /\ plan[p].paid = 1
        /\ UnderWay(p) \/ \A g \in Gates : slot[g].pending # p

(* A call about to pay has a plan nothing was paid for.                    *)
Unspent(c) ==
    call[c].pc = "judged" /\ Spends(c) # NoPlan =>
        plan[Spends(c)].paid = 0 \/ plan[Spends(c)].lost

Solo ==
    /\ IInv
    /\ \A g \in Gates : IdTravels(g)
    /\ \A c \in Calls : FindsNoneWaiting(c) /\ HoldsItsPlan(c) /\ Unspent(c)
    /\ \A p \in Plans : Settled(p)

LEMMA InitSolo == Init => Solo
  <1> SUFFICES ASSUME Init PROVE Solo
    OBVIOUS
  <1>1. IInv
    BY InitIInv
  <1>2. \A g \in Gates : IdTravels(g)
    BY DEF Init, EmptySlot, IdTravels
  <1>3. \A c \in Calls : FindsNoneWaiting(c) /\ HoldsItsPlan(c) /\ Unspent(c)
    BY DEF Init, IdleCall, FindsNoneWaiting, HoldsItsPlan, Unspent
  <1>4. \A p \in Plans : Settled(p)
    BY DEF Init, Unissued, NewPlan, Settled
  <1>. QED BY <1>1, <1>2, <1>3, <1>4 DEF Solo

-----------------------------------------------------------------------------
(* While a call is out, no other is.                                       *)
LEMMA Alone ==
  ASSUME OneCaller, TypeOK, NEW c \in Calls
  PROVE  \A d \in Calls : d = c
  BY DEF OneCaller

LEMMA AskSolo ==
  ASSUME OneCaller, Solo, IInv', NEW c \in Calls, NEW g \in Gates, NEW j \in Jobs, Ask(c, g, j)
  PROVE  Solo'
  <1> DEFINE s == slot[g]
             allowed == Allowed(s, lastUserTurnAt, now)
  <1>0. /\ UNCHANGED <<slot, autoApprove, now, click, plan>>
        /\ call[c].pc = "idle" /\ ~ShownAgain(g) /\ call \in [Calls -> Call]
        /\ \A d \in Calls : d = c
    BY Alone DEF Ask, hist, Solo, IInv, TypeOK
  <1>1. /\ call'[c].pc = "judged" /\ call'[c].gate = g /\ call'[c].auto = autoApprove
        /\ call'[c].pays = IF allowed THEN s.pending ELSE NoPlan
    BY <1>0 DEF Ask, IdleCall
  <1>2. \A h \in Gates : IdTravels(h)'
    BY <1>0 DEF Solo, IdTravels
  <1>3. FindsNoneWaiting(c)'
    BY <1>0, <1>1 DEF FindsNoneWaiting, ShownAgain, HeldUnapproved
  <1>4. HoldsItsPlan(c)'
    BY <1>0, <1>1 DEF HoldsItsPlan, Allowed
  <1>5. ASSUME NEW p \in Plans PROVE Settled(p)' /\ ~UnderWay(p)
    BY <1>0 DEF Settled, UnderWay, Solo
  <1>6. Unspent(c)'
    <2>1. SUFFICES ASSUME Spends(c)' # NoPlan
                   PROVE  plan[Spends(c)'].paid = 0 \/ plan[Spends(c)'].lost
      BY <1>0 DEF Unspent
    <2>2. Spends(c)' = s.pending /\ s.pending \in Plans
      BY <1>0, <1>1, <2>1 DEF Spends, Solo, IInv, TypeOK, Slot
    <2>3. Settled(s.pending) /\ ~UnderWay(s.pending)
      BY <1>5, <2>2 DEF Solo
    <2>. QED BY <2>2, <2>3 DEF Settled
  <1>. QED BY <1>0, <1>2, <1>3, <1>4, <1>5, <1>6 DEF Solo

LEMMA BeginPaidSolo ==
  ASSUME OneCaller, Solo, IInv', NEW c \in Calls, BeginPaid(c)
  PROVE  Solo'
  <1>0. /\ UNCHANGED <<slot, now, click>>
        /\ call[c].pc = "judged" /\ call[c] \in Call /\ call' = [call EXCEPT ![c].pc = "paid"]
        /\ call \in [Calls -> Call] /\ plan \in [Plans -> PlanHistory]
        /\ \A d \in Calls : d = c
    BY Alone DEF BeginPaid, Solo, IInv, TypeOK
  <1>1. /\ call'[c].pc = "paid" /\ call'[c].gate = call[c].gate
        /\ call'[c].auto = call[c].auto /\ call'[c].pays = call[c].pays
        /\ Spends(c)' = Spends(c)
    BY <1>0 DEF Call, Spends
  <1>2. \A h \in Gates : IdTravels(h)'
    BY <1>0 DEF Solo, IdTravels
  <1>3. FindsNoneWaiting(c)' /\ HoldsItsPlan(c)' /\ Unspent(c)'
    BY <1>0, <1>1 DEF Solo, FindsNoneWaiting, HoldsItsPlan, Unspent
  <1>4. ASSUME NEW p \in Plans PROVE Settled(p)'
    <2>0. plan[p] \in PlanHistory
      BY <1>0
    <2>1. CASE p = Spends(c)
      <3>1. /\ plan'[p].paid = IF plan[p].paid = 0 THEN 1 ELSE 2
            /\ plan'[p].lost = plan[p].lost
        BY <1>0, <2>0, <2>1 DEF BeginPaid, PlanHistory
      <3>2. plan[p].paid = 0 \/ plan[p].lost
        BY <1>0, <2>1 DEF Solo, Unspent
      <3>3. UnderWay(p)'
        BY <1>1, <2>1 DEF UnderWay
      <3>. QED BY <3>1, <3>2, <3>3 DEF Settled
    <2>2. CASE p # Spends(c)
      <3>1. plan'[p] = plan[p]
        BY <2>2 DEF BeginPaid
      <3>2. ~UnderWay(p)
        BY <1>0 DEF UnderWay
      <3>. QED BY <1>0, <3>1, <3>2 DEF Settled, Solo
    <2>. QED BY <2>1, <2>2
  <1>. QED BY <1>0, <1>2, <1>3, <1>4 DEF Solo

-----------------------------------------------------------------------------
(* A call coming back ends what it did: a plan it paid for is no longer    *)
(* pending, or lost.                                                       *)
LEMMA BackTellsPlans ==
  ASSUME OneCaller, Solo, NEW c \in Calls, Returns(c), call[c].pc # "idle",
         call[c].gate \in Gates, NEW j,
         \/ call[c].pc = "judged" /\ IssueOrNot(call[c].gate, j)
         \/ RetireOrNot(c)
         \/ (call[c].pc = "paid" => call[c].auto) /\ UNCHANGED <<slot, plan>>,
         NEW p \in Plans
  PROVE  Settled(p)'
  <1> DEFINE g == call[c].gate
  <1>0. /\ slot \in [Gates -> Slot] /\ plan \in [Plans -> PlanHistory] /\ plan[p] \in PlanHistory
        /\ call \in [Calls -> Call] /\ \A d \in Calls : d = c
        /\ Settled(p) /\ HoldsItsPlan(c)
    BY Alone DEF Solo, IInv, TypeOK
  <1>1. SUFFICES ASSUME plan'[p].paid # 0, ~plan'[p].lost
                 PROVE  plan'[p].paid = 1 /\ \A h \in Gates : slot'[h].pending # p
    BY DEF Settled
  <1>2. CASE call[c].pc = "judged" /\ IssueOrNot(g, j)
    <2>1. ~UnderWay(p)
      BY <1>0, <1>2 DEF UnderWay
    <2>2. CASE UNCHANGED <<slot, plan>>
      BY <1>0, <1>1, <2>1, <2>2 DEF Settled
    <2>3. CASE Issue(g, j)
      <3>1. PICK q \in Plans : /\ plan[q] = Unissued
                               /\ slot' = [slot EXCEPT ![g] = IssuedSlot(q, j, now)]
                               /\ plan' = [plan EXCEPT ![q] = NewPlan(g, j, now)]
        BY <2>3 DEF Issue
      <3>2. p # q /\ plan'[p] = plan[p]
        BY <1>0, <1>1, <3>1 DEF NewPlan
      <3>3. \A h \in Gates : slot'[h].pending = IF h = g THEN q ELSE slot[h].pending
        BY <1>0, <3>1 DEF IssuedSlot
      <3>. QED BY <1>0, <1>1, <2>1, <3>2, <3>3 DEF Settled
    <2>. QED BY <1>2, <2>2, <2>3 DEF IssueOrNot
  <1>3. CASE RetireOrNot(c)
    <2>1. plan'[p].paid = plan[p].paid /\ plan[p].paid # 0 /\ ~plan[p].lost
      BY <1>0, <1>1, <1>3 DEF RetireOrNot, Retire, Lose, PlanHistory
    <2>2. CASE Retire(g)
      <3>1. \A h \in Gates : slot'[h].pending = IF h = g THEN NoPlan ELSE slot[h].pending
        BY <1>0, <2>2 DEF Retire, EmptySlot
      <3>2. CASE UnderWay(p)
        <4>1. call[c].pays = p
          BY <1>0, <3>2 DEF UnderWay, Spends
        <4>2. slot[g].pending = p
          BY <1>0, <4>1 DEF HoldsItsPlan
        <4>3. \A h \in Gates : slot[h].pending = p => plan[p].gate = h
          <5> SUFFICES ASSUME NEW h \in Gates, slot[h].pending = p PROVE plan[p].gate = h
            OBVIOUS
          <5>1. SlotTellsPlan(h) /\ p # NoPlan
            BY DEF Solo, IInv
          <5>. QED BY <5>1 DEF SlotTellsPlan
        <4>. QED BY <1>0, <2>1, <3>1, <4>2, <4>3 DEF Settled
      <3>. QED BY <1>0, <2>1, <3>1, <3>2 DEF Settled
    <2>3. CASE Lose({Spends(c)}) /\ UNCHANGED slot
      <3>1. p # Spends(c)
        BY <1>1, <2>1, <2>3 DEF Lose
      <3>2. ~UnderWay(p)
        BY <1>0, <3>1 DEF UnderWay
      <3>. QED BY <1>0, <2>1, <2>3, <3>2 DEF Settled
    <2>. QED BY <1>3, <2>2, <2>3 DEF RetireOrNot
  <1>4. CASE (call[c].pc = "paid" => call[c].auto) /\ UNCHANGED <<slot, plan>>
    <2>1. ~UnderWay(p)
      BY <1>0, <1>4 DEF UnderWay, Spends
    <2>. QED BY <1>0, <1>1, <1>4, <2>1 DEF Settled
  <1>. QED BY <1>2, <1>3, <1>4

LEMMA BackSolo ==
  ASSUME OneCaller, Solo, IInv', NEW c \in Calls, Returns(c), call[c].pc # "idle",
         call[c].gate \in Gates, NEW j,
         \/ call[c].pc = "judged" /\ IssueOrNot(call[c].gate, j)
         \/ RetireOrNot(c)
         \/ (call[c].pc = "paid" => call[c].auto) /\ UNCHANGED <<slot, plan>>
  PROVE  Solo'
  <1>0. /\ slot \in [Gates -> Slot] /\ call'[c] = IdleCall /\ click' = click
        /\ \A d \in Calls : d = c
    BY Alone DEF Solo, IInv, TypeOK, Returns
  <1>1. FindsNoneWaiting(c)' /\ HoldsItsPlan(c)' /\ Unspent(c)'
    BY <1>0 DEF IdleCall, FindsNoneWaiting, HoldsItsPlan, Unspent
  <1>2. \A p \in Plans : Settled(p)'
    BY BackTellsPlans
  <1>3. ASSUME NEW h \in Gates PROVE IdTravels(h)'
    <2>1. \/ slot'[h] = slot[h]
          \/ slot'[h] = EmptySlot
          \/ \E p \in Plans : slot'[h] = IssuedSlot(p, j, now)
      BY <1>0 DEF IssueOrNot, Issue, RetireOrNot, Retire
    <2>2. IdTravels(h) /\ UNCHANGED click
      BY <1>0 DEF Solo
    <2>3. CASE slot'[h] = slot[h]
      BY <2>2, <2>3 DEF IdTravels
    <2>4. CASE slot'[h] = EmptySlot
      BY <2>4 DEF IdTravels, EmptySlot
    <2>5. ASSUME NEW p \in Plans, slot'[h] = IssuedSlot(p, j, now) PROVE IdTravels(h)'
      BY <2>5 DEF IdTravels, IssuedSlot
    <2>. QED BY <2>1, <2>3, <2>4, <2>5
  <1>. QED BY <1>0, <1>1, <1>2, <1>3 DEF Solo

(* How a call comes back, whichever tool it is of.                         *)
LEMMA ComesBack ==
  ASSUME IInv, NEW c \in Calls, ReturnPlan(c) \/ ReturnBlocked(c) \/ ReturnFull(c)
  PROVE  /\ Returns(c) /\ call[c].pc # "idle" /\ call[c].gate \in Gates
         /\ \E j : \/ call[c].pc = "judged" /\ ~call[c].auto /\ IssueOrNot(call[c].gate, j)
                   \/ RetireOrNot(c)
                   \/ (call[c].pc = "paid" => call[c].auto) /\ UNCHANGED <<slot, plan>>
  BY DEF IInv, CallsOK, ReturnPlan, ReturnBlocked, ReturnFull

-----------------------------------------------------------------------------
(* Steps of the browser, of the clock and of the user leave the calls and  *)
(* what was paid alone.                                                    *)
LEMMA OthersSolo ==
  ASSUME Solo, IInv', UNCHANGED call,
         \A p \in Plans : plan'[p].paid = plan[p].paid /\ plan'[p].lost = plan[p].lost,
         \A g \in Gates : slot'[g].pending \in {slot[g].pending, NoPlan},
         \A g \in Gates : IdTravels(g)',
         \A c \in Calls : FindsNoneWaiting(c)' /\ HoldsItsPlan(c)'
  PROVE  Solo'
  <1>1. \A c \in Calls : Unspent(c)'
    <2> SUFFICES ASSUME NEW c \in Calls PROVE Unspent(c)'
      OBVIOUS
    <2>1. Spends(c)' = Spends(c) /\ Spends(c) \in Plans \union {NoPlan}
      BY DEF Spends, Solo, IInv, TypeOK, Call
    <2>. QED BY <2>1 DEF Solo, Unspent
  <1>2. \A p \in Plans : Settled(p)'
    <2> SUFFICES ASSUME NEW p \in Plans PROVE Settled(p)'
      OBVIOUS
    <2>1. UnderWay(p)' <=> UnderWay(p)
      BY DEF UnderWay, Spends
    <2>. QED BY <2>1 DEF Solo, Settled
  <1>. QED BY <1>1, <1>2 DEF Solo

LEMMA PressSolo ==
  ASSUME Solo, IInv', NEW g \in Gates, PressApprove(g)
  PROVE  Solo'
  <1>0. /\ UNCHANGED <<slot, call, now>> /\ plan \in [Plans -> PlanHistory]
        /\ slot[g].pending # NoPlan /\ slot[g].approved # slot[g].pending
        /\ click \in [Gates -> Click]
    BY DEF PressApprove, Approvable, Solo, IInv, TypeOK
  <1>1. \A p \in Plans : plan'[p].paid = plan[p].paid /\ plan'[p].lost = plan[p].lost
    BY <1>0 DEF PressApprove, PlanHistory
  <1>2. \A h \in Gates : IdTravels(h)'
    BY <1>0 DEF PressApprove, Solo, IdTravels
  <1>3. \A c \in Calls : FindsNoneWaiting(c)' /\ HoldsItsPlan(c)'
    BY <1>0 DEF Solo, FindsNoneWaiting, HoldsItsPlan
  <1>. QED BY <1>0, <1>1, <1>2, <1>3, OthersSolo

LEMMA IdSolo ==
  ASSUME Solo, IInv', NEW g \in Gates, ApprovedIdArrives(g)
  PROVE  Solo'
  <1>0. /\ UNCHANGED <<call, plan, now>> /\ click[g].pc = "id"
        /\ slot \in [Gates -> Slot] /\ click \in [Gates -> Click] /\ click[g] \in Click
        /\ slot[g] \in Slot
    BY DEF ApprovedIdArrives, hist, Solo, IInv, TypeOK
  <1>1. /\ click'[g].pc = "at" /\ slot'[g].pending = slot[g].pending
        /\ slot'[g].issuedAt = slot[g].issuedAt
        /\ \A h \in Gates : h # g => slot'[h] = slot[h] /\ click'[h] = click[h]
    BY <1>0 DEF ApprovedIdArrives, Slot, Click
  <1>2. \A h \in Gates : IdTravels(h)'
    BY <1>0, <1>1 DEF Solo, IdTravels
  <1>3. slot[g].pending = NoPlan \/ slot[g].approved # slot[g].pending
    BY <1>0 DEF Solo, IdTravels
  <1>4. ASSUME NEW c \in Calls PROVE FindsNoneWaiting(c)' /\ HoldsItsPlan(c)'
    <2>1. HoldsItsPlan(c) /\ FindsNoneWaiting(c)
          /\ (call[c].pc # "idle" => call[c].gate \in Gates)
      BY DEF Solo, IInv, CallsOK
    <2>2. CASE call[c].gate = g
      <3>1. call[c].pays = NoPlan
        BY <1>0, <1>3, <2>1, <2>2 DEF HoldsItsPlan
      <3>. QED BY <1>0, <1>1, <1>3, <2>1, <2>2, <3>1 DEF FindsNoneWaiting, HoldsItsPlan, PlanExpired
    <2>3. CASE call[c].gate # g
      BY <1>0, <1>1, <2>1, <2>3 DEF FindsNoneWaiting, HoldsItsPlan
    <2>. QED BY <2>2, <2>3
  <1>5. \A h \in Gates : slot'[h].pending = slot[h].pending
    BY <1>1
  <1>. QED BY <1>0, <1>2, <1>4, <1>5, OthersSolo

LEMMA AtSolo ==
  ASSUME Solo, IInv', NEW g \in Gates, ApprovedAtArrives(g)
  PROVE  Solo'
  <1>0. /\ UNCHANGED <<call, plan, now>>
        /\ slot \in [Gates -> Slot] /\ click \in [Gates -> Click] /\ slot[g] \in Slot
    BY DEF ApprovedAtArrives, hist, Solo, IInv, TypeOK
  <1>1. \A h \in Gates : /\ slot'[h].pending = slot[h].pending
                         /\ slot'[h].issuedAt = slot[h].issuedAt
                         /\ slot'[h].approved = slot[h].approved
                         /\ click'[h] = click[h] \/ click'[h].pc = "none"
    BY <1>0 DEF ApprovedAtArrives, Slot, NoClick
  <1>2. \A h \in Gates : IdTravels(h)'
    BY <1>1 DEF Solo, IdTravels
  <1>3. \A c \in Calls : FindsNoneWaiting(c)' /\ HoldsItsPlan(c)'
    <2> SUFFICES ASSUME NEW c \in Calls PROVE FindsNoneWaiting(c)' /\ HoldsItsPlan(c)'
      OBVIOUS
    <2>1. call[c].pc # "idle" => call[c].gate \in Gates
      BY DEF Solo, IInv, CallsOK
    <2>2. call[c].pays # NoPlan => call[c].pc # "idle"
      BY DEF Solo, HoldsItsPlan
    <2>. QED BY <1>0, <1>1, <2>1, <2>2 DEF Solo, FindsNoneWaiting, HoldsItsPlan, PlanExpired
  <1>. QED BY <1>0, <1>1, <1>2, <1>3, OthersSolo

LEMMA DiscardSolo ==
  ASSUME Solo, IInv', NEW g \in Gates, Discard(g)
  PROVE  Solo'
  <1>0. /\ UNCHANGED <<call, plan, now, click>> /\ slot[g].approved # slot[g].pending
        /\ slot \in [Gates -> Slot] /\ slot[g] \in Slot
    BY DEF Discard, Approvable, hist, Solo, IInv, TypeOK
  <1>1. /\ slot'[g].pending = NoPlan
        /\ \A h \in Gates : h # g => slot'[h] = slot[h]
    BY <1>0 DEF Discard, Slot
  <1>2. \A h \in Gates : IdTravels(h)'
    BY <1>0, <1>1 DEF Solo, IdTravels
  <1>3. ASSUME NEW c \in Calls PROVE FindsNoneWaiting(c)' /\ HoldsItsPlan(c)'
    <2>1. HoldsItsPlan(c) /\ FindsNoneWaiting(c)
          /\ (call[c].pc # "idle" => call[c].gate \in Gates)
      BY DEF Solo, IInv, CallsOK
    <2>2. CASE call[c].gate = g
      BY <1>0, <1>1, <2>1, <2>2 DEF FindsNoneWaiting, HoldsItsPlan
    <2>3. CASE call[c].gate # g
      BY <1>0, <1>1, <2>1, <2>3 DEF FindsNoneWaiting, HoldsItsPlan
    <2>. QED BY <2>2, <2>3
  <1>. QED BY <1>0, <1>1, <1>2, <1>3, OthersSolo

LEMMA QuietSolo ==
  ASSUME Solo, IInv', ToggleAutoApprove \/ UserTurn \/ Tick \/ UNCHANGED vars
  PROVE  Solo'
  <1>0. /\ UNCHANGED <<call, plan, slot, click>> /\ slot \in [Gates -> Slot]
        /\ now \in Nat /\ now' \in Nat /\ now' >= now
    BY DEF ToggleAutoApprove, UserTurn, Tick, vars, hist, Solo, IInv, TypeOK
  <1>1. \A h \in Gates : IdTravels(h)'
    BY <1>0 DEF Solo, IdTravels
  <1>2. ASSUME NEW c \in Calls PROVE FindsNoneWaiting(c)' /\ HoldsItsPlan(c)'
    <2>1. HoldsItsPlan(c) /\ FindsNoneWaiting(c)
          /\ (call[c].pc # "idle" => call[c].gate \in Gates)
      BY DEF Solo, IInv, CallsOK
    <2>2. \A g \in Gates : slot[g].issuedAt \in Nat
      BY <1>0 DEF Slot
    <2>3. \A g \in Gates : PlanExpired(slot[g], now) => PlanExpired(slot'[g], now')
      BY <1>0, <2>2 DEF PlanExpired
    <2>. QED BY <1>0, <2>1, <2>3 DEF FindsNoneWaiting, HoldsItsPlan
  <1>. QED BY <1>0, <1>1, <1>2, OthersSolo

LEMMA RestartSolo ==
  ASSUME OneCaller, Solo, IInv', Restart
  PROVE  Solo'
  <1> DEFINE P == {Spends(c) : c \in {d \in Calls : call[d].pc = "paid"}}
  <1>0. /\ UNCHANGED <<slot, now, click>> /\ call' = [c \in Calls |-> IdleCall] /\ Lose(P)
        /\ plan \in [Plans -> PlanHistory]
    BY DEF Restart, Solo, IInv, TypeOK
  <1>1. \A h \in Gates : IdTravels(h)'
    BY <1>0 DEF Solo, IdTravels
  <1>2. \A c \in Calls : FindsNoneWaiting(c)' /\ HoldsItsPlan(c)' /\ Unspent(c)'
    BY <1>0 DEF IdleCall, FindsNoneWaiting, HoldsItsPlan, Unspent
  <1>3. ASSUME NEW p \in Plans PROVE Settled(p)'
    <2>0. plan[p] \in PlanHistory
      BY <1>0
    <2>1. CASE p \in P /\ plan[p].paid # 0
      BY <1>0, <2>0, <2>1 DEF Lose, Settled, PlanHistory
    <2>2. CASE plan[p].paid = 0
      BY <1>0, <2>0, <2>2 DEF Lose, Settled
    <2>3. CASE p \notin P
      <3>1. ~UnderWay(p)
        BY <2>3 DEF UnderWay
      <3>2. plan'[p] = plan[p]
        BY <1>0, <2>3 DEF Lose
      <3>. QED BY <1>0, <3>1, <3>2 DEF Solo, Settled
    <2>. QED BY <2>1, <2>2, <2>3
  <1>. QED BY <1>1, <1>2, <1>3 DEF Solo

LEMMA NextSolo == OneCaller /\ Solo /\ [Next]_vars => Solo'
  <1> SUFFICES ASSUME OneCaller, Solo, [Next]_vars PROVE Solo'
    OBVIOUS
  <1>0. IInv'
    BY NextIInv DEF Solo
  <1>1. ASSUME NEW c \in Calls, NEW g \in Gates, NEW j \in Jobs, Ask(c, g, j) PROVE Solo'
    BY <1>0, <1>1, AskSolo
  <1>2. ASSUME NEW c \in Calls, BeginPaid(c) PROVE Solo'
    BY <1>0, <1>2, BeginPaidSolo
  <1>3. ASSUME NEW c \in Calls, ReturnPlan(c) \/ ReturnBlocked(c) \/ ReturnFull(c) PROVE Solo'
    BY <1>0, <1>3, ComesBack, BackSolo DEF Solo
  <1>4. ASSUME NEW g \in Gates,
               PressApprove(g) \/ ApprovedIdArrives(g) \/ ApprovedAtArrives(g) \/ Discard(g)
        PROVE Solo'
    BY <1>0, <1>4, PressSolo, IdSolo, AtSolo, DiscardSolo
  <1>5. CASE Restart
    BY <1>0, <1>5, RestartSolo
  <1>6. CASE ToggleAutoApprove \/ UserTurn \/ Tick \/ UNCHANGED vars
    BY <1>0, <1>6, QuietSolo
  <1>. QED BY <1>1, <1>2, <1>3, <1>4, <1>5, <1>6 DEF Next

(* What is so of every behaviour whose calls do not overlap.               *)
THEOREM SoloInductive == ASSUME OneCaller PROVE Spec => []Solo
  <1>1. Solo /\ [Next]_vars => Solo'
    BY NextSolo
  <1>. QED BY <1>1, InitSolo, PTL DEF Spec

(* Approvals are single-use (README.md:59) for calls that do not overlap:  *)
(* two paid runs begin on one plan only if its retirement was refused or   *)
(* the host stopped before it.                                             *)
THEOREM UsedOnce == ASSUME OneCaller PROVE Spec => []SingleUse
  <1>1. Solo => SingleUse
    BY DEF Solo, Settled, SingleUse, IInv, TypeOK, PlanHistory
  <1>. QED BY <1>1, SoloInductive, PTL

-----------------------------------------------------------------------------
(* A live plan nobody approved is shown again and never displaced          *)
(* (index.ts:950), for calls that do not overlap.                          *)
LEMMA StepStands ==
  ASSUME OneCaller, Solo, [Next]_vars, NEW g \in Gates,
         HeldUnapproved(slot[g], autoApprove, now), \A c \in Calls : ~call[c].auto,
         call' # call
  PROVE  slot'[g].pending = slot[g].pending
  <1>0. slot \in [Gates -> Slot] /\ call \in [Calls -> Call]
    BY DEF Solo, IInv, TypeOK
  <1>1. CASE UNCHANGED slot
    BY <1>1
  <1>2. ASSUME NEW c \in Calls, ReturnPlan(c) \/ ReturnBlocked(c) \/ ReturnFull(c)
        PROVE  slot'[g].pending = slot[g].pending
    <2>1. call[c].gate # g
      BY <1>2, ComesBack DEF Solo, FindsNoneWaiting, HeldUnapproved
    <2>2. slot'[g] = slot[g]
      BY <1>0, <1>2, <2>1, ComesBack DEF Solo, IssueOrNot, Issue, RetireOrNot, Retire
    <2>. QED BY <2>2
  <1>3. UNCHANGED slot \/ UNCHANGED call
        \/ \E c \in Calls : ReturnPlan(c) \/ ReturnBlocked(c) \/ ReturnFull(c)
    BY DEF Next, vars, Ask, BeginPaid, PressApprove, ApprovedIdArrives, ApprovedAtArrives,
           Discard, ToggleAutoApprove, UserTurn, Restart, Tick
  <1>. QED BY <1>1, <1>2, <1>3

THEOREM PlanStands == ASSUME OneCaller PROVE Spec => HeldPlanStands
  <1>1. Solo /\ [Next]_vars =>
          [\A g \in Gates :
             /\ HeldUnapproved(slot[g], autoApprove, now)
             /\ \A c \in Calls : ~call[c].auto
             /\ call' # call
             => slot'[g].pending = slot[g].pending]_vars
    BY StepStands
  <1>. QED BY <1>1, SoloInductive, PTL DEF Spec, HeldPlanStands

-----------------------------------------------------------------------------
(* The gate implements Consent.  The history of plans answers for what is  *)
(* known, pressed and spent.                                               *)
LEMMA ImplementsInit == Init => Promise!Init
  BY DEF Init, Promise!Init, EmptySlot, Unissued, NewPlan

LEMMA Unseen ==
  ASSUME \A g \in Gates : slot'[g].pending = slot[g].pending,
         \A p \in Plans : /\ plan'[p].gate = plan[p].gate
                          /\ plan'[p].pressedAt = plan[p].pressedAt
                          /\ plan'[p].paid # 0 <=> plan[p].paid # 0
  PROVE  UNCHANGED Promise!vars
  <1>1. [g \in Gates |-> slot'[g].pending] = [g \in Gates |-> slot[g].pending]
    OBVIOUS
  <1>2. /\ {p \in Plans : plan'[p].gate # NoGate} = {p \in Plans : plan[p].gate # NoGate}
        /\ {p \in Plans : plan'[p].pressedAt # 0} = {p \in Plans : plan[p].pressedAt # 0}
        /\ {p \in Plans : plan'[p].paid # 0} = {p \in Plans : plan[p].paid # 0}
    OBVIOUS
  <1>. QED BY <1>1, <1>2 DEF Promise!vars

LEMMA SpendSeen ==
  ASSUME OneCaller, Solo, NEW c \in Calls, BeginPaid(c)
  PROVE  Promise!Next \/ UNCHANGED Promise!vars
  <1> DEFINE g == call[c].gate
             p == Spends(c)
  <1>0. /\ plan \in [Plans -> PlanHistory] /\ p \in Plans \union {NoPlan} /\ UNCHANGED slot
        /\ g \in Gates /\ HoldsItsPlan(c) /\ (call[c].pays # NoPlan => JudgedWithConsent(c))
    BY DEF BeginPaid, Spends, Solo, IInv, CallsOK, TypeOK, Call
  <1>1. \A q \in Plans : /\ plan'[q].gate = plan[q].gate
                         /\ plan'[q].pressedAt = plan[q].pressedAt
                         /\ plan'[q].paid # 0 <=> (plan[q].paid # 0 \/ q = p)
    BY <1>0 DEF BeginPaid, PlanHistory
  <1>2. CASE p = NoPlan
    BY <1>0, <1>1, <1>2, Unseen
  <1>3. CASE p # NoPlan
    <2>1. p \in Plans /\ slot[g].pending = p /\ plan[p].pressedAt # 0
      BY <1>0, <1>3 DEF Spends, HoldsItsPlan, JudgedWithConsent
    <2>2. PICK h \in Gates : h = g
      BY <1>0
    <2>3. /\ {q \in Plans : plan'[q].gate # NoGate} = {q \in Plans : plan[q].gate # NoGate}
          /\ {q \in Plans : plan'[q].pressedAt # 0} = {q \in Plans : plan[q].pressedAt # 0}
          /\ {q \in Plans : plan'[q].paid # 0} = {q \in Plans : plan[q].paid # 0} \union {p}
      BY <1>1, <2>1
    <2>4. [k \in Gates |-> slot[k].pending][h] = p
      BY <2>1, <2>2
    <2>5. Promise!Spend(h)
      BY <1>0, <2>1, <2>3, <2>4 DEF Promise!Spend
    <2>. QED BY <2>5 DEF Promise!Next
  <1>. QED BY <1>2, <1>3

(* A gate that is emptied withdraws what it offered.                       *)
LEMMA WithdrawSeen ==
  ASSUME TypeOK, NEW g \in Gates, slot'[g].pending = NoPlan,
         \A h \in Gates : h # g => slot'[h].pending = slot[h].pending,
         UNCHANGED plan
  PROVE  Promise!Next
  <1>1. [h \in Gates |-> slot'[h].pending]
           = [[h \in Gates |-> slot[h].pending] EXCEPT ![g] = NoPlan]
    OBVIOUS
  <1>2. Promise!Withdraw(g)
    BY <1>1 DEF Promise!Withdraw
  <1>. QED BY <1>2 DEF Promise!Next

LEMMA ReturnSeen ==
  ASSUME Solo, NEW c \in Calls, ReturnPlan(c) \/ ReturnBlocked(c) \/ ReturnFull(c)
  PROVE  Promise!Next \/ UNCHANGED Promise!vars
  <1> DEFINE g == call[c].gate
  <1>0. /\ slot \in [Gates -> Slot] /\ plan \in [Plans -> PlanHistory] /\ TypeOK
        /\ g \in Gates
    BY ComesBack DEF Solo, IInv, TypeOK
  <1>1. ASSUME NEW j, Issue(g, j) PROVE Promise!Next
    <2>1. PICK p \in Plans : /\ plan[p] = Unissued
                             /\ slot' = [slot EXCEPT ![g] = IssuedSlot(p, j, now)]
                             /\ plan' = [plan EXCEPT ![p] = NewPlan(g, j, now)]
      BY <1>1 DEF Issue
    <2>2. /\ plan[p].gate = NoGate /\ plan[p].pressedAt = 0 /\ plan[p].paid = 0
          /\ plan'[p].gate = g /\ plan'[p].pressedAt = 0 /\ plan'[p].paid = 0
          /\ g # NoGate /\ \A q \in Plans : q # p => plan'[q] = plan[q]
      BY <1>0, <2>1 DEF Unissued, NewPlan, NoGate
    <2>3. /\ {q \in Plans : plan'[q].gate # NoGate} = {q \in Plans : plan[q].gate # NoGate} \union {p}
          /\ {q \in Plans : plan'[q].pressedAt # 0} = {q \in Plans : plan[q].pressedAt # 0}
          /\ {q \in Plans : plan'[q].paid # 0} = {q \in Plans : plan[q].paid # 0}
      BY <2>2
    <2>4. /\ slot'[g].pending = p
          /\ \A h \in Gates : h # g => slot'[h].pending = slot[h].pending
      BY <1>0, <2>1 DEF IssuedSlot
    <2>5. [h \in Gates |-> slot'[h].pending]
             = [[h \in Gates |-> slot[h].pending] EXCEPT ![g] = p]
      BY <2>4
    <2>6. Promise!Offer(g, p)
      BY <2>2, <2>3, <2>5 DEF Promise!Offer
    <2>. QED BY <1>0, <2>6 DEF Promise!Next
  <1>2. ASSUME Retire(g) PROVE Promise!Next
    <2>1. /\ slot'[g].pending = NoPlan
          /\ \A h \in Gates : h # g => slot'[h].pending = slot[h].pending
      BY <1>0, <1>2 DEF Retire, EmptySlot
    <2>. QED BY <1>0, <1>2, <2>1, WithdrawSeen DEF Retire
  <1>3. ASSUME NEW P, Lose(P) /\ UNCHANGED slot PROVE UNCHANGED Promise!vars
    <2>1. \A p \in Plans : /\ plan'[p].gate = plan[p].gate
                           /\ plan'[p].pressedAt = plan[p].pressedAt
                           /\ plan'[p].paid = plan[p].paid
      BY <1>0, <1>3 DEF Lose, PlanHistory
    <2>. QED BY <1>3, <2>1, Unseen
  <1>4. ASSUME UNCHANGED <<slot, plan>> PROVE UNCHANGED Promise!vars
    BY <1>4, Unseen
  <1>. QED BY <1>1, <1>2, <1>3, <1>4, ComesBack DEF Solo, IssueOrNot, RetireOrNot

LEMMA PressSeen ==
  ASSUME Solo, NEW g \in Gates, PressApprove(g)
  PROVE  Promise!Next
  <1> DEFINE p == slot[g].pending
  <1>0. /\ plan \in [Plans -> PlanHistory] /\ p \in Plans /\ UNCHANGED slot
        /\ now # 0 /\ p # NoPlan
    BY DEF PressApprove, Approvable, Solo, IInv, TypeOK, Slot
  <1>1. \A q \in Plans : /\ plan'[q].gate = plan[q].gate
                         /\ plan'[q].pressedAt # 0 <=> (plan[q].pressedAt # 0 \/ q = p)
                         /\ plan'[q].paid = plan[q].paid
    BY <1>0 DEF PressApprove, PlanHistory
  <1>2. /\ {q \in Plans : plan'[q].gate # NoGate} = {q \in Plans : plan[q].gate # NoGate}
        /\ {q \in Plans : plan'[q].pressedAt # 0} = {q \in Plans : plan[q].pressedAt # 0} \union {p}
        /\ {q \in Plans : plan'[q].paid # 0} = {q \in Plans : plan[q].paid # 0}
    BY <1>0, <1>1
  <1>3. [h \in Gates |-> slot[h].pending][g] = p
    OBVIOUS
  <1>4. Promise!Press(g)
    BY <1>0, <1>2, <1>3 DEF Promise!Press
  <1>. QED BY <1>4 DEF Promise!Next

LEMMA ImplementsStep ==
  ASSUME OneCaller, Solo, [Next]_vars
  PROVE  Promise!Next \/ UNCHANGED Promise!vars
  <1>0. /\ TypeOK /\ slot \in [Gates -> Slot] /\ plan \in [Plans -> PlanHistory]
    BY DEF Solo, IInv, TypeOK
  <1>1. ASSUME NEW c \in Calls, NEW g \in Gates, NEW j \in Jobs, Ask(c, g, j)
        PROVE  UNCHANGED Promise!vars
    BY <1>1, Unseen DEF Ask, hist
  <1>2. ASSUME NEW c \in Calls, BeginPaid(c) PROVE Promise!Next \/ UNCHANGED Promise!vars
    BY <1>2, SpendSeen
  <1>3. ASSUME NEW c \in Calls, ReturnPlan(c) \/ ReturnBlocked(c) \/ ReturnFull(c)
        PROVE  Promise!Next \/ UNCHANGED Promise!vars
    BY <1>3, ReturnSeen
  <1>4. ASSUME NEW g \in Gates, PressApprove(g) PROVE Promise!Next
    BY <1>4, PressSeen
  <1>5. ASSUME NEW g \in Gates, ApprovedIdArrives(g) \/ ApprovedAtArrives(g)
        PROVE  UNCHANGED Promise!vars
    <2>1. UNCHANGED plan /\ \A h \in Gates : slot'[h].pending = slot[h].pending
      BY <1>0, <1>5 DEF ApprovedIdArrives, ApprovedAtArrives, Slot, hist
    <2>. QED BY <2>1, Unseen
  <1>6. ASSUME NEW g \in Gates, Discard(g) PROVE Promise!Next
    <2>1. /\ slot'[g].pending = NoPlan /\ UNCHANGED plan
          /\ \A h \in Gates : h # g => slot'[h].pending = slot[h].pending
      BY <1>0, <1>6 DEF Discard, Slot, hist
    <2>. QED BY <1>0, <2>1, WithdrawSeen
  <1>7. CASE Restart
    <2>1. UNCHANGED slot
          /\ \A p \in Plans : /\ plan'[p].gate = plan[p].gate
                               /\ plan'[p].pressedAt = plan[p].pressedAt
                               /\ plan'[p].paid = plan[p].paid
      BY <1>0, <1>7 DEF Restart, Lose, PlanHistory
    <2>. QED BY <2>1, Unseen
  <1>8. CASE ToggleAutoApprove \/ UserTurn \/ Tick \/ UNCHANGED vars
    BY <1>8, Unseen DEF ToggleAutoApprove, UserTurn, Tick, vars, hist
  <1>. QED BY <1>1, <1>2, <1>3, <1>4, <1>5, <1>6, <1>7, <1>8 DEF Next

(* With calls that do not overlap, money is spent only on a plan that is   *)
(* pressed and on offer at its gate as the spending begins, and nothing is *)
(* offered twice: every step of the gate is a step of Consent or none.     *)
THEOREM PromiseKept == ASSUME OneCaller PROVE Spec => KeepsPromise
  <1>1. Solo /\ [Next]_vars => [Promise!Next]_Promise!vars
    BY ImplementsStep
  <1>. QED BY <1>1, ImplementsInit, SoloInductive, PTL DEF Spec, KeepsPromise, Promise!Spec
=============================================================================
