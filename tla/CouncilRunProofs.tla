-------------------------- MODULE CouncilRunProofs --------------------------
(***************************************************************************)
(* What holds of a council run for any roster, any options and whatever    *)
(* the seats answer.                                                       *)
(*                                                                         *)
(* The argument: what a seat said is forgotten unless it answered; a seat  *)
(* that was found absent is among the dead; and the seats still to be      *)
(* asked for a plan are on the queue, so that an empty queue means that    *)
(* every seat was asked.                                                   *)
(*                                                                         *)
(* Then of the record that such a run files, however many amendments of it *)
(* overlap: its type, the first answers it keeps, the cap, and the honesty *)
(* of the first report.                                                    *)
(***************************************************************************)
EXTENDS CouncilRun, CouncilAmend, CouncilVerdictProofs

Shaped ==
    /\ call \in Calls
    /\ phase \in Phases
    /\ dead \subseteq Seats
    /\ replies \in [Seats -> Outcomes \union {"idle", "out"}]
    /\ said \in [Seats -> Said]
    /\ unplanned \subseteq Seats
    /\ queue \in Seq(Seats)
    /\ plan \in [by : {plan.by}, merged : BOOLEAN]

(* In a round that asks everyone nobody is idle, so that what is settled   *)
(* is an outcome.                                                          *)
EveryonesRounds == {"plans", "planVotes", "nominations", "research", "drafts", "reviews"}
Rounded ==
    /\ phase \in EveryonesRounds => \A s \in Seats : replies[s] # "idle"
    /\ \A s \in Seats : ~Usable(replies[s]) => said[s] = Silent
    /\ phase = "reviews" => drafts \in [Seats -> Outcomes] /\ Comparable(UsableDrafts(drafts))
    /\ phase \in Phases \ {"full"} => ballots = NoBallots

(* How a round stands when it begins, or between two of them.              *)
Fresh ==
    /\ replies \in [Seats -> Outcomes \union {"idle", "out"}]
    /\ said \in [Seats -> Said]
    /\ \A s \in Seats : /\ said[s] = Silent
                        /\ replies[s] # "absent"
                        /\ replies[s] = "out" => s \notin dead
                        /\ phase \in EveryonesRounds => replies[s] # "idle"

(* The breaker knows every seat found absent, and none it knows is called. *)
Broken ==
    /\ phase = "start" => dead = {} /\ \A s \in Seats : replies[s] = "idle"
    /\ \A s \in Seats : /\ replies[s] = "absent" => s \in dead
                        /\ replies[s] = "out" => s \notin dead

(* While planners are asked one by one, those who were not are queued; a   *)
(* plan handed in is there from the start, and one chosen has an author.   *)
Searching ==
    /\ phase = "start" => plan = IF call.stored THEN Stored ELSE NoPlan
    /\ phase \in {"nominations", "integration"} => plan # NoPlan
    /\ plan = NoPlan \/ plan.by # NoSeat
    /\ phase = "planner" => queue # <<>> /\ \A s \in Seats \ unplanned :
                                \E i \in DOMAIN queue : queue[i] = s
    /\ PlanIfAnyoneCan

IInv == Shaped /\ Rounded /\ Broken /\ Searching /\ GateHolds /\ FiledWell

LEMMA SeatsAreNumbers ==
    Seats \subseteq Nat /\ 1 \in Seats /\ NoSeat \notin Seats /\ NumSeats \in Nat
BY SeatsAssumption DEF Seats, NoSeat

(* A roster with somebody in it has a first planner.                       *)
LEMMA FirstPlannerIsASeat == FirstPlanner \in Seats
<1>1. CASE Preferred # NoSeat
      BY <1>1, CouncilAssumption DEF FirstPlanner
<1>2. CASE Preferred = NoSeat /\ Hosted = {}
      BY <1>2, SeatsAreNumbers DEF FirstPlanner
<1>3. CASE Preferred = NoSeat /\ Hosted # {}
  <2> DEFINE R == OpToRel(<, Nat)
  <2>0. Hosted \subseteq Nat
        BY CouncilAssumption, SeatsAreNumbers
  <2>4. IsWellFoundedOn(R, Nat)
        BY NatLessThanWellFounded
  <2>5. \A p, q \in Nat : p < q => <<p, q>> \in R
        BY DEF OpToRel
  <2> HIDE DEF R
  <2>1. PICK x \in Hosted : \A y \in Hosted : ~(<<y, x>> \in R)
        BY <1>3, <2>0, <2>4, WFMin
  <2>2. \A y \in Hosted : x <= y
    <3> TAKE y \in Hosted
    <3>1. ~(y < x)
          BY <2>0, <2>5, <2>1
    <3> QED
          BY <2>0, <3>1
  <2>3. Min(Hosted) \in Hosted
        BY <2>2 DEF Min
  <2> QED
        BY <1>3, <2>3, CouncilAssumption DEF FirstPlanner
<1> QED
    BY <1>1, <1>2, <1>3

(* The order of the planners leaves no seat out.                           *)
LEMMA OrderIsComplete ==
    /\ PlannerOrder \in Seq(Seats) /\ PlannerOrder # <<>>
    /\ \A s \in Seats : \E i \in DOMAIN PlannerOrder : PlannerOrder[i] = s
<1>1. PlannerOrder \in [Seats -> Seats]
      BY FirstPlannerIsASeat, SeatsAssumption DEF PlannerOrder, Seats
<1>2. PlannerOrder \in Seq(Seats) /\ PlannerOrder # <<>>
      BY <1>1, SeatsAssumption DEF Seats
<1>3. ASSUME NEW s \in Seats
      PROVE  \E i \in DOMAIN PlannerOrder : PlannerOrder[i] = s
  <2>1. CASE s = FirstPlanner
        BY <2>1, SeatsAreNumbers DEF PlannerOrder
  <2>2. CASE s < FirstPlanner
    <3>1. s + 1 \in Seats /\ s + 1 # 1 /\ s + 1 <= FirstPlanner
          BY <2>2, FirstPlannerIsASeat, SeatsAssumption DEF Seats
    <3> QED
          BY <3>1, SeatsAssumption DEF PlannerOrder, Seats
  <2>3. CASE s > FirstPlanner
        BY <2>3, FirstPlannerIsASeat, SeatsAssumption DEF PlannerOrder, Seats
  <2> QED
        BY <2>1, <2>2, <2>3, FirstPlannerIsASeat, SeatsAssumption DEF Seats
<1> QED
    BY <1>2, <1>3

THEOREM InitHolds == Init => IInv
<1> SUFFICES ASSUME Init PROVE IInv
    OBVIOUS
<1> USE DEF Init
<1>1. Shaped
  <2>1. said \in [Seats -> Said]
        BY SeatsAreNumbers DEF Quiet, Silent, Said
  <2>2. replies \in [Seats -> Outcomes \union {"idle", "out"}]
        BY DEF Idle
  <2>3. plan \in [by : {plan.by}, merged : BOOLEAN]
        BY DEF NoPlan, Stored
  <2> QED
        BY <2>1, <2>2, <2>3 DEF Shaped, Phases
<1>2. Rounded
      BY DEF Rounded, EveryonesRounds, Idle, Quiet, Usable, NoBallots
<1>3. Broken
      BY DEF Broken, Idle
<1>4. Searching
      BY SeatsAssumption DEF Searching, PlanIfAnyoneCan, NoPlan, Stored, NoSeat
<1>5. GateHolds /\ FiledWell
      BY DEF GateHolds, FiledWell
<1> QED
    BY <1>1, <1>2, <1>3, <1>4, <1>5 DEF IInv

-----------------------------------------------------------------------------
LEMMA BeginIsFresh ==
    ASSUME NEW round, NEW who, Begin(round, who, dead'),
           round \in EveryonesRounds => who = Seats
    PROVE  phase' = round /\ Fresh'
<1> USE DEF Begin, Asked
<1>1. said' \in [Seats -> Said] /\ \A s \in Seats : said'[s] = Silent
      BY SeatsAreNumbers DEF Quiet, Silent, Said
<1>2. replies' \in [Seats -> Outcomes \union {"idle", "out"}]
      BY DEF Outcomes
<1>3. ASSUME NEW s \in Seats
      PROVE  /\ replies'[s] # "absent"
             /\ replies'[s] = "out" => s \notin dead'
             /\ phase' \in EveryonesRounds => replies'[s] # "idle"
      OBVIOUS
<1> QED
    BY <1>1, <1>2, <1>3 DEF Fresh

LEMMA RestIsFresh ==
    ASSUME NEW to, Rest(to), to \notin EveryonesRounds
    PROVE  phase' = to /\ Fresh'
<1> USE DEF Rest
<1>1. said' \in [Seats -> Said] /\ \A s \in Seats : said'[s] = Silent
      BY SeatsAreNumbers DEF Quiet, Silent, Said
<1>2. replies' \in [Seats -> Outcomes \union {"idle", "out"}]
      BY DEF Idle
<1> QED
    BY <1>1, <1>2 DEF Fresh, Idle

LEMMA AskPlannerIsFresh ==
    ASSUME NEW order, AskPlanner(order, dead')
    PROVE  phase' = "planner" /\ queue' = order /\ Fresh'
BY BeginIsFresh DEF AskPlanner, EveryonesRounds

LEMMA ToGateIsFresh ==
    ASSUME ToGate
    PROVE  phase' = "gate" /\ queue' \in Seq(Seats) /\ Fresh'
BY RestIsFresh DEF ToGate, EveryonesRounds

(* What is settled in a round of everyone is an outcome for each seat, and *)
(* a review that erred names nobody.                                       *)
LEMMA SettledIsAnOutcome ==
    ASSUME IInv, phase \in EveryonesRounds, Settled
    PROVE  /\ replies \in [Seats -> Outcomes]
           /\ UsableDrafts(replies) = Answered
           /\ BallotsIn \in [Seats -> Ballot]
           /\ \A s \in Seats : ~BallotsIn[s].ok => BallotsIn[s].vote = NoSeat
<1>1. replies \in [Seats -> Outcomes]
      BY DEF IInv, Shaped, Rounded, Settled
<1>2. UsableDrafts(replies) = Answered
      BY <1>1 DEF UsableDrafts, Answered
<1>3. BallotsIn \in [Seats -> Ballot]
      BY DEF BallotsIn, Ballot, IInv, Shaped, Said, Erred
<1>4. ASSUME NEW s \in Seats, ~BallotsIn[s].ok
      PROVE  BallotsIn[s].vote = NoSeat
  <2>1. ~Usable(replies[s])
        BY <1>4 DEF BallotsIn, Erred, Usable
  <2> QED
        BY <2>1 DEF BallotsIn, IInv, Rounded, Silent
<1> QED
    BY <1>1, <1>2, <1>3, <1>4

(* Following a proposal leads on with a plan, or back to the planners.     *)
LEMMA FollowLeadsOn ==
    ASSUME IInv, NEW proposed, NEW usable, NEW winner,
           Follow(proposed, usable, winner), dead' = dead
    PROVE  /\ Fresh'
           /\ \/ phase' = "planner" /\ queue' = PlannerOrder /\ plan' = plan
              \/ /\ phase' \in {"nominations", "gate"}
                 /\ queue' \in Seq(Seats)
                 /\ plan' \in [by : {plan'.by}, merged : BOOLEAN]
                 /\ plan' # NoPlan /\ plan'.by # NoSeat
<1> DEFINE elected == IF winner # NoSeat THEN winner
                      ELSE IF usable # {} THEN Min(usable) ELSE NoSeat
<1>1. CASE elected = NoSeat \/ ~HasText(proposed[elected])
  <2>1. FallBack
        BY <1>1 DEF Follow
  <2> QED
        BY <2>1, AskPlannerIsFresh DEF FallBack
<1>2. CASE ~(elected = NoSeat \/ ~HasText(proposed[elected]))
  <2>1. /\ plan' = PlanBy(elected)
        /\ \/ Begin("nominations", Seats, dead) /\ UNCHANGED queue
           \/ ToGate
        BY <1>2 DEF Follow
  <2> HIDE DEF elected
  <2>2. /\ plan' \in [by : {plan'.by}, merged : BOOLEAN]
        /\ plan' # NoPlan /\ plan'.by # NoSeat
        BY <1>2, <2>1 DEF PlanBy, NoPlan
  <2>3. CASE Begin("nominations", Seats, dead) /\ UNCHANGED queue
        BY <2>2, <2>3, BeginIsFresh DEF IInv, Shaped
  <2>4. CASE ToGate
        BY <2>2, <2>4, ToGateIsFresh
  <2> QED
        BY <2>1, <2>3, <2>4
<1> QED
    BY <1>1, <1>2

-----------------------------------------------------------------------------
(* What is left to show of a step that begins a round or ends one.         *)
Moves ==
    /\ phase \in Phases \ {"start"}
    /\ dead \subseteq Seats
    /\ unplanned \subseteq Seats
    /\ queue \in Seq(Seats)
    /\ plan \in [by : {plan.by}, merged : BOOLEAN]
    /\ plan = NoPlan \/ plan.by # NoSeat
    /\ phase \in {"nominations", "integration"} => plan # NoPlan
    /\ phase = "planner" => queue # <<>> /\ \A s \in Seats \ unplanned :
                                \E i \in DOMAIN queue : queue[i] = s
    /\ PlanIfAnyoneCan

LEMMA FreshStep ==
    ASSUME IInv, Fresh', Moves', call' = call,
           phase' = "reviews" => drafts' \in [Seats -> Outcomes] /\ Comparable(UsableDrafts(drafts')),
           phase' # "full" => ballots' = NoBallots,
           GateHolds', FiledWell'
    PROVE  IInv'
<1> USE DEF Moves, Fresh
<1>1. Shaped'
      BY DEF Shaped, IInv
<1>2. Rounded'
      BY DEF Rounded
<1>3. Broken'
      BY DEF Broken
<1>4. Searching'
      BY DEF Searching
<1> QED
    BY <1>1, <1>2, <1>3, <1>4 DEF IInv

(* The planning steps: none of them touches the drafts or the reviews, and *)
(* all of them come before the gate.                                       *)
BeforeGate == {"start", "plans", "planVotes", "nominations", "integration", "planner", "gate", "refused"}

LEMMA PlanningStep ==
    ASSUME IInv, Fresh', Moves', call' = call, UNCHANGED product,
           phase \in BeforeGate, phase' \in BeforeGate
    PROVE  IInv'
<1>1. ballots' = NoBallots
      BY DEF IInv, Rounded, BeforeGate, Phases, product, Ended
<1>2. GateHolds' /\ FiledWell'
      BY DEF GateHolds, FiledWell, BeforeGate
<1> QED
    BY <1>1, <1>2, FreshStep DEF BeforeGate

LEMMA StartKeeps == ASSUME IInv, Start PROVE IInv' /\ Fresh' /\ dead \subseteq dead'
<1>1. phase = "start" /\ dead = {} /\ plan = (IF call.stored THEN Stored ELSE NoPlan)
      BY DEF Start, IInv, Broken, Searching
<1>2. CASE Rest("refused") /\ UNCHANGED <<call, dead, planning, product>>
  <2>1. phase' = "refused" /\ Fresh'
        BY <1>2, RestIsFresh DEF EveryonesRounds
  <2>2. Moves'
        BY <1>2, <2>1 DEF Moves, IInv, Shaped, Searching, Phases, Ended, planning, PlanIfAnyoneCan
  <2> QED
        BY <1>1, <1>2, <2>1, <2>2, PlanningStep DEF BeforeGate
<1>3. CASE /\ dead' \in SUBSET Local
           /\ \/ (call.stored \/ call.skipPlan) /\ ToGate
              \/ Begin("plans", Seats, dead') /\ UNCHANGED queue
              \/ AskPlanner(PlannerOrder, dead')
           /\ UNCHANGED <<call, plan, unplanned, product>>
  <2>1. dead' \subseteq Seats /\ dead \subseteq dead'
        BY <1>1, <1>3, CouncilAssumption
  <2>2. /\ Fresh'
        /\ \/ phase' = "gate" /\ queue' \in Seq(Seats) /\ (call.stored \/ call.skipPlan)
           \/ phase' = "plans" /\ queue' = queue
           \/ phase' = "planner" /\ queue' = PlannerOrder
        BY <1>3, ToGateIsFresh, BeginIsFresh, AskPlannerIsFresh
  <2>3. call.stored => plan # NoPlan
        BY <1>1, SeatsAreNumbers DEF Stored, NoPlan, NoSeat
  <2>4. Moves'
        BY <1>3, <2>1, <2>2, <2>3, OrderIsComplete
        DEF Moves, IInv, Shaped, Searching, Phases, Ended, PlanIfAnyoneCan
  <2> QED
        BY <1>1, <1>3, <2>1, <2>2, <2>4, PlanningStep DEF BeforeGate
<1> QED
    BY <1>2, <1>3 DEF Start

LEMMA PlansInKeeps == ASSUME IInv, PlansIn PROVE IInv' /\ Fresh' /\ dead \subseteq dead'
<1>1. /\ phase = "plans" /\ dead' = dead /\ call' = call /\ UNCHANGED product
      /\ unplanned' = unplanned \union (Seats \ Answered)
      BY DEF PlansIn
<1>2. CASE Begin("planVotes", Seats, dead) /\ UNCHANGED <<plan, queue>>
  <2>1. phase' = "planVotes" /\ Fresh'
        BY <1>1, <1>2, BeginIsFresh
  <2>2. Moves'
        BY <1>1, <1>2, <2>1 DEF Moves, IInv, Shaped, Searching, Phases, Ended, PlanIfAnyoneCan, Answered
  <2> QED
        BY <1>1, <2>1, <2>2, PlanningStep DEF BeforeGate
<1>3. CASE Follow(replies, Answered, Tally(NoBallots, replies, Clean).winner)
  <2>1. /\ Fresh'
        /\ \/ phase' = "planner" /\ queue' = PlannerOrder /\ plan' = plan
           \/ /\ phase' \in {"nominations", "gate"}
              /\ queue' \in Seq(Seats)
              /\ plan' \in [by : {plan'.by}, merged : BOOLEAN]
              /\ plan' # NoPlan /\ plan'.by # NoSeat
        BY <1>1, <1>3, FollowLeadsOn
  <2>2. Moves'
        BY <1>1, <2>1, OrderIsComplete
        DEF Moves, IInv, Shaped, Searching, Phases, Ended, PlanIfAnyoneCan, Answered
  <2> QED
        BY <1>1, <2>1, <2>2, PlanningStep DEF BeforeGate
<1> QED
    BY <1>2, <1>3 DEF PlansIn

LEMMA PlanVotesInKeeps == ASSUME IInv, PlanVotesIn PROVE IInv' /\ Fresh' /\ dead \subseteq dead'
<1>1. /\ phase = "planVotes" /\ dead' = dead /\ call' = call /\ UNCHANGED product
      /\ unplanned' = unplanned
      BY DEF PlanVotesIn
<1>2. /\ Fresh'
      /\ \/ phase' = "planner" /\ queue' = PlannerOrder /\ plan' = plan
         \/ /\ phase' \in {"nominations", "gate"}
            /\ queue' \in Seq(Seats)
            /\ plan' \in [by : {plan'.by}, merged : BOOLEAN]
            /\ plan' # NoPlan /\ plan'.by # NoSeat
      BY <1>1, FollowLeadsOn DEF PlanVotesIn
<1>3. Moves'
      BY <1>1, <1>2, OrderIsComplete
      DEF Moves, IInv, Shaped, Searching, Phases, Ended, PlanIfAnyoneCan
<1> QED
    BY <1>1, <1>2, <1>3, PlanningStep DEF BeforeGate

LEMMA MergeKeeps ==
    ASSUME IInv, NominationsIn \/ IntegrationIn
    PROVE  IInv' /\ Fresh' /\ dead \subseteq dead'
<1>1. /\ phase \in {"nominations", "integration"} /\ plan # NoPlan
      /\ dead' = dead /\ call' = call /\ UNCHANGED product /\ unplanned' = unplanned
      BY DEF NominationsIn, IntegrationIn, IInv, Searching
<1>2. /\ plan' \in [by : {plan'.by}, merged : BOOLEAN]
      /\ plan' # NoPlan /\ plan'.by # NoSeat
  <2>1. plan \in [by : {plan.by}, merged : BOOLEAN] /\ plan.by # NoSeat
        BY <1>1 DEF IInv, Shaped, Searching
  <2>2. plan' = plan \/ plan' = [plan EXCEPT !.merged = plan.by \in Answered]
        BY DEF NominationsIn, IntegrationIn
  <2>3. (plan.by \in Answered) \in BOOLEAN
        OBVIOUS
  <2>4. plan' \in [by : {plan.by}, merged : BOOLEAN] /\ plan'.by = plan.by
        BY <2>1, <2>2, <2>3
  <2> QED
        BY <2>1, <2>4 DEF NoPlan
<1>3. /\ Fresh'
      /\ \/ phase' = "gate" /\ queue' \in Seq(Seats)
         \/ phase' = "integration" /\ queue' = queue
      BY <1>1, ToGateIsFresh, BeginIsFresh DEF NominationsIn, IntegrationIn, EveryonesRounds
<1>4. Moves'
      BY <1>1, <1>2, <1>3
      DEF Moves, IInv, Shaped, Searching, Phases, Ended, PlanIfAnyoneCan
<1> QED
    BY <1>1, <1>3, <1>4, PlanningStep DEF BeforeGate

(* The head of the queue was asked; when it gave nothing it is marked so,  *)
(* and the rest of the queue still holds everyone who is not.              *)
LEMMA PlannerInKeeps == ASSUME IInv, PlannerIn PROVE IInv' /\ Fresh' /\ dead \subseteq dead'
<1>1. /\ phase = "planner" /\ dead' = dead /\ call' = call /\ UNCHANGED product
      /\ queue \in Seq(Seats) /\ queue # <<>>
      /\ \A s \in Seats \ unplanned : \E i \in DOMAIN queue : queue[i] = s
      BY DEF PlannerIn, IInv, Shaped, Searching
<1>2. Head(queue) \in Seats /\ Head(queue) # NoSeat
      BY <1>1, SeatsAreNumbers
<1>3. CASE Head(queue) \in Answered
  <2>1. plan' = PlanBy(Head(queue)) /\ ToGate /\ UNCHANGED unplanned
        BY <1>3 DEF PlannerIn
  <2>2. Moves'
        BY <1>1, <1>2, <2>1, ToGateIsFresh
        DEF Moves, IInv, Shaped, Phases, Ended, PlanIfAnyoneCan, PlanBy, NoPlan
  <2> QED
        BY <1>1, <2>1, <2>2, ToGateIsFresh, PlanningStep DEF BeforeGate
<1>4. CASE Head(queue) \notin Answered
  <2>1. /\ unplanned' = unplanned \union {Head(queue)} /\ plan' = plan
        /\ \/ Tail(queue) = <<>> /\ ToGate
           \/ Tail(queue) # <<>> /\ AskPlanner(Tail(queue), dead')
        BY <1>1, <1>4 DEF PlannerIn, NextPlanner
  <2>2. unplanned' \subseteq Seats
        BY <1>2, <2>1 DEF IInv, Shaped
  <2>3. \A s \in Seats \ unplanned' : \E i \in DOMAIN Tail(queue) : Tail(queue)[i] = s
    <3> TAKE s \in Seats \ unplanned'
    <3>1. PICK i \in DOMAIN queue : queue[i] = s
          BY <1>1, <2>1
    <3>2. i # 1
          BY <1>1, <2>1, <3>1
    <3>3. i \in 2..Len(queue)
          BY <1>1, <3>2
    <3>4. i - 1 \in DOMAIN Tail(queue) /\ Tail(queue)[i - 1] = s
          BY <1>1, <3>1, <3>3
    <3> QED
          BY <3>4
  <2>4. Tail(queue) = <<>> => unplanned' = Seats
    <3>1. Tail(queue) = <<>> => DOMAIN Tail(queue) = {}
          BY <1>1
    <3> QED
          BY <2>2, <2>3, <3>1
  <2>5. /\ Fresh'
        /\ \/ phase' = "gate" /\ queue' \in Seq(Seats) /\ unplanned' = Seats
           \/ phase' = "planner" /\ queue' = Tail(queue) /\ Tail(queue) # <<>>
    <3>1. CASE Tail(queue) = <<>> /\ ToGate
          BY <2>4, <3>1, ToGateIsFresh
    <3>2. CASE Tail(queue) # <<>> /\ AskPlanner(Tail(queue), dead')
          BY <3>2, AskPlannerIsFresh
    <3> QED
          BY <2>1, <3>1, <3>2
  <2>6. Tail(queue) \in Seq(Seats)
        BY <1>1
  <2>7. Moves'
        BY <1>1, <2>1, <2>2, <2>3, <2>5, <2>6
        DEF Moves, IInv, Shaped, Searching, Phases, Ended, PlanIfAnyoneCan
  <2> QED
        BY <1>1, <2>5, <2>7, PlanningStep DEF BeforeGate
<1> QED
    BY <1>3, <1>4

(* The steps past the planning leave it as it is.                          *)
LEMMA GateKeeps ==
    ASSUME IInv, Gate \/ ResearchIn
    PROVE  IInv' /\ Fresh' /\ dead \subseteq dead'
<1>1. /\ phase \in {"gate", "research"}
      /\ dead' = dead /\ call' = call /\ UNCHANGED <<planning, product>>
      BY DEF Gate, ResearchIn
<1>2. /\ Fresh'
      /\ \/ phase' = "plan" /\ call.planOnly
         \/ phase' \in {"research", "drafts"} /\ ~call.planOnly
  <2>1. CASE Rest("plan") /\ call.planOnly
        BY <2>1, RestIsFresh DEF EveryonesRounds
  <2>2. CASE Begin("research", Seats, dead') /\ ~call.planOnly
    <3>1. phase' = "research" /\ Fresh'
          BY <2>2, BeginIsFresh
    <3> QED
          BY <2>2, <3>1
  <2>3. CASE Begin("drafts", Seats, dead') /\ ~call.planOnly
    <3>1. phase' = "drafts" /\ Fresh'
          BY <2>3, BeginIsFresh
    <3> QED
          BY <2>3, <3>1
  <2> QED
        BY <1>1, <2>1, <2>2, <2>3 DEF Gate, ResearchIn, StopsAtGate, IInv, GateHolds
<1>3. Moves'
      BY <1>1, <1>2
      DEF Moves, IInv, Shaped, Searching, Phases, Ended, PlanIfAnyoneCan, planning
<1>4. GateHolds' /\ FiledWell'
      BY <1>1, <1>2 DEF GateHolds, FiledWell
<1>5. ballots' = NoBallots
      BY <1>1 DEF IInv, Rounded, Phases, Ended, product
<1> QED
    BY <1>1, <1>2, <1>3, <1>4, <1>5, FreshStep

LEMMA DraftsInKeeps == ASSUME IInv, DraftsIn PROVE IInv' /\ Fresh' /\ dead \subseteq dead'
<1>1. /\ phase = "drafts" /\ Settled /\ ~call.planOnly /\ drafts' = replies
      /\ dead' = dead /\ call' = call /\ UNCHANGED <<planning, ballots>>
      BY DEF DraftsIn, IInv, GateHolds
<1>2. replies \in [Seats -> Outcomes] /\ UsableDrafts(replies) = Answered /\ ballots = NoBallots
      BY <1>1, SettledIsAnOutcome DEF EveryonesRounds, IInv, Rounded, Phases
<1>3. /\ Fresh'
      /\ \/ phase' = "reviews" /\ Comparable(Answered)
         \/ phase' = "full" /\ ~Comparable(Answered)
  <2>1. CASE Begin("reviews", Seats, dead) /\ Comparable(Answered)
        BY <1>1, <2>1, BeginIsFresh
  <2>2. CASE Rest("full") /\ ~Comparable(Answered)
        BY <2>2, RestIsFresh DEF EveryonesRounds
  <2> QED
        BY <2>1, <2>2 DEF DraftsIn
<1>4. Moves'
      BY <1>1, <1>3
      DEF Moves, IInv, Shaped, Searching, Phases, Ended, PlanIfAnyoneCan, planning
<1>5. FiledWell'
  <2> SUFFICES ASSUME phase' = "full" PROVE Filable(replies, NoBallots)
      BY <1>1, <1>2 DEF FiledWell
  <2> QED
      BY <1>2, <1>3 DEF Filable, Comparable, NoBallots
<1>6. GateHolds'
      BY <1>1 DEF GateHolds
<1> QED
    BY <1>1, <1>2, <1>3, <1>4, <1>5, <1>6, FreshStep

LEMMA ReviewsInKeeps == ASSUME IInv, ReviewsIn PROVE IInv' /\ Fresh' /\ dead \subseteq dead'
<1>1. /\ phase = "reviews" /\ Settled /\ ~call.planOnly /\ ballots' = BallotsIn
      /\ dead' = dead /\ call' = call /\ UNCHANGED <<planning, drafts>> /\ Rest("full")
      BY DEF ReviewsIn, IInv, GateHolds
<1>2. phase' = "full" /\ Fresh'
      BY <1>1, RestIsFresh DEF EveryonesRounds
<1>3. Moves'
      BY <1>1, <1>2
      DEF Moves, IInv, Shaped, Searching, Phases, Ended, PlanIfAnyoneCan, planning
<1>4. /\ drafts \in [Seats -> Outcomes] /\ Comparable(UsableDrafts(drafts))
      /\ BallotsIn \in [Seats -> Ballot]
      /\ \A s \in Seats : ~BallotsIn[s].ok => BallotsIn[s].vote = NoSeat
      BY <1>1, SettledIsAnOutcome DEF IInv, Rounded, EveryonesRounds
<1>5. Filable(drafts, BallotsIn)
      BY <1>4 DEF Filable, Comparable
<1>6. GateHolds' /\ FiledWell'
      BY <1>1, <1>5 DEF GateHolds, FiledWell
<1> QED
    BY <1>1, <1>2, <1>3, <1>6, FreshStep

(* A reply leaves the round where it is; one that finds nothing listening  *)
(* is remembered.                                                          *)
LEMMA ReplyKeeps ==
    ASSUME IInv, NEW s \in Seats, Reply(s)
    PROVE  /\ IInv' /\ dead \subseteq dead'
           /\ \A t \in Seats : t \in dead => replies'[t] # "out"
<1>1. PICK outcome \in Outcomes \ {"skipped"} :
        /\ replies[s] = "out"
        /\ replies' = [replies EXCEPT ![s] = outcome]
        /\ \E words \in (IF Usable(outcome) THEN Sayable ELSE {Silent}) :
            said' = [said EXCEPT ![s] = words]
        /\ dead' = IF outcome = "absent" THEN dead \union {s} ELSE dead
        /\ UNCHANGED <<call, phase, planning, product>>
      BY DEF Reply
<1> USE DEF IInv
<1>2. Sayable \subseteq Said
      BY SeatsAreNumbers DEF Sayable, Said, Silent
<1>3. said' \in [Seats -> Said] /\ (~Usable(outcome) => said'[s] = Silent)
      BY <1>1, <1>2, SeatsAreNumbers DEF Shaped, Said, Silent
<1>4. /\ replies' \in [Seats -> Outcomes \union {"idle", "out"}]
      /\ replies'[s] = outcome /\ \A t \in Seats \ {s} : replies'[t] = replies[t] /\ said'[t] = said[t]
      BY <1>1 DEF Shaped
<1>5. Shaped'
      BY <1>1, <1>3, <1>4 DEF Shaped, planning
<1>6. Rounded'
      BY <1>1, <1>3, <1>4 DEF Rounded, product, Outcomes
<1>7. Broken' /\ dead \subseteq dead'
      BY <1>1, <1>4 DEF Broken, Outcomes, planning
<1>8. Searching'
      BY <1>1 DEF Searching, PlanIfAnyoneCan, planning
<1>9. GateHolds' /\ FiledWell'
      BY <1>1 DEF GateHolds, FiledWell, product
<1>10. \A t \in Seats : t \in dead => replies'[t] # "out"
      BY <1>1, <1>4 DEF Broken, Outcomes
<1> QED
    BY <1>5, <1>6, <1>7, <1>8, <1>9, <1>10

THEOREM StepHolds == IInv /\ [Next]_vars => IInv'
<1> SUFFICES ASSUME IInv, [Next]_vars PROVE IInv'
    OBVIOUS
<1>1. CASE UNCHANGED vars
      BY <1>1 DEF vars, rounds, planning, product, IInv, Shaped, Rounded, Broken, Searching,
         PlanIfAnyoneCan, GateHolds, FiledWell
<1>2. CASE Next
      BY <1>2, StartKeeps, PlansInKeeps, PlanVotesInKeeps, MergeKeeps, PlannerInKeeps,
         GateKeeps, DraftsInKeeps, ReviewsInKeeps, ReplyKeeps DEF Next
<1> QED
    BY <1>1, <1>2

THEOREM Inductive == Spec => []IInv
BY InitHolds, StepHolds, PTL DEF Spec

-----------------------------------------------------------------------------
(* A run that was not approved never gets past the gate.                   *)
THEOREM GateHoldsAlways == Spec => []GateHolds
<1>1. IInv => GateHolds
      BY DEF IInv
<1> QED
    BY <1>1, Inductive, PTL

(* A run is without a plan at its gate only when every seat failed it.     *)
THEOREM PlanIsSought == Spec => []PlanIfAnyoneCan
<1>1. IInv => PlanIfAnyoneCan
      BY DEF IInv, Searching
<1> QED
    BY <1>1, Inductive, PTL

(* However planning ends, it ends at the gate, and with a plan if any seat *)
(* could write one.                                                        *)
THEOREM PlanningEnds == Spec => []PlanningEndsWell
<1>1. GateHolds /\ PlanIfAnyoneCan => PlanningEndsWell
      BY DEF PlanningEndsWell
<1> QED
    BY <1>1, GateHoldsAlways, PlanIsSought, PTL

(* What a run files has the shape the amendments rely on.                  *)
THEOREM FilesWell == Spec => []FiledWell
<1>1. IInv => FiledWell
      BY DEF IInv
<1> QED
    BY <1>1, Inductive, PTL

(* A draft that loses under an audit does not win under a worse one: the   *)
(* votes are those of the seats, and the audits penalties.                 *)
THEOREM PenaltyHolds == Spec => []PenaltyNeverHelps
<1>1. ASSUME IInv PROVE PenaltyNeverHelps
  <2> SUFFICES ASSUME phase = "reviews", Settled,
                      NEW audit \in [UsableDrafts(drafts) -> Audits],
                      NEW s \in UsableDrafts(drafts), NEW harsh \in Audits, harsh > audit[s],
                      Tally(BallotsIn, drafts, Charged([audit EXCEPT ![s] = harsh])).winner = s
               PROVE  Tally(BallotsIn, drafts, Charged(audit)).winner = s
      BY DEF PenaltyNeverHelps
  <2> DEFINE penalty == Charged(audit)
  <2> DEFINE worse == Charged([audit EXCEPT ![s] = harsh])
  <2>1. UsableDrafts(drafts) \subseteq Seats
        BY <1>1 DEF IInv, Rounded, UsableDrafts
  <2>2. Audits \subseteq 0..Whole
        BY CouncilAssumption DEF Penalties, Whole
  <2>3. Clear(penalty) /\ Clear(worse)
        BY <2>1, <2>2 DEF Clear, Charged, Whole
  <2>4. penalty[s] = audit[s] /\ worse[s] = harsh
        BY <2>1 DEF Charged
  <2>5. \A t \in Seats : t # s => worse[t] = penalty[t]
        BY <2>1 DEF Charged
  <2>6. penalty[s] <= worse[s]
    <3>1. audit[s] \in 0..Whole /\ harsh \in 0..Whole
          BY <2>2
    <3> QED
        BY <2>4, <3>1 DEF Whole
  <2>7. VotesCast(BallotsIn)
    <3>1. \A t \in Seats : said[t] \in Said
          BY <1>1 DEF IInv, Shaped
    <3>2. \A t \in Seats : BallotsIn[t] \in Ballot
          BY <3>1 DEF BallotsIn, Ballot, Said, Erred
    <3>3. DOMAIN BallotsIn = Seats
          BY DEF BallotsIn
    <3> QED
        BY <3>2, <3>3 DEF VotesCast
  <2>8. s \in Seats
        BY <2>1
  <2> HIDE DEF penalty, worse
  <2>9. \A b, d : /\ VotesCast(b) /\ Tally(b, d, worse).winner = s
                  => Tally(b, d, penalty).winner = s
        BY <2>3, <2>5, <2>6, <2>8, WorseNeverHelps
  <2>10. Tally(BallotsIn, drafts, worse).winner = s
        BY DEF worse
  <2>11. Tally(BallotsIn, drafts, penalty).winner = s
        BY <2>7, <2>9, <2>10
  <2> QED
      BY <2>11 DEF penalty
<1> QED
    BY <1>1, Inductive, PTL

(* No seat is called after its backend was found absent.                   *)
THEOREM AbsentHolds == Spec => AbsentAskedOnce
<1>1. ASSUME IInv, [Next]_vars
      PROVE  [\A s \in Seats :
                /\ replies[s] = "absent" => s \in dead
                /\ s \in dead => s \in dead' /\ replies'[s] # "out"]_vars
  <2> SUFFICES ASSUME Next, NEW s \in Seats
               PROVE  /\ replies[s] = "absent" => s \in dead
                      /\ s \in dead => s \in dead' /\ replies'[s] # "out"
      BY <1>1
  <2>1. replies[s] = "absent" => s \in dead
        BY <1>1 DEF IInv, Broken
  <2>2. CASE \E t \in Seats : Reply(t)
        BY <1>1, <2>1, <2>2, ReplyKeeps
  <2>3. CASE ~\E t \in Seats : Reply(t)
    <3>1. Fresh' /\ dead \subseteq dead'
          BY <1>1, <2>3, StartKeeps, PlansInKeeps, PlanVotesInKeeps, MergeKeeps, PlannerInKeeps,
             GateKeeps, DraftsInKeeps, ReviewsInKeeps DEF Next
    <3> QED
          BY <2>1, <3>1 DEF Fresh
  <2> QED
      BY <2>2, <2>3
<1> QED
    BY <1>1, Inductive, PTL DEF Spec, AbsentAskedOnce

-----------------------------------------------------------------------------
(* The record the run leaves, under any number of overlapping amendments.  *)

(* Two records hold first answers of the same seats.                       *)
SameFirsts(a, b) ==
    /\ \A s \in Seats : a.drafts[s] = "first" <=> b.drafts[s] = "first"
    /\ DOMAIN a.reviews = DOMAIN b.reviews
    /\ \A s \in DOMAIN a.reviews : a.reviews[s] = "first" <=> b.reviews[s] = "first"

(* In a record never amended, every vote was cast on the drafts it holds.  *)
Original(record) ==
    record.amendments = 0 => \A s \in Reviewed(record) : record.shown[s] = Held(record)

Active == {c \in Callers : caller[c] # Away}

(* What a call holds is the record it read, but for the drafts it got; and *)
(* first answers are everywhere the same, whoever wrote meanwhile.         *)
CallsHold ==
    \A c \in Active :
        /\ SameFirsts(caller[c].read, file) /\ SameFirsts(caller[c].now, file)
        /\ Original(caller[c].read)
        /\ caller[c].at = "drafting" => caller[c].now = caller[c].read
        /\ caller[c].now.reviews = caller[c].read.reviews
        /\ caller[c].now.shown = caller[c].read.shown
        /\ caller[c].now.amendments = caller[c].read.amendments

(* As long as nothing slipped, the record counts every amendment but the   *)
(* one under way, and there was room for that one.                         *)
Counted ==
    ~slipped =>
        /\ file.amendments <= MAX_AMENDMENTS
        /\ Active = {} => begun = file.amendments
        /\ \A c \in Active :
            /\ Active = {c}
            /\ caller[c].read.amendments = file.amendments
            /\ file.amendments < MAX_AMENDMENTS
            /\ begun = file.amendments + 1

AmendIInv == AmendTypeOK /\ Original(file) /\ CallsHold /\ Counted /\ FirstReportHonest

-----------------------------------------------------------------------------
(* A run is filed as a record on which every vote has seen every draft.   *)
LEMMA FiledIsOriginal ==
    ASSUME NEW given, NEW votes, Filable(given, votes)
    PROVE  /\ FiledAs(given, votes) \in Record
           /\ FiledAs(given, votes).amendments = 0
           /\ Original(FiledAs(given, votes))
<1> DEFINE record == FiledAs(given, votes)
<1>1. given \in [Seats -> Outcomes] /\ DOMAIN votes \in {Seats, {}}
      BY DEF Filable, NoBallots
<1>2. UsableDrafts(given) = Held(record)
      BY <1>1 DEF UsableDrafts, Held, FiledAs
<1>3. \A s \in Reviewed(record) : s \in DOMAIN votes /\ s \in Seats
      BY <1>1 DEF Reviewed, FiledAs
<1>4. Original(record)
      BY <1>2, <1>3 DEF Original, FiledAs
<1>5. record.reviews \in [Seats -> When \union {"failed"}] \union [{} -> When]
      BY <1>1 DEF FiledAs, When
<1>6. UsableDrafts(given) \subseteq Seats
      BY <1>1 DEF UsableDrafts
<1>7. record \in Record
      BY <1>5, <1>6 DEF FiledAs, Record, When
<1> QED
    BY <1>4, <1>7 DEF FiledAs

(* A run that ends files a record every vote of which was cast on just the *)
(* drafts it holds: where amendments start from (index.ts, the council     *)
(* tool's saveRun; runs.ts).                                               *)
THEOREM RunFilesOriginal ==
    Spec => [](phase = "full" =>
                 /\ FiledAs(drafts, ballots) \in Record
                 /\ Original(FiledAs(drafts, ballots)))
<1>1. FiledWell => (phase = "full" => /\ FiledAs(drafts, ballots) \in Record
                                      /\ Original(FiledAs(drafts, ballots)))
  <2> SUFFICES ASSUME FiledWell, phase = "full"
               PROVE  /\ FiledAs(drafts, ballots) \in Record
                      /\ Original(FiledAs(drafts, ballots))
      OBVIOUS
  <2>1. PICK given, votes : given = drafts /\ votes = ballots
        OBVIOUS
  <2>2. Filable(given, votes)
        BY <2>1 DEF FiledWell
  <2>3. FiledAs(given, votes) \in Record /\ Original(FiledAs(given, votes))
        BY <2>2, FiledIsOriginal
  <2> QED
      BY <2>1, <2>3
<1> QED
    BY <1>1, FilesWell, PTL

(* A filed run that nobody has yet amended satisfies the invariant.       *)
THEOREM AmendInitHolds == AmendInit => AmendIInv
<1> SUFFICES ASSUME AmendInit PROVE AmendIInv
    OBVIOUS
<1>1. PICK given, votes : Filable(given, votes) /\ file = FiledAs(given, votes)
      BY DEF AmendInit
<1>2. file \in Record /\ file.amendments = 0 /\ Original(file)
      BY <1>1, FiledIsOriginal
<1>3. caller \in [Callers -> {Away} \union Busy] /\ Active = {}
      BY DEF AmendInit, Active
<1>4. AmendTypeOK
  <2>1. report \in [ stale : SUBSET Seats, kept : SUBSET Seats,
                    result : {Away} \union Record, attempt : Nat ]
    <3>1. report = [stale |-> {}, kept |-> {}, result |-> Away, attempt |-> 0]
          BY DEF AmendInit, NoReport
    <3>2. Away \in {Away} \union Record /\ {} \in SUBSET Seats /\ 0 \in Nat
          OBVIOUS
    <3> QED
        BY <3>1, <3>2
  <2>2. begun \in 0..MaxCalls /\ slipped \in BOOLEAN
    <3>1. 0 \in 0..MaxCalls
          BY AmendAssumption
    <3> QED
        BY <3>1 DEF AmendInit
  <2> QED
      BY <1>2, <1>3, <2>1, <2>2 DEF AmendTypeOK
<1>5. Counted
      BY <1>2, <1>3, AmendAssumption DEF AmendInit, Counted
<1>6. FirstReportHonest
      BY DEF AmendInit, NoReport, FirstReportHonest
<1> QED
    BY <1>2, <1>3, <1>4, <1>5, <1>6 DEF AmendIInv, CallsHold

-----------------------------------------------------------------------------
(* A call that begins reads the record as it is on disk.                  *)
LEMMA ResumeKeeps == ASSUME AmendIInv, NEW c \in Callers, Resume(c) PROVE AmendIInv'
<1>1. PICK reach \in SUBSET Seats : caller' = [caller EXCEPT ![c] =
          [at |-> "drafting", read |-> file, now |-> file, reach |-> reach]]
      BY DEF Resume
<1> DEFINE entry == [at |-> "drafting", read |-> file, now |-> file, reach |-> reach]
<1>2. entry \in Busy /\ entry # Away
      BY DEF AmendIInv, AmendTypeOK, Busy, Away
<1>3. AmendTypeOK'
  <2>1. caller' \in [Callers -> {Away} \union Busy]
        BY <1>1, <1>2 DEF AmendIInv, AmendTypeOK
  <2>2. begun' \in 0..MaxCalls
        BY AmendAssumption DEF AmendIInv, AmendTypeOK, Resume
  <2>3. slipped' \in BOOLEAN /\ file' = file /\ report' = report
        BY DEF AmendIInv, AmendTypeOK, Resume
  <2> QED
      BY <2>1, <2>2, <2>3 DEF AmendIInv, AmendTypeOK
<1>4. caller'[c] = entry /\ \A d \in Callers : d # c => caller'[d] = caller[d]
      BY <1>1 DEF AmendIInv, AmendTypeOK
<1>5. Active' = Active \union {c} /\ c \notin Active
      BY <1>2, <1>4 DEF Active, Resume
<1>6. SameFirsts(file, file)
      BY DEF SameFirsts
<1>7. CallsHold'
      BY <1>4, <1>5, <1>6 DEF AmendIInv, CallsHold, Resume, SameFirsts, Original, Reviewed, Held
<1>8. Counted'
  <2> SUFFICES ASSUME ~slipped' PROVE Counted'
      BY DEF Counted
  <2>1. ~slipped /\ Active = {}
        BY DEF Resume, Active
  <2>2. begun = file.amendments /\ file.amendments < MAX_AMENDMENTS
        BY <2>1 DEF AmendIInv, Counted, Resume, Amendable
  <2>3. Active' = {c} /\ caller'[c].read = file /\ file' = file /\ begun' = begun + 1
        BY <1>4, <1>5, <2>1 DEF Resume
  <2>4. file.amendments \in Nat
        BY DEF AmendIInv, AmendTypeOK, Record
  <2> QED
      BY <2>2, <2>3, <2>4, AmendAssumption DEF Counted
<1> QED
    BY <1>3, <1>7, <1>8 DEF AmendIInv, Resume, Original, FirstReportHonest, Reviewed, Held

-----------------------------------------------------------------------------
(* Drafts got again make a record of a record.                            *)
LEMMA RedraftedIsRecord ==
    ASSUME NEW record \in Record, NEW got \in SUBSET Seats
    PROVE  Redrafted(record, got) \in Record
BY DEF Record, Redrafted, When

(* A call asks again only seats without a draft.                          *)
LEMMA RedraftKeeps == ASSUME AmendIInv, NEW c \in Callers, Redraft(c) PROVE AmendIInv'
<1> DEFINE read == caller[c].read
           now  == caller[c].now
<1>1. PICK got \in SUBSET (AskedToDraft(read) \intersect caller[c].reach) :
          caller' = [caller EXCEPT ![c] = [@ EXCEPT !.at = "reviewing", !.now = Redrafted(now, got)]]
      BY DEF Redraft
<1>2. caller[c] \in Busy /\ c \in Active
      BY DEF AmendIInv, AmendTypeOK, Redraft, Away, Active
<1>3. read \in Record /\ now \in Record /\ got \subseteq Seats
      BY <1>2 DEF Busy, AskedToDraft, DraftHoles
<1> DEFINE entry == [at |-> "reviewing", read |-> read, now |-> Redrafted(now, got), reach |-> caller[c].reach]
<1>4. entry \in Busy /\ entry # Away
      BY <1>2, <1>3, RedraftedIsRecord DEF Busy, Away
<1>5. caller'[c] = entry /\ \A d \in Callers : d # c => caller'[d] = caller[d]
      BY <1>1, <1>2 DEF AmendIInv, AmendTypeOK, Busy
<1>6. caller' \in [Callers -> {Away} \union Busy]
      BY <1>1, <1>4, <1>5 DEF AmendIInv, AmendTypeOK
<1>7. AmendTypeOK'
      BY <1>6 DEF AmendIInv, AmendTypeOK, Redraft
<1>8. Active' = Active
      BY <1>2, <1>4, <1>5 DEF Active
<1>9. SameFirsts(Redrafted(now, got), file)
  <2>1. SameFirsts(read, file) /\ SameFirsts(now, file)
        BY <1>2 DEF AmendIInv, CallsHold
  <2>2. \A s \in got : read.drafts[s] = "none"
        BY <1>3 DEF AskedToDraft, DraftHoles, Held
  <2>3. \A s \in Seats : Redrafted(now, got).drafts[s] = "first" <=> file.drafts[s] = "first"
        BY <1>3, <2>1, <2>2 DEF SameFirsts, Redrafted, Record
  <2>4. Redrafted(now, got).reviews = now.reviews
        BY DEF Redrafted
  <2> QED
      BY <2>1, <2>3, <2>4 DEF SameFirsts
<1>10. CallsHold'
  <2>1. /\ Redrafted(now, got).reviews = read.reviews
        /\ Redrafted(now, got).shown = read.shown
        /\ Redrafted(now, got).amendments = read.amendments
        BY <1>2, <1>3 DEF AmendIInv, CallsHold, Redrafted, Record
  <2>2. SameFirsts(read, file) /\ Original(read)
        BY <1>2 DEF AmendIInv, CallsHold
  <2> SUFFICES ASSUME NEW d \in Active
               PROVE  /\ SameFirsts(caller'[d].read, file') /\ SameFirsts(caller'[d].now, file')
                      /\ Original(caller'[d].read)
                      /\ caller'[d].at = "drafting" => caller'[d].now = caller'[d].read
                      /\ caller'[d].now.reviews = caller'[d].read.reviews
                      /\ caller'[d].now.shown = caller'[d].read.shown
                      /\ caller'[d].now.amendments = caller'[d].read.amendments
      BY <1>8 DEF CallsHold, SameFirsts, Original, Reviewed, Held
  <2>3. CASE d = c
    <3>1. /\ caller'[d].at = "reviewing" /\ caller'[d].read = read
          /\ caller'[d].now = Redrafted(now, got) /\ file' = file
      <4>1. caller'[d] = entry /\ file' = file
            BY <2>3, <1>5 DEF Redraft
      <4>2. /\ entry.at = "reviewing" /\ entry.read = read /\ entry.now = Redrafted(now, got)
            OBVIOUS
      <4> HIDE DEF entry
      <4> QED
          BY <4>1, <4>2
    <3> QED
        BY <3>1, <1>9, <2>1, <2>2
  <2>4. CASE d # c
        BY <2>4, <1>5 DEF AmendIInv, CallsHold, Redraft, Active
  <2> QED
      BY <2>3, <2>4
<1>11. Counted'
      BY <1>5, <1>8 DEF AmendIInv, Counted, Redraft, Active
<1> QED
    BY <1>7, <1>10, <1>11 DEF AmendIInv, Redraft, Original, FirstReportHonest, Reviewed, Held

-----------------------------------------------------------------------------
(* So do reviews got again.                                               *)
LEMMA RereviewedIsRecord ==
    ASSUME NEW record \in Record, NEW got \in SUBSET Seats
    PROVE  Rereviewed(record, got) \in Record
<1>1. Held(record) \subseteq Seats
      BY DEF Held
<1>2. DOMAIN record.reviews \in {Seats, {}}
      BY DEF Record
<1>3. [s \in DOMAIN record.reviews |-> IF s \in got THEN "later" ELSE record.reviews[s]]
          \in [Seats -> When \union {"failed"}] \union [{} -> When]
      BY <1>2 DEF Record, When
<1>4. [s \in Seats |-> IF s \in got THEN Held(record) ELSE record.shown[s]] \in [Seats -> SUBSET Seats]
      BY <1>1 DEF Record
<1>5. record.drafts \in [Seats -> When \union {"none"}] /\ record.amendments + 1 \in Nat
      BY DEF Record
<1> QED
    BY <1>3, <1>4, <1>5 DEF Record, Rereviewed

(* A write leaves first answers where they were.                           *)
LEMMA WriteKeepsFirsts ==
    ASSUME AmendIInv, NEW c \in Callers, Rereview(c)
    PROVE  SameFirsts(file', file)
<1> DEFINE read == caller[c].read
           now  == caller[c].now
<1>1. PICK got \in SUBSET (ReviewHoles(read) \intersect caller[c].reach) :
          file' = Rereviewed(now, got) \/ UNCHANGED file
      BY DEF Rereview
<1>2. caller[c] \in Busy /\ c \in Active
      BY DEF AmendIInv, AmendTypeOK, Rereview, Away, Active
<1>3. now \in Record
      BY <1>2 DEF Busy
<1>4. SameFirsts(now, file) /\ now.reviews = read.reviews
      BY <1>2 DEF AmendIInv, CallsHold
<1> DEFINE result == Rereviewed(now, got)
<1>5. \A s \in got : s \in DOMAIN now.reviews => now.reviews[s] # "first"
      BY <1>4 DEF ReviewHoles, Reviewed
<1>6. /\ result.drafts = now.drafts /\ DOMAIN result.reviews = DOMAIN now.reviews
      /\ \A s \in DOMAIN now.reviews : result.reviews[s] = IF s \in got THEN "later" ELSE now.reviews[s]
      BY <1>3 DEF Rereviewed, Record
<1>7. SameFirsts(result, file)
      BY <1>4, <1>5, <1>6 DEF SameFirsts
<1>8. SameFirsts(file, file)
      BY DEF SameFirsts
<1> QED
    BY <1>1, <1>7, <1>8

(* A call that ends: what it writes and says, whether or not it can write. *)
LEMMA RereviewKeeps == ASSUME AmendIInv, NEW c \in Callers, Rereview(c) PROVE AmendIInv'
<1> DEFINE read == caller[c].read
           now  == caller[c].now
<1>1. PICK got \in SUBSET (ReviewHoles(read) \intersect caller[c].reach) :
          /\ \/ file' = Rereviewed(now, got) /\ UNCHANGED slipped
             \/ slipped' = TRUE /\ UNCHANGED file
          /\ report' = [ stale |-> StaleReviews(read, now), kept |-> Reviewed(read),
                         result |-> Rereviewed(now, got), attempt |-> read.amendments + 1 ]
      BY DEF Rereview
<1> DEFINE result == Rereviewed(now, got)
<1>2. caller[c] \in Busy /\ c \in Active
      BY DEF AmendIInv, AmendTypeOK, Rereview, Away, Active
<1>3. /\ read \in Record /\ now \in Record /\ got \subseteq Seats
      BY <1>2 DEF Busy
<1>4. result \in Record
      BY <1>3, RereviewedIsRecord
<1>5. /\ SameFirsts(read, file) /\ SameFirsts(now, file) /\ Original(read)
      /\ now.reviews = read.reviews /\ now.shown = read.shown
      /\ now.amendments = read.amendments
      BY <1>2 DEF AmendIInv, CallsHold
<1>6. result.drafts = now.drafts /\ result.amendments = read.amendments + 1
      BY <1>3, <1>5 DEF Rereviewed, Record
<1>7. Held(result) = Held(now)
      BY <1>6 DEF Held
<1>11. SameFirsts(file', file)
      BY WriteKeepsFirsts
<1>12. \A d \in Callers : caller'[d] = IF d = c THEN Away ELSE caller[d]
      BY DEF AmendIInv, AmendTypeOK, Rereview
<1>13. Active' = Active \ {c}
      BY <1>12 DEF Active
<1>14. file' \in Record /\ Original(file')
  <2>1. Original(result)
        BY <1>3, <1>6 DEF Original, Record
  <2> QED
      BY <2>1, <1>1, <1>4 DEF AmendIInv, AmendTypeOK
<1>15. AmendTypeOK'
  <2>1. caller' \in [Callers -> {Away} \union Busy]
        BY DEF AmendIInv, AmendTypeOK, Rereview
  <2>2. DOMAIN read.reviews \subseteq Seats
        BY <1>3 DEF Record
  <2>3. Reviewed(read) \subseteq Seats /\ StaleReviews(read, now) \subseteq Seats
        BY <2>2 DEF Reviewed, StaleReviews
  <2>4. report' \in [ stale : SUBSET Seats, kept : SUBSET Seats,
                      result : {Away} \union Record, attempt : Nat ]
        BY <1>1, <1>3, <1>4, <2>3 DEF Record
  <2> QED
      BY <1>1, <1>14, <2>1, <2>4 DEF AmendIInv, AmendTypeOK, Rereview
<1>16. CallsHold'
  <2> SUFFICES ASSUME NEW d \in Active, d # c
               PROVE  /\ SameFirsts(caller[d].read, file') /\ SameFirsts(caller[d].now, file')
                      /\ Original(caller[d].read)
                      /\ caller[d].at = "drafting" => caller[d].now = caller[d].read
                      /\ caller[d].now.reviews = caller[d].read.reviews
                      /\ caller[d].now.shown = caller[d].read.shown
                      /\ caller[d].now.amendments = caller[d].read.amendments
      BY <1>12, <1>13 DEF CallsHold, Active
  <2>1. SameFirsts(caller[d].read, file) /\ SameFirsts(caller[d].now, file)
        BY DEF AmendIInv, CallsHold
  <2>2. SameFirsts(caller[d].read, file') /\ SameFirsts(caller[d].now, file')
        BY <2>1, <1>11 DEF SameFirsts
  <2> QED
      BY <2>2 DEF AmendIInv, CallsHold
<1>17. Counted'
  <2> SUFFICES ASSUME ~slipped' PROVE Counted'
      BY DEF Counted
  <2>1. ~slipped /\ file' = result
        BY <1>1
  <2>2. /\ Active = {c} /\ read.amendments = file.amendments
        /\ file.amendments < MAX_AMENDMENTS /\ begun = file.amendments + 1
        BY <1>2, <2>1 DEF AmendIInv, Counted
  <2>3. Active' = {} /\ begun' = begun /\ file.amendments \in Nat
        BY <1>13, <2>2 DEF Rereview, AmendIInv, AmendTypeOK, Record
  <2> QED
      BY <1>6, <2>1, <2>2, <2>3, AmendAssumption DEF Counted
<1>18. FirstReportHonest'
  <2> SUFFICES ASSUME report'.attempt = 1
               PROVE  report'.stale = {r \in report'.kept : report'.result.shown[r] # Held(report'.result)}
      BY DEF FirstReportHonest, Held
  <2>1. read.amendments = 0
        BY <1>1, <1>3 DEF Record
  <2>2. \A r \in Reviewed(read) : result.shown[r] = Held(read)
    <3>1. \A r \in Reviewed(read) : r \in Seats /\ r \notin got
          BY <1>3 DEF Reviewed, ReviewHoles, Record
    <3> QED
        BY <3>1, <2>1, <1>3, <1>5 DEF Rereviewed, Original, Record
  <2> QED
      BY <1>1, <1>7, <2>2 DEF StaleReviews
<1> QED
    BY <1>14, <1>15, <1>16, <1>17, <1>18 DEF AmendIInv

-----------------------------------------------------------------------------
(* Every step of any call keeps the invariant.                            *)
THEOREM AmendStepHolds == AmendIInv /\ [AmendNext]_amendVars => AmendIInv'
<1> SUFFICES ASSUME AmendIInv, [AmendNext]_amendVars PROVE AmendIInv'
    OBVIOUS
<1>1. CASE AmendNext
      BY <1>1, ResumeKeeps, RedraftKeeps, RereviewKeeps DEF AmendNext
<1>2. CASE UNCHANGED amendVars
      BY <1>2 DEF amendVars, AmendIInv, AmendTypeOK, CallsHold, Counted, Active, Original, SameFirsts,
                  FirstReportHonest, Reviewed, Held
<1> QED
    BY <1>1, <1>2

(* The invariant holds of every behaviour, however amendments overlap.     *)
THEOREM AmendInductive == AmendSpec => []AmendIInv
<1> QED
    BY AmendInitHolds, AmendStepHolds, PTL DEF AmendSpec

(* The record and the calls under way keep their types.                    *)
THEOREM AmendTypeCorrect == AmendSpec => []AmendTypeOK
<1>1. AmendIInv => AmendTypeOK
      BY DEF AmendIInv
<1> QED
    BY <1>1, AmendInductive, PTL

(* While no amendment overlaps another and each is saved, a run is not     *)
(* amended more often than it may be.                                      *)
THEOREM CapHolds == AmendSpec => []RetriesCapped
<1>1. AmendIInv => RetriesCapped
  <2> SUFFICES ASSUME AmendIInv, ~slipped PROVE begun <= MAX_AMENDMENTS
      BY DEF RetriesCapped
  <2>1. file.amendments \in Nat
        BY DEF AmendIInv, AmendTypeOK, Record
  <2>2. CASE Active = {}
        BY <2>2 DEF AmendIInv, Counted
  <2>3. CASE Active # {}
        BY <2>1, <2>3, AmendAssumption DEF AmendIInv, Counted
  <2> QED
      BY <2>2, <2>3
<1> QED
    BY <1>1, AmendInductive, PTL

(* The first amendment of a run names exactly its stale votes.             *)
THEOREM HonestHolds == AmendSpec => []FirstReportHonest
<1>1. AmendIInv => FirstReportHonest
      BY DEF AmendIInv
<1> QED
    BY <1>1, AmendInductive, PTL

(* An answer given the first time is never replaced on disk, whichever of  *)
(* the overlapping calls writes last.                                      *)
THEOREM FirstsHold == AmendSpec => FirstAnswersKept
<1>1. AmendIInv /\ [AmendNext]_amendVars =>
        [ /\ \A s \in Seats : file.drafts[s] = "first" => file'.drafts[s] = "first"
          /\ \A s \in DOMAIN file.reviews : file.reviews[s] = "first" => file'.reviews[s] = "first" ]_amendVars
  <2> SUFFICES ASSUME AmendIInv, [AmendNext]_amendVars, amendVars' # amendVars
               PROVE  /\ \A s \in Seats : file.drafts[s] = "first" => file'.drafts[s] = "first"
                      /\ \A s \in DOMAIN file.reviews : file.reviews[s] = "first" => file'.reviews[s] = "first"
      OBVIOUS
  <2>1. CASE UNCHANGED file
        BY <2>1
  <2>2. CASE \E c \in Callers : Rereview(c)
    <3>1. PICK c \in Callers : Rereview(c)
          BY <2>2
    <3> QED
        BY <3>1, WriteKeepsFirsts DEF SameFirsts
  <2> QED
      BY <2>1, <2>2 DEF AmendNext, Resume, Redraft, amendVars
<1> QED
    BY <1>1, AmendInductive, PTL DEF AmendSpec, FirstAnswersKept
=============================================================================
