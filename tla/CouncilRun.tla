----------------------------- MODULE CouncilRun -----------------------------
(***************************************************************************)
(* One run of the council (council.ts, runCouncil): the budget, the probe  *)
(* of the seats' backends, planning by one seat or by vote, the gate, the  *)
(* research, draft and review rounds, and the tally.                       *)
(*                                                                         *)
(* A round asks every seat, at once or one after the other, and waits for  *)
(* all of them.  A seat is asked once in a round and only its own replies  *)
(* decide whether it is asked again, so the two orders do the same; the    *)
(* model lets the replies come in any order.  What a seat writes is left   *)
(* out but for what it votes for and what it quotes.                       *)
(***************************************************************************)
EXTENDS CouncilVerdict, Sequences

CONSTANTS
    Calls,      \* the options a caller may pass
    Local,      \* seats whose backend is on this machine and can be probed
    Hosted,     \* seats that are called over OpenRouter
    Preferred,  \* the configured planner, or NoSeat
    Audits      \* the penalties to consider

Options == [ stored : BOOLEAN, skipPlan : BOOLEAN, vote : BOOLEAN,
             planOnly : BOOLEAN, research : BOOLEAN ]

ASSUME CouncilAssumption ==
    /\ Calls \subseteq Options
    /\ Local \subseteq Seats /\ Hosted \subseteq Seats
    /\ Preferred \in Seats \union {NoSeat}
    /\ Audits \subseteq Penalties

VARIABLES
    call,      \* the options of the run
    phase,     \* the round under way; "refused", "plan" and "full" end the run
    dead,      \* seats whose backend proved absent in this run
    replies,   \* how each seat stands in the round under way
    said,      \* what the answers of the round name and quote
    planDrafts, \* the plans proposed, while one is being chosen
    plan,      \* the plan, the seat that wrote it, and what became of it
    unplanned, \* seats that were asked for a plan and gave none
    queue,     \* seats still to be asked for a plan, in order
    drafts,    \* the answers, once they are in
    ballots,   \* the reviews, once they are in
    verdict    \* how the votes came out

rounds == <<replies, said, dead>>
planning == <<planDrafts, plan, unplanned, queue>>
product == <<drafts, ballots, verdict>>
vars == <<call, phase, rounds, planning, product>>

Ended == {"refused", "plan", "full"}
Phases == {"start", "plans", "planVotes", "nominations", "integration", "planner",
           "gate", "research", "drafts", "reviews"} \union Ended

Silent == [vote |-> NoSeat, confidence |-> 0, quotes |-> {}]
Said == [vote : Seats \union {NoSeat}, confidence : Confidences \union {0}, quotes : SUBSET Seats]
NoPlan == [by |-> NoSeat, merged |-> FALSE]
Stored == [by |-> NumSeats + 1, merged |-> FALSE]   \* it was handed in
PlanBy(s) == [by |-> s, merged |-> FALSE]
Nothing == <<>>
Idle == [s \in Seats |-> "idle"]
Quiet == [s \in Seats |-> Silent]

TypeOK ==
    /\ call \in Calls
    /\ phase \in Phases
    /\ dead \subseteq Seats
    /\ replies \in [Seats -> Outcomes \union {"idle", "out"}]
    /\ said \in [Seats -> Said]
    /\ planDrafts \in [Seats -> Outcomes] \union {Nothing}
    /\ plan \in [by : 0..NumSeats + 1, merged : BOOLEAN]
    /\ unplanned \subseteq Seats
    /\ queue \in Seq(Seats)
    /\ drafts \in [Seats -> Outcomes] \union {Nothing}
    /\ ballots \in [Seats -> Ballot] \union {NoBallots}
    /\ verdict \in [ winner : Seats \union {NoSeat}, tied : BOOLEAN,
                     method : {"none", "sole-draft", "peer", "confidence", "majority"} ]

Init ==
    /\ call \in Calls
    /\ phase = "start"
    /\ dead = {}
    /\ replies = Idle
    /\ said = Quiet
    /\ planDrafts = Nothing
    /\ plan = IF call.stored THEN Stored ELSE NoPlan
    /\ unplanned = {}
    /\ queue = <<>>
    /\ drafts = Nothing
    /\ ballots = NoBallots
    /\ verdict = NoVerdict

-----------------------------------------------------------------------------
(* Mutant: the breaker is not consulted.                                   *)
AskedAnyway(who, absent) ==
    [s \in Seats |-> IF s \notin who THEN "idle" ELSE "out"]

(* A seat whose backend is absent is not called; its reply is an error.    *)
Asked(who, absent) ==
    [s \in Seats |-> IF s \notin who THEN "idle" ELSE IF s \in absent THEN "skipped" ELSE "out"]

Begin(round, who, absent) ==
    /\ phase' = round
    /\ replies' = Asked(who, absent)
    /\ said' = Quiet

Settled == \A s \in Seats : replies[s] # "out"
Answered == {s \in Seats : Usable(replies[s])}

Rest(to) == phase' = to /\ replies' = Idle /\ said' = Quiet
ToGate == Rest("gate") /\ planDrafts' = Nothing /\ queue' = <<>>

(* The configured planner, else a hosted seat, else the first.             *)
FirstPlanner ==
    IF Preferred # NoSeat THEN Preferred
    ELSE IF Hosted # {} THEN Min(Hosted) ELSE 1

(* That seat first, the others in the order of the roster.                 *)
PlannerOrder ==
    [i \in Seats |-> IF i = 1 THEN FirstPlanner ELSE IF i <= FirstPlanner THEN i - 1 ELSE i]

(* Seats are asked for a plan one by one until one writes it.              *)
AskPlanner(order, absent) ==
    Begin("planner", {Head(order)}, absent) /\ queue' = order /\ planDrafts' = Nothing

(* The balance may be too low; else the backends that can be are probed.   *)
Start ==
    /\ phase = "start"
    /\ \/ Rest("refused") /\ UNCHANGED <<call, dead, planning, product>>
       \/ \E absent \in SUBSET Local :
            /\ dead' = absent
            /\ IF call.stored \/ call.skipPlan
               THEN ToGate
               ELSE IF call.vote /\ NumSeats > 1
               THEN Begin("plans", Seats, absent) /\ UNCHANGED <<planDrafts, queue>>
               ELSE AskPlanner(PlannerOrder, absent)
            /\ UNCHANGED <<call, plan, unplanned, product>>

(* A vote names a seat of the roster or nobody; a nomination quotes the    *)
(* plans of rivals.                                                        *)
Sayable ==
    CASE phase \in {"planVotes", "reviews"} ->
            [vote : Seats, confidence : Confidences, quotes : {{}}] \union {Silent}
      [] phase = "nominations" ->
            {[Silent EXCEPT !.quotes = q] : q \in SUBSET {s \in Seats \ {plan.by} : Usable(planDrafts[s])}}
      [] OTHER -> {Silent}

(* Every call ends, by its time limit if need be.                          *)
Reply(s) ==
    /\ replies[s] = "out"
    /\ \E outcome \in Outcomes \ {"skipped"} :
        /\ replies' = [replies EXCEPT ![s] = outcome]
        /\ \E words \in (IF Usable(outcome) THEN Sayable ELSE {Silent}) :
            said' = [said EXCEPT ![s] = words]
        /\ dead' = IF outcome = "absent" THEN dead \union {s} ELSE dead
    /\ UNCHANGED <<call, phase, planning, product>>

-----------------------------------------------------------------------------
BallotsIn == [s \in Seats |-> [ ok |-> ~Erred(replies[s]), vote |-> said[s].vote,
                                confidence |-> said[s].confidence ]]

(* No plan yet: the seats are asked one by one after all.                  *)
FallBack == AskPlanner(PlannerOrder, dead) /\ UNCHANGED plan

(* The plan voted for is followed, else the first that is usable; one that *)
(* has no text is no plan.  A plan that won a vote is offered to the rest. *)
Follow(proposed, usable, winner) ==
    LET elected == IF winner # NoSeat THEN winner
                   ELSE IF usable # {} THEN Min(usable) ELSE NoSeat
    IN  IF elected = NoSeat \/ ~HasText(proposed[elected]) THEN FallBack
        ELSE /\ plan' = PlanBy(elected)
             /\ IF winner # NoSeat /\ Cardinality(usable) > 1
                THEN Begin("nominations", Seats, dead) /\ planDrafts' = proposed /\ UNCHANGED queue
                ELSE ToGate

(* Every seat proposed a plan or failed to; two or more are voted on.      *)
PlansIn ==
    /\ phase = "plans" /\ Settled
    /\ unplanned' = unplanned \union (Seats \ Answered)
    /\ IF Cardinality(Answered) > 1
       THEN Begin("planVotes", Seats, dead) /\ planDrafts' = replies /\ UNCHANGED <<plan, queue>>
       ELSE Follow(replies, Answered, Tally(NoBallots, replies, Clean).winner)
    /\ UNCHANGED <<call, dead, product>>

PlanVotesIn ==
    /\ phase = "planVotes" /\ Settled
    /\ Follow(planDrafts, UsableDrafts(planDrafts), Tally(BallotsIn, planDrafts, Clean).winner)
    /\ UNCHANGED <<call, dead, unplanned, product>>

(* A piece of a rival plan is taken when two seats quote it.               *)
Accepted == {s \in Seats : Cardinality({r \in Seats : s \in said[r].quotes}) >= 2}

NominationsIn ==
    /\ phase = "nominations" /\ Settled
    /\ IF Accepted = {} THEN ToGate
       ELSE Begin("integration", {plan.by}, dead) /\ UNCHANGED <<planDrafts, queue>>
    /\ UNCHANGED <<call, dead, plan, unplanned, product>>

(* The author rewrites its plan, or the plan stays as it won.              *)
IntegrationIn ==
    /\ phase = "integration" /\ Settled
    /\ plan' = [plan EXCEPT !.merged = plan.by \in Answered]
    /\ ToGate
    /\ UNCHANGED <<call, dead, unplanned, product>>

(* Mutant: a seat that could not plan is asked again after the others.     *)
NextPlannerAgain(order) == Append(Tail(order), Head(order))

NextPlanner(order) == Tail(order)

PlannerIn ==
    /\ phase = "planner" /\ Settled
    /\ LET asked == Head(queue)
           left == NextPlanner(queue)
       IN  IF asked \in Answered
           THEN plan' = PlanBy(asked) /\ ToGate /\ UNCHANGED unplanned
           ELSE /\ unplanned' = unplanned \union {asked}
                /\ IF left = <<>> THEN ToGate ELSE AskPlanner(left, dead)
                /\ UNCHANGED plan
    /\ UNCHANGED <<call, dead, product>>

-----------------------------------------------------------------------------
(* Mutant: with nothing to approve there is nothing to wait for.           *)
StopsWithPlan == call.planOnly /\ plan # NoPlan

(* A run that may not spend stops here, whatever its planning came to.     *)
StopsAtGate == call.planOnly

Gate ==
    /\ phase = "gate"
    /\ IF StopsAtGate THEN Rest("plan")
       ELSE Begin(IF call.research THEN "research" ELSE "drafts", Seats, dead)
    /\ UNCHANGED <<call, dead, planning, product>>

(* Whatever the seats asked for is fetched; the drafts follow in any case. *)
ResearchIn ==
    /\ phase = "research" /\ Settled
    /\ Begin("drafts", Seats, dead)
    /\ UNCHANGED <<call, dead, planning, product>>

(* Mutant: one draft is reviewed too.                                      *)
ComparableAny(usable) == usable # {}

Comparable(usable) == Cardinality(usable) >= 2

DraftsIn ==
    /\ phase = "drafts" /\ Settled
    /\ drafts' = replies
    /\ IF Comparable(Answered)
       THEN Begin("reviews", Seats, dead) /\ UNCHANGED verdict
       ELSE Rest("full") /\ verdict' = Tally(NoBallots, replies, Clean)
    /\ UNCHANGED <<call, dead, planning, ballots>>

(* The drafts are audited before the votes are counted.                    *)
ReviewsIn ==
    /\ phase = "reviews" /\ Settled
    /\ ballots' = BallotsIn
    /\ \E audit \in [UsableDrafts(drafts) -> Audits] :
        verdict' = Tally(BallotsIn, drafts, Charged(audit))
    /\ Rest("full")
    /\ UNCHANGED <<call, dead, planning, drafts>>

Next ==
    \/ Start \/ PlansIn \/ PlanVotesIn \/ NominationsIn \/ IntegrationIn \/ PlannerIn
    \/ Gate \/ ResearchIn \/ DraftsIn \/ ReviewsIn
    \/ \E s \in Seats : Reply(s)

(* The rounds follow by themselves, and every call has a time limit.       *)
Spec == Init /\ [][Next]_vars /\ WF_vars(Next)

-----------------------------------------------------------------------------
(* council.ts: "a proxy that is not listening will refuse every round, and *)
(* each refusal costs the round its full retry window".  A seat is called  *)
(* no more once its backend was found absent, by probe or by a call, in    *)
(* whatever round that was.                                                *)
AbsentAskedOnce ==
    [][\A s \in Seats :
        /\ replies[s] = "absent" => s \in dead
        /\ s \in dead => s \in dead' /\ replies'[s] # "out"]_vars

(* A run that was not approved reaches no round past the gate, whichever   *)
(* way its planning went, nothing planned at all included.                 *)
GateHolds == call.planOnly => phase \notin {"research", "drafts", "reviews", "full"}

(* council.ts: "A planner that cannot answer must not silently cost the    *)
(* run": a run that was to plan comes to the gate without a plan only when *)
(* each of its seats was asked for one and gave none; and a plan that was  *)
(* chosen is never lost, even when working in what others offered fails.   *)
PlanIfAnyoneCan ==
    phase \notin {"start", "refused", "plans", "planVotes", "planner"} /\ plan = NoPlan =>
        call.skipPlan \/ unplanned = Seats

(* Both: however planning ends, it ends at the gate.                       *)
PlanningEndsWell == GateHolds /\ PlanIfAnyoneCan

(* What a finished run files is what an amendment takes it to be: a draft  *)
(* of every seat, and a review of every seat just when there were drafts   *)
(* to compare.                                                             *)
FiledWell == phase = "full" => Filable(drafts, ballots)

(* "A fabricated citation has to cost something": a draft that does not    *)
(* win with an audit does not win with a worse one, whichever rule decides.*)
PenaltyNeverHelps ==
    phase = "reviews" /\ Settled =>
        \A audit \in [UsableDrafts(drafts) -> Audits] :
        \A s \in UsableDrafts(drafts), worse \in Audits :
            /\ worse > audit[s]
            /\ Tally(BallotsIn, drafts, Charged([audit EXCEPT ![s] = worse])).winner = s
            => Tally(BallotsIn, drafts, Charged(audit)).winner = s

(* Every run ends.                                                         *)
RunEnds == <>(phase \in Ended)
=============================================================================
