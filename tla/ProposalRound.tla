--------------------------- MODULE ProposalRound ----------------------------
(***************************************************************************)
(* The proposing round (propose.ts) and the vote on what it brought        *)
(* (select.ts): every seat that is switched on writes its own version of   *)
(* one change into a tree of its own, and one version is selected.  Seats, *)
(* reads, staged writes and votes are those of UnitContest, whose contests *)
(* go by Next here too; a round is a contest with profile "propose".       *)
(*                                                                         *)
(* Nothing watches the abort signal in a round but the calls, which then   *)
(* fail like any other.                                                    *)
(***************************************************************************)
EXTENDS UnitContest

Proposing == contest.profile = "propose"

(* Without source roots, or without a seat, nothing is asked.              *)
ProposeBegin ==
    /\ pc = "start"
    /\ pc' = IF ~contest.roots \/ Proposers = {} THEN "failed" ELSE "drafting"
    /\ UNCHANGED <<contest, maker, ballots, chosen, checked, aborted, calls, spent>>

(* A seat whose reply is in, whether or not it will do.                    *)
Replied(s) == maker[s].pc \in {"writing", "spoilt"}

ProposeAsk(s) ==
    /\ pc = "drafting" /\ s \in Proposers /\ maker[s].pc = "idle"
    /\ contest.sequential => \A t \in Proposers : t < s => Replied(t)
    /\ Become(s, "asked")
    /\ Call({s})
    /\ UNCHANGED <<contest, pc, ballots, chosen, checked, aborted>>

(* The first reply is an error, or empty.                                  *)
Silent(s) == pc = "drafting" /\ ~maker[s].reads /\ Fails(s)

(* A reply is kept.  One that was shown files replaces the first, and the  *)
(* first stands if the second fails.                                       *)
Keeps(s) ==
    /\ pc = "drafting" /\ maker[s].pc = "asked"
    /\ maker' = [maker EXCEPT ![s] = [ Unasked EXCEPT !.pc = "writing", !.reads = maker[s].reads ]]
    /\ UNCHANGED <<contest, pc, ballots, chosen, checked, aborted, calls, spent>>

(* Once every reply is in they are staged, in the order of the roster.  A  *)
(* refused file does not spoil the rest, nor does staging none.            *)
Stages(s) ==
    /\ pc = "drafting" /\ maker[s].pc = "writing"
    /\ \A t \in Proposers : IF t < s THEN Settled(t) ELSE Replied(t)
    /\ \E list \in Proposals :
         IF list = <<>> THEN Become(s, "spoilt")
         ELSE \E broken \in Broken(list) :
                LET tree == Applied(list, broken) IN
                maker' = [maker EXCEPT
                    ![s].pc = "made", ![s].written = tree.written, ![s].chars = tree.chars,
                    ![s].refused = tree.refused ]
    /\ UNCHANGED <<contest, pc, ballots, chosen, checked, aborted, calls, spent>>

-----------------------------------------------------------------------------
(* Candidates of which something can be read back.                         *)
Readable(unread) ==
    { s \in Proposers : maker[s].pc = "made" /\ maker[s].written # {} } \ unread

(* One that can be shown is the selection; more are put to a vote.         *)
Select ==
    /\ pc = "drafting" /\ \A s \in Proposers : Settled(s)
    /\ \E unread \in SUBSET { s \in Proposers : maker[s].pc = "made" } :
        /\ maker' = [ s \in Seats |-> [ maker[s] EXCEPT !.blank = s \notin Readable(unread) ] ]
        /\ \/ /\ Readable(unread) = {}
              /\ pc' = "failed" /\ UNCHANGED <<chosen, calls, spent>>
           \/ /\ Cardinality(Readable(unread)) = 1
              /\ pc' = "passed" /\ chosen' = Sole(Readable(unread)) /\ UNCHANGED <<calls, spent>>
           \/ /\ Cardinality(Readable(unread)) > 1
              /\ pc' = "voting" /\ Call(Proposers) /\ UNCHANGED chosen
    /\ UNCHANGED <<contest, ballots, checked, aborted>>

(* Only seats whose candidate was shown may be voted for.                  *)
OnBallot == UsableSeats

ProposeVotes(s) ==
    /\ pc = "voting" /\ s \in Proposers \ DOMAIN ballots
    /\ contest.sequential => \A t \in Proposers : t < s => t \in DOMAIN ballots
    /\ \E b \in { b \in Ballot : /\ b.vote \in OnBallot \union {NoSeat}
                                 /\ ~b.ok => b = Lost
                                 /\ b.ok => b.confidence \in Confidences } :
         ballots' = WithVote(s, b)
    /\ UNCHANGED <<contest, pc, maker, chosen, checked, aborted, calls, spent>>

ProposeVotesIn ==
    /\ pc = "voting" /\ DOMAIN ballots = Proposers
    /\ LET winner == Tally(ballots, [s \in UsableSeats |-> "answer"], Clean).winner
       IN  IF winner \in UsableSeats THEN pc' = "passed" /\ chosen' = winner
           ELSE pc' = "failed" /\ UNCHANGED chosen
    /\ UNCHANGED <<contest, maker, ballots, checked, aborted, calls, spent>>

ProposeStep ==
    \/ ProposeBegin \/ Select \/ ProposeVotesIn
    \/ \E s \in Seats : \/ ProposeAsk(s) \/ Silent(s) \/ AsksToRead(s) \/ Reads(s) \/ Keeps(s)
                        \/ Stages(s) \/ ProposeVotes(s)

RoundStep == IF Proposing THEN ProposeStep ELSE Step
RoundNext == IF Proposing THEN ProposeStep ELSE Next

(* Every call to a seat ends, by its own time limit if by nothing else.    *)
RoundSpec == Init /\ [][RoundNext]_vars /\ WF_vars(RoundStep)

-----------------------------------------------------------------------------
(* select.ts: "Exactly one version should" be implemented, and "a vote for *)
(* a seat that wrote nothing does not quietly become the winner".  What is *)
(* selected has files that can be read back, and either no other has and   *)
(* no vote was bought, or a seat voted for it; and a round whose vote      *)
(* settles on nothing is one in which nobody named a version, however the  *)
(* votes tie (select.ts:173-202, 223-243).                                 *)
SelectedWell ==
    Proposing =>
        /\ pc = "passed" =>
             /\ chosen \in UsableSeats /\ maker[chosen].written # {}
             /\ \/ UsableSeats = {chosen} /\ DOMAIN ballots = {}
                \/ \E s \in DOMAIN ballots : ballots[s].ok /\ ballots[s].vote = chosen
        /\ pc = "failed" => \/ UsableSeats = {}
                            \/ \A s \in DOMAIN ballots : ballots[s].vote = NoSeat

(* What comes out of a contest or of a proposing round was won by the      *)
(* rules of the one or of the other.                                       *)
HandsOnWell == OnlyAccepted /\ SelectedWell
=============================================================================
