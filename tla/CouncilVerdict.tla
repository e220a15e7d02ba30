--------------------------- MODULE CouncilVerdict ---------------------------
(***************************************************************************)
(* What the seats of a council answer, and how their votes are counted     *)
(* (council.ts, tally; verify.ts, penaltyFor).  A seat is its place in the *)
(* roster.  Scores are in whole numbers: a confidence is a natural number, *)
(* a vote for oneself has weight 1 and any other 2, and a penalty is in    *)
(* tenths, so that every score here is a fixed multiple of the code's.     *)
(***************************************************************************)
EXTENDS Naturals, FiniteSets, FiniteSetsExt

CONSTANTS
    NumSeats,     \* seats that are switched on
    Confidences   \* how sure a seat may say it is

ASSUME SeatsAssumption == NumSeats \in Nat \ {0} /\ Confidences \subseteq Nat

Seats == 1..NumSeats
NoSeat == 0

(* How a call ends: with text; with none and no error; cut off with text;  *)
(* failed; failed because nothing listens; or not made at all.             *)
Outcomes == {"answer", "empty", "partial", "failed", "absent", "skipped"}
Usable(outcome) == outcome = "answer"
HasText(outcome) == outcome \in {"answer", "partial"}
Erred(outcome) == outcome \in {"partial", "failed", "absent", "skipped"}

(* A review that erred names nobody; one that did not may name nobody.     *)
Ballot == [ok : BOOLEAN, vote : Seats \union {NoSeat}, confidence : Confidences \union {0}]

Whole == 10    \* tenths in the whole score
(* One for a call that was made up, two for each dead link, at most nine.  *)
Penalties == {0, 2, 4, 5, 6, 7, 8, 9}
Clean == [s \in Seats |-> 0]
Charged(audit) == [s \in Seats |-> IF s \in DOMAIN audit THEN audit[s] ELSE 0]

NoBallots == <<>>

-----------------------------------------------------------------------------
Voters(ballots, s) == {r \in DOMAIN ballots : ballots[r].ok /\ ballots[r].vote = s}
Peers(ballots, s) == Voters(ballots, s) \ {s}

(* What the vote of r is worth to s.                                       *)
Weight(ballots, r, s) == IF r = s THEN ballots[r].confidence ELSE 2 * ballots[r].confidence

(* What the votes of those seats come to for s, added up along the roster. *)
Total(ballots, from, s) ==
    LET sum[r \in 0..NumSeats] ==
            IF r = 0 THEN 0
            ELSE IF r \in from THEN sum[r - 1] + Weight(ballots, r, s) ELSE sum[r - 1]
    IN  sum[NumSeats]

(* Mutant: a draft keeps the share it is to lose.                          *)
ScaledByPenalty(penalty, s, x) == x * penalty[s]

(* What a draft keeps of a total once its penalty is off.                  *)
Scaled(penalty, s, x) == x * (Whole - penalty[s])

PeerScores(ballots, penalty) ==
    [s \in Seats |-> Scaled(penalty, s, Total(ballots, Peers(ballots, s), s))]
Scores(ballots, penalty) ==
    [s \in Seats |-> Scaled(penalty, s, Total(ballots, Voters(ballots, s), s))]
Counts(ballots) == [s \in Seats |-> Cardinality(Voters(ballots, s))]

(* Those somebody voted for, and those somebody else did.                  *)
Named(ballots) == {s \in Seats : Voters(ballots, s) # {}}
Backed(ballots) == {s \in Seats : Peers(ballots, s) # {}}

Best(from, value) == {s \in from : \A t \in from : value[t] <= value[s]}
Sole(S) == CHOOSE s \in S : TRUE

PeerBest(ballots, penalty) == Best(Backed(ballots), PeerScores(ballots, penalty))
TopBest(ballots, penalty) == Best(Named(ballots), Scores(ballots, penalty))

(* Candidates are kept in the order in which they were first voted for.    *)
FirstNamed(ballots, from) ==
    CHOOSE s \in from :
        \E r \in Voters(ballots, s) : \A t \in from : \A q \in Voters(ballots, t) : r <= q

(* The drafts that came with text and without an error.                    *)
UsableDrafts(drafts) == {s \in DOMAIN drafts : Usable(drafts[s])}

Verdict(winner, method, tied) == [winner |-> winner, method |-> method, tied |-> tied]
NoVerdict == Verdict(NoSeat, "none", FALSE)

(* One draft and no vote: it wins.  Otherwise the seat with the most peer  *)
(* backing, if that is one seat; else the highest score; else, of those,   *)
(* the most votes.                                                         *)
Tally(ballots, drafts, penalty) ==
    LET usable == UsableDrafts(drafts)
        peer   == PeerBest(ballots, penalty)
        top    == TopBest(ballots, penalty)
        most   == Best(top, Counts(ballots))
    IN  IF Named(ballots) = {}
        THEN IF Cardinality(usable) = 1
             THEN Verdict(Sole(usable), "sole-draft", FALSE) ELSE NoVerdict
        ELSE IF Cardinality(peer) = 1
        THEN Verdict(Sole(peer), "peer", FALSE)
        ELSE IF Cardinality(top) = 1
        THEN Verdict(Sole(top), "confidence", FALSE)
        ELSE Verdict(FirstNamed(ballots, most), "majority", Cardinality(most) > 1)

-----------------------------------------------------------------------------
(* What a run leaves behind for amendments: every seat's draft and, when   *)
(* there were two to compare, every seat's review.                         *)
Filable(drafts, ballots) ==
    /\ drafts \in [Seats -> Outcomes]
    /\ ballots \in IF Cardinality(UsableDrafts(drafts)) >= 2 THEN [Seats -> Ballot]
                   ELSE {NoBallots}
    /\ \A s \in DOMAIN ballots : ~ballots[s].ok => ballots[s].vote = NoSeat
=============================================================================
