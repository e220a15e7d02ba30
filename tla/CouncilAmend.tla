---------------------------- MODULE CouncilAmend ----------------------------
(***************************************************************************)
(* The record of one finished council run and its amendments (runs.ts;     *)
(* council.ts, amendCouncil; index.ts, the resume branch of the council    *)
(* tool).  A caller reads the record, asks again the seats that failed,    *)
(* and writes the record back; nothing keeps a second caller, in this      *)
(* session or another, from doing the same in between.                     *)
(*                                                                         *)
(* Of a draft and a review the model keeps whether there is one and when   *)
(* it was given, and of a review which drafts its author was shown.        *)
(***************************************************************************)
EXTENDS CouncilVerdict

CONSTANTS
    Callers,        \* calls that may be under way at once
    MAX_AMENDMENTS, \* amendments a run may have
    MaxCalls        \* bound on the amendments begun

ASSUME AmendAssumption == MAX_AMENDMENTS \in Nat /\ MaxCalls \in Nat

VARIABLES
    file,    \* the record on disk
    caller,  \* what each call is at, and what it read
    report,  \* what the last amendment said
    begun,   \* amendments begun: what was spent
    slipped  \* an amendment was not counted: it overlapped, or was not saved

amendVars == <<file, caller, report, begun, slipped>>

When == {"first", "later"}
Record == [ drafts : [Seats -> When \union {"none"}],
            reviews : [Seats -> When \union {"failed"}] \union [{} -> When],
            shown : [Seats -> SUBSET Seats], amendments : Nat ]

Held(record) == {s \in Seats : record.drafts[s] # "none"}
Reviewed(record) == {s \in DOMAIN record.reviews : record.reviews[s] # "failed"}

(* The record of a run that ended with these drafts and reviews.           *)
FiledAs(drafts, ballots) ==
    [ drafts |-> [s \in Seats |-> IF Usable(drafts[s]) THEN "first" ELSE "none"],
      reviews |-> [s \in DOMAIN ballots |-> IF ballots[s].ok THEN "first" ELSE "failed"],
      shown |-> [s \in Seats |-> IF s \in DOMAIN ballots THEN UsableDrafts(drafts) ELSE {}],
      amendments |-> 0 ]

Away == [at |-> "away"]
NoReport == [stale |-> {}, kept |-> {}, result |-> Away, attempt |-> 0]

Busy == [ at : {"drafting", "reviewing"}, read : Record, now : Record, reach : SUBSET Seats ]

AmendTypeOK ==
    /\ file \in Record
    /\ caller \in [Callers -> {Away} \union Busy]
    /\ report \in [ stale : SUBSET Seats, kept : SUBSET Seats,
                    result : {Away} \union Record, attempt : Nat ]
    /\ begun \in 0..MaxCalls
    /\ slipped \in BOOLEAN

AmendInit ==
    /\ \E drafts \in [Seats -> Outcomes], ballots \in [Seats -> Ballot] \union {NoBallots} :
        Filable(drafts, ballots) /\ file = FiledAs(drafts, ballots)
    /\ caller = [c \in Callers |-> Away]
    /\ report = NoReport
    /\ begun = 0
    /\ slipped = FALSE

-----------------------------------------------------------------------------
(* What a run lacks: a draft, or a review that erred.                      *)
DraftHoles(record) == Seats \ Held(record)
ReviewHoles(record) == DOMAIN record.reviews \ Reviewed(record)

(* Mutant: one amendment too many.                                         *)
AmendableOnceMore(record) ==
    /\ record.amendments <= MAX_AMENDMENTS
    /\ DraftHoles(record) # {} \/ ReviewHoles(record) # {}

Amendable(record) ==
    /\ record.amendments < MAX_AMENDMENTS
    /\ DraftHoles(record) # {} \/ ReviewHoles(record) # {}

(* Seats that have left the roster, or whose backend is absent, are not    *)
(* called.  A record that cannot be amended is left alone.                 *)
Resume(c) ==
    /\ caller[c] = Away /\ begun < MaxCalls
    /\ Amendable(file)
    /\ \E reach \in SUBSET Seats :
        caller' = [caller EXCEPT ![c] =
            [at |-> "drafting", read |-> file, now |-> file, reach |-> reach]]
    /\ begun' = begun + 1
    /\ slipped' = (slipped \/ \E d \in Callers : caller[d] # Away)
    /\ UNCHANGED <<file, report>>

(* Mutant: every seat drafts again.                                        *)
AskedToDraftAll(record) == Seats

AskedToDraft(record) == DraftHoles(record)

Redrafted(record, got) ==
    [record EXCEPT !.drafts = [s \in Seats |-> IF s \in got THEN "later" ELSE record.drafts[s]]]

(* The seats without a draft are asked again; some of them answer.         *)
Redraft(c) ==
    /\ caller[c].at = "drafting"
    /\ \E got \in SUBSET (AskedToDraft(caller[c].read) \intersect caller[c].reach) :
        caller' = [caller EXCEPT ![c] =
            [@ EXCEPT !.at = "reviewing", !.now = Redrafted(caller[c].now, got)]]
    /\ UNCHANGED <<file, report, begun, slipped>>

(* Mutant: only a re-asked review is ever suspect.                         *)
StaleAsked(read, now) == IF Held(now) = Held(read) THEN {} ELSE ReviewHoles(read)

(* The votes that are kept, when a draft was recovered in this amendment.  *)
StaleReviews(read, now) == IF Held(now) = Held(read) THEN {} ELSE Reviewed(read)

Rereviewed(record, got) ==
    [ drafts |-> record.drafts,
      reviews |-> [s \in DOMAIN record.reviews |-> IF s \in got THEN "later" ELSE record.reviews[s]],
      shown |-> [s \in Seats |-> IF s \in got THEN Held(record) ELSE record.shown[s]],
      amendments |-> record.amendments + 1 ]

(* The reviewers that erred are asked again, about the drafts as they now  *)
(* stand; the result is written back, or cannot be, and reported.          *)
Rereview(c) ==
    /\ caller[c].at = "reviewing"
    /\ LET read == caller[c].read
           now  == caller[c].now
       IN  \E got \in SUBSET (ReviewHoles(read) \intersect caller[c].reach) :
           /\ \/ file' = Rereviewed(now, got) /\ UNCHANGED slipped
              \/ slipped' = TRUE /\ UNCHANGED file
           /\ report' = [ stale |-> StaleReviews(read, now), kept |-> Reviewed(read),
                          result |-> Rereviewed(now, got), attempt |-> read.amendments + 1 ]
    /\ caller' = [caller EXCEPT ![c] = Away]
    /\ UNCHANGED begun

AmendNext == \E c \in Callers : Resume(c) \/ Redraft(c) \/ Rereview(c)

AmendSpec == AmendInit /\ [][AmendNext]_amendVars

-----------------------------------------------------------------------------
(* runs.ts: "Everything that answered the first time is kept exactly as it *)
(* was -- including the votes", however many callers amend the run at once *)
(* and whichever of them writes last.                                      *)
FirstAnswersKept ==
    [][ /\ \A s \in Seats : file.drafts[s] = "first" => file'.drafts[s] = "first"
        /\ \A s \in DOMAIN file.reviews : file.reviews[s] = "first" => file'.reviews[s] = "first" ]_amendVars

(* runs.ts: amendments are capped "so a loop cannot spend forever".  The   *)
(* cap holds as long as none overlaps another and every record is saved.   *)
RetriesCapped == ~slipped => begun <= MAX_AMENDMENTS

(* council.ts: "a report that hid that would be claiming a judgement       *)
(* nobody made".  The first amendment of a run names just the votes it     *)
(* keeps that were cast on other drafts than those it reports.             *)
FirstReportHonest ==
    report.attempt = 1 =>
        report.stale = {r \in report.kept : report.result.shown[r] # Held(report.result)}
=============================================================================
