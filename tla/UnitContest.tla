---------------------------- MODULE UnitContest -----------------------------
(***************************************************************************)
(* The contest of one work unit of a swarm that runs under a mode          *)
(* (swarm-contest.ts): seats propose, the free ones vote when there is     *)
(* more than one candidate, a paid seat reviews, and under economy a paid  *)
(* seat tries once more.  A seat that names files is shown them once       *)
(* (files.ts), and a unit that has files stages what a seat writes in that *)
(* seat's own tree (writes.ts).                                            *)
(*                                                                         *)
(* A seat is its place in the roster.  Lengths of files are in units of    *)
(* which the limits are small multiples.                                   *)
(***************************************************************************)
EXTENDS CouncilVerdict, Integers, Sequences, SequencesExt

CONSTANTS
    FreeSeats,     \* the seats that cost nothing
    Contests,      \* the units, modes and rosters to consider
    Files,         \* paths a unit or a reply may name
    Granted,       \* those inside the source roots
    Wanted,        \* what a reply may ask to be shown, as lists of files, each once
    Proposals,     \* what a reply may write, as lists of files
    MaxReads,      \* MAX_READS_TOTAL
    MaxFileChars,  \* MAX_FILE_CHARS
    MaxTotalChars, \* MAX_TOTAL_CHARS
    MaxWriteChars, \* MAX_WRITE_CHARS
    MaxWriteTotal  \* MAX_WRITE_CHARS_TOTAL

(* A file as it is asked for or written: its path, and how long it is.     *)
File == [ path : Files, size : Nat ]
Contest ==
    [ profile : {"economy", "fastest", "propose"}, sequential : BOOLEAN, assigned : Seats,
      eligible : SUBSET Seats, reviewers : SUBSET Seats, targets : SUBSET Files,
      roots : BOOLEAN, files : BOOLEAN, writes : BOOLEAN ]

ASSUME ContestAssumption ==
    /\ FreeSeats \subseteq Seats /\ Granted \subseteq Files
    /\ Contests \subseteq Contest
    /\ \A c \in Contests : /\ c.reviewers \intersect FreeSeats = {}
                           /\ c.profile = "fastest" => c.assigned \notin FreeSeats
                           /\ c.profile = "propose" => c.files /\ c.writes /\ c.targets = Files
    /\ Wanted \subseteq Seq(File) /\ Proposals \subseteq Seq(File)
    /\ {MaxReads, MaxFileChars, MaxTotalChars, MaxWriteChars, MaxWriteTotal} \subseteq Nat

VARIABLES
    contest,  \* the unit and what it is run with
    pc,       \* how far the contest is
    maker,    \* for each seat, its candidate
    ballots,  \* the votes that are in
    chosen,   \* the seat whose candidate is put forward, or NoSeat
    checked,  \* the last review, and the candidate it was of
    aborted,  \* the run's signal
    calls,    \* history: the calls made to each seat
    spent     \* history: those that were made to paid seats

vars == <<contest, pc, maker, ballots, chosen, checked, aborted, calls, spent>>

(* Once a seat is asked, reads says whether it was shown files, and, until *)
(* it replies, shown how much; written and refused are what became of its  *)
(* writes.                                                                 *)
Maker ==
    [ pc : {"idle", "asked", "reading", "writing", "made", "spoilt"},
      reads : BOOLEAN, blank : BOOLEAN, shown : Nat,
      written : SUBSET Files, chars : Nat, refused : SUBSET Files ]
Unasked ==
    [ pc |-> "idle", reads |-> FALSE, blank |-> FALSE, shown |-> 0,
      written |-> {}, chars |-> 0, refused |-> {} ]

(* A review is of a seat's candidate; a call that errs may bring text too. *)
NoReview == [ of |-> NoSeat, candidate |-> Unasked, says |-> FALSE, erred |-> FALSE ]
Lost == [ ok |-> FALSE, vote |-> NoSeat, confidence |-> 0 ]

Init ==
    /\ contest \in Contests
    /\ pc = "start"
    /\ maker = [s \in Seats |-> Unasked]
    /\ ballots = <<>>
    /\ chosen = NoSeat
    /\ checked = NoReview
    /\ aborted = FALSE
    /\ calls = [s \in Seats |-> 0]
    /\ spent = 0

-----------------------------------------------------------------------------
(* Who takes part.                                                         *)
Economy == contest.profile = "economy"
First(S) == IF S = {} THEN NoSeat ELSE Min(S)
FirstBut(S, s) == IF S \subseteq {s} THEN First(S) ELSE Min(S \ {s})

Paid == contest.eligible \ FreeSeats

Reviewer == FirstBut(contest.reviewers, contest.assigned)
Proposers ==
    CASE Economy -> contest.eligible \intersect FreeSeats
      [] contest.profile = "fastest" -> {contest.assigned}
      [] contest.profile = "propose" -> contest.eligible
Fallback == FirstBut(Paid, Reviewer)

NeedsFiles == contest.targets # {}
Staging == NeedsFiles /\ contest.writes /\ contest.roots

Refused ==
    \/ Reviewer = NoSeat
    \/ Economy /\ Cardinality(Proposers) < 2
    \/ NeedsFiles /\ ~Staging

(* Those whose candidate is being made.                                    *)
Making == CASE pc = "drafting" -> Proposers [] pc = "fallback" -> {Fallback} [] OTHER -> {}

(* Mutant: a candidate that failed is still waited for.                    *)
SettledIfMade(s) == maker[s].pc = "made"

Settled(s) == maker[s].pc \in {"made", "spoilt"}
UsableSeats == { s \in Proposers : maker[s].pc = "made" /\ ~maker[s].blank }

Accepted(review) == review.of # NoSeat /\ ~review.erred /\ review.says

-----------------------------------------------------------------------------
(* The disk fails for one path, or for none.                               *)
Broken(list) == {{}} \union { {f.path} : f \in ToSet(list) }

(* gatherFiles for one seat: so many files are read, each cut to what is   *)
(* left of the block; what cannot be shown takes nothing of it.            *)
Showing(block, file, broken) ==
    IF file.path \notin Granted \/ block.read = MaxReads THEN block
    ELSE LET left == MaxTotalChars - block.chars
             cap  == IF MaxFileChars < left THEN MaxFileChars ELSE left
             kept == IF file.path \in broken THEN 0 ELSE IF file.size < cap THEN file.size ELSE cap
         IN  [ read |-> block.read + 1, chars |-> block.chars + kept ]

Gathered(list, broken) ==
    LET block[i \in 0..Len(list)] ==
            IF i = 0 THEN [ read |-> 0, chars |-> 0 ] ELSE Showing(block[i - 1], list[i], broken)
    IN  block[Len(list)]

(* Mutant: a file is held against the limit of one file only.              *)
TakingUncounted(tree, file, broken) ==
    IF file.path \notin Granted \/ file.size > MaxWriteChars \/ file.path \in broken
    THEN [ tree EXCEPT !.refused = @ \union {file.path} ]
    ELSE [ tree EXCEPT !.written = @ \union {file.path}, !.chars = @ + file.size ]

(* applyWrites: what a reply writes, in turn, into the tree of its seat.   *)
Taking(tree, file, broken) ==
    IF \/ file.path \notin Granted \/ file.size > MaxWriteChars
       \/ tree.chars + file.size > MaxWriteTotal
       \/ file.path \in broken
    THEN [ tree EXCEPT !.refused = @ \union {file.path} ]
    ELSE [ tree EXCEPT !.written = @ \union {file.path}, !.chars = @ + file.size ]

Applied(list, broken) ==
    LET tree[i \in 0..Len(list)] ==
            IF i = 0 THEN [ written |-> {}, refused |-> {}, chars |-> 0 ]
            ELSE Taking(tree[i - 1], list[i], broken)
    IN  tree[Len(list)]

-----------------------------------------------------------------------------
Call(S) ==
    /\ calls' = [s \in Seats |-> calls[s] + IF s \in S THEN 1 ELSE 0]
    /\ spent' = spent + Cardinality(S \ FreeSeats)
Become(s, how) == maker' = [maker EXCEPT ![s].pc = how]

Begin ==
    /\ pc = "start"
    /\ pc' = IF Refused THEN "failed" ELSE "drafting"
    /\ UNCHANGED <<contest, maker, ballots, chosen, checked, aborted, calls, spent>>

(* produce: the seats at once, or one after the other.                     *)
Ask(s) ==
    /\ s \in Making /\ maker[s].pc = "idle"
    /\ contest.sequential => \A t \in Making : t < s => Settled(t)
    /\ Become(s, "asked")
    /\ Call({s})
    /\ UNCHANGED <<contest, pc, ballots, chosen, checked, aborted>>

(* The call fails.                                                         *)
Fails(s) ==
    /\ maker[s].pc = "asked"
    /\ maker' = [maker EXCEPT ![s] = [ Unasked EXCEPT !.pc = "spoilt", !.reads = maker[s].reads ]]
    /\ UNCHANGED <<contest, pc, ballots, chosen, checked, aborted, calls, spent>>

(* A first reply that asks to be shown files, where files can be shown.    *)
AsksToRead(s) ==
    /\ maker[s].pc = "asked" /\ ~maker[s].reads /\ contest.files
    /\ Become(s, "reading")
    /\ UNCHANGED <<contest, pc, ballots, chosen, checked, aborted, calls, spent>>

(* A reply that is kept, in whatever way.                                  *)
Replies(s) ==
    /\ maker[s].pc = "asked"
    /\ \E blank \in BOOLEAN :
         maker' = [maker EXCEPT ![s] = [ Unasked EXCEPT
                      !.blank = blank, !.pc = IF Staging THEN "writing" ELSE "made",
                      !.reads = maker[s].reads ]]
    /\ UNCHANGED <<contest, pc, ballots, chosen, checked, aborted, calls, spent>>

(* The files are read and the seat asked once more, its first reply lost.  *)
(* Without roots nothing is read and the list of paths is its candidate.   *)
Reads(s) ==
    /\ maker[s].pc = "reading"
    /\ IF contest.roots
       THEN /\ \E list \in Wanted : \E broken \in Broken(list) :
                 maker' = [maker EXCEPT ![s].pc = "asked", ![s].reads = TRUE,
                                        ![s].shown = Gathered(list, broken).chars]
            /\ Call({s})
       ELSE Become(s, "made") /\ UNCHANGED <<calls, spent>>
    /\ UNCHANGED <<contest, pc, ballots, chosen, checked, aborted>>

(* A write outside the unit's files spoils the candidate before anything   *)
(* is staged; a refused one spoils it after the rest was.                  *)
Writes(s) ==
    /\ maker[s].pc = "writing"
    /\ \E list \in Proposals :
         LET paths == { f.path : f \in ToSet(list) } IN
         \/ /\ ~(paths \subseteq contest.targets)
            /\ Become(s, "spoilt")
         \/ /\ paths \subseteq contest.targets
            /\ \E broken \in Broken(list) :
                 LET tree == Applied(list, broken) IN
                 maker' = [maker EXCEPT
                     ![s].pc = IF tree.refused # {} \/ tree.written = {} THEN "spoilt"
                               ELSE "made",
                     ![s].written = tree.written, ![s].chars = tree.chars,
                     ![s].refused = tree.refused ]
    /\ UNCHANGED <<contest, pc, ballots, chosen, checked, aborted, calls, spent>>

-----------------------------------------------------------------------------
(* A paid seat is put the candidate of s.                                  *)
Submit(s, next) ==
    /\ chosen' = s
    /\ pc' = next
    /\ Call({Reviewer})

(* Nothing was accepted: under economy, unless the run was aborted, a paid *)
(* seat that is eligible tries, once.                                      *)
Escalate ==
    IF Economy /\ ~aborted /\ Fallback # NoSeat
    THEN pc' = "fallback" /\ chosen' = Fallback
    ELSE pc' = "failed" /\ UNCHANGED chosen

DraftsIn ==
    /\ pc = "drafting" /\ \A s \in Proposers : Settled(s)
    /\ IF Economy /\ Cardinality(UsableSeats) > 1
       THEN /\ pc' = "voting"
            /\ Call(Proposers)
            /\ UNCHANGED chosen
       ELSE IF UsableSeats # {} THEN Submit(Min(UsableSeats), "review")
       ELSE Escalate /\ UNCHANGED <<calls, spent>>
    /\ UNCHANGED <<contest, maker, ballots, checked, aborted>>

WithVote(s, b) == [r \in DOMAIN ballots \union {s} |-> IF r = s THEN b ELSE ballots[r]]

(* A ballot may name any of the proposers, a spoilt one included.          *)
Votes(s) ==
    /\ pc = "voting" /\ s \in Proposers \ DOMAIN ballots
    /\ \E b \in { b \in Ballot : /\ b.vote \in Proposers \union {NoSeat}
                                 /\ ~b.ok => b = Lost
                                 /\ b.ok => b.confidence \in Confidences } :
         ballots' = WithVote(s, b)
    /\ UNCHANGED <<contest, pc, maker, chosen, checked, aborted, calls, spent>>

(* The winner is put forward if its candidate can be used; if it cannot,   *)
(* or nobody won, none of the others is.                                   *)
VotesIn ==
    /\ pc = "voting" /\ DOMAIN ballots = Proposers
    /\ ballots' = <<>>
    /\ LET winner == Tally(ballots, [s \in UsableSeats |-> "answer"], Clean).winner
       IN  IF winner \in UsableSeats THEN Submit(winner, "review")
           ELSE Escalate /\ UNCHANGED <<calls, spent>>
    /\ UNCHANGED <<contest, maker, checked, aborted>>

Verdicts ==
    [ of : {chosen}, candidate : {maker[chosen]}, says : BOOLEAN, erred : BOOLEAN ]

ReviewIn ==
    /\ pc = "review"
    /\ checked' \in Verdicts
    /\ IF Accepted(checked') THEN pc' = "passed" /\ UNCHANGED chosen ELSE Escalate
    /\ UNCHANGED <<contest, maker, ballots, aborted, calls, spent>>

(* Mutant: the candidate of the last resort needs no review.               *)
FallbackUnchecked ==
    /\ pc = "fallback" /\ Settled(Fallback)
    /\ pc' = IF maker[Fallback].pc = "made" /\ ~maker[Fallback].blank THEN "passed" ELSE "failed"
    /\ UNCHANGED <<contest, maker, ballots, chosen, checked, aborted, calls, spent>>

FallbackIn ==
    /\ pc = "fallback" /\ Settled(Fallback)
    /\ IF maker[Fallback].pc = "made" /\ ~maker[Fallback].blank
       THEN Submit(Fallback, "rereview") /\ UNCHANGED checked
       ELSE pc' = "failed" /\ checked' = NoReview /\ UNCHANGED <<chosen, calls, spent>>
    /\ UNCHANGED <<contest, maker, ballots, aborted>>

RereviewIn ==
    /\ pc = "rereview"
    /\ checked' \in Verdicts
    /\ pc' = IF Accepted(checked') THEN "passed" ELSE "failed"
    /\ UNCHANGED <<contest, maker, ballots, chosen, aborted, calls, spent>>

(* An abort stops nothing by itself: it is read where a step says so.      *)
Abort ==
    /\ ~aborted /\ pc \notin {"passed", "failed"}
    /\ aborted' = TRUE
    /\ UNCHANGED <<contest, pc, maker, ballots, chosen, checked, calls, spent>>

Produce(s) == Ask(s) \/ Fails(s) \/ AsksToRead(s) \/ Replies(s) \/ Reads(s) \/ Writes(s)

Step ==
    \/ Begin \/ DraftsIn \/ VotesIn \/ ReviewIn \/ FallbackIn \/ RereviewIn
    \/ \E s \in Seats : Produce(s) \/ Votes(s)

Next == Step \/ Abort

(* Every call to a seat ends, by its own time limit if by nothing else.    *)
Spec == Init /\ [][Next]_vars /\ WF_vars(Step)

-----------------------------------------------------------------------------
TypeOK ==
    /\ contest \in Contests
    /\ pc \in {"start", "drafting", "voting", "review", "fallback", "rereview",
               "passed", "failed"}
    /\ maker \in [Seats -> Maker]
    /\ DOMAIN ballots \subseteq Seats /\ \A s \in DOMAIN ballots : ballots[s] \in Ballot
    /\ chosen \in Seats \union {NoSeat}
    /\ checked \in [ of : Seats \union {NoSeat}, candidate : Maker, says : BOOLEAN,
                     erred : BOOLEAN ]
    /\ aborted \in BOOLEAN
    /\ calls \in [Seats -> Nat]
    /\ spent \in Nat

(* What a unit hands to the units after it is the candidate, as it is now, *)
(* that a paid seat accepted in a review that did not err, complete in the *)
(* tree of its seat; and the seat that reviewed is not the one that made   *)
(* it unless no other could be had for its part (swarm-contest.ts:35,      *)
(* 102-118).                                                               *)
OnlyAccepted ==
    /\ TypeOK
    /\ pc = "passed" /\ contest.profile # "propose" =>
         /\ checked.of = chosen /\ checked.candidate = maker[chosen]
         /\ ~checked.erred /\ checked.says
         /\ Reviewer \notin FreeSeats
         /\ maker[chosen].pc = "made" /\ ~maker[chosen].blank
         /\ Reviewer = chosen =>
              IF Economy THEN Paid = {Reviewer} ELSE contest.reviewers = {Reviewer}

(* A tree holds files of the unit's own list inside the granted roots, and *)
(* no more of them than a proposal may have; a candidate put forward for a *)
(* unit that has files has staged at least one and had none refused, one   *)
(* selected in a proposing round at least one; and a seat is shown no more *)
(* than the block holds (swarm-contest.ts:69-79, writes.ts:198-231,        *)
(* files.ts:240-268, select.ts:165-171).                                   *)
StagedWithin ==
    \A s \in Seats :
        /\ maker[s].written \subseteq contest.targets \intersect Granted
        /\ maker[s].chars <= MaxWriteTotal
        /\ maker[s].shown <= MaxTotalChars
        /\ s = chosen /\ pc \in {"review", "rereview", "passed"} /\ NeedsFiles =>
             /\ maker[s].written # {}
             /\ contest.profile # "propose" => maker[s].refused = {}

(* The calls of a contest stay within those the approved estimate counted: *)
(* under economy a candidate, a read and a vote for every free seat, and a *)
(* review, a candidate, its read and a second review for the paid ones;    *)
(* under fastest, where its seat is a paid one, a candidate, its read and  *)
(* one review (swarm.ts:344, 431-433).                                     *)
WithinEstimate ==
    /\ contest.profile = "economy" => spent <= 4 /\ \A s \in FreeSeats : calls[s] <= 3
    /\ contest.profile = "fastest" => spent <= 3

(* A free seat, and any seat of a proposing round, costs a candidate and a *)
(* vote, and a third call only for the one time it is shown the files it   *)
(* asked for.  The gate of a contest says so (swarm.ts:468); the one of a  *)
(* proposing round tells of two calls a seat and not of the third          *)
(* (propose.ts:148, 174), which is what this states instead.               *)
OneRead ==
    \A s \in Seats : s \in FreeSeats \/ contest.profile = "propose" =>
        calls[s] <= IF maker[s].reads THEN 3 ELSE 2

(* All three, in whatever order seats fail and the contest falls back.     *)
WithinBounds == StagedWithin /\ WithinEstimate /\ OneRead

(* The contest ends, with a candidate or without.                          *)
ContestEnds == <>(pc \in {"passed", "failed"})
=============================================================================
