--------------------------- MODULE MCUnitContest ----------------------------
(* ProposalRound, and with it UnitContest, over two or three free seats    *)
(* and up to two paid ones.                                                *)
EXTENDS ProposalRound

CONSTANTS a, b, out

Unit(profile, eligible, reviewers, targets) ==
    [ profile |-> profile, sequential |-> FALSE,
      assigned |-> IF profile = "economy" THEN 1 ELSE 3,
      eligible |-> eligible, reviewers |-> reviewers, targets |-> targets,
      roots |-> TRUE, files |-> TRUE, writes |-> TRUE ]

(* Every mix of paid seats, for a unit of two files; then units without    *)
(* files, without roots, one seat at a time, or with too few seats; then   *)
(* proposing rounds of three seats in turn, of two at once, and of none.   *)
MCContests ==
    { Unit("economy", {1, 2} \union paid, reviewers, {a, b}) :
        paid \in SUBSET {3, 4}, reviewers \in {{3}, {3, 4}} }
    \union
    { Unit("fastest", {1, 3, 4}, reviewers, {a, b}) : reviewers \in SUBSET {3, 4} }
    \union
    { [ Unit("economy", {1, 2, 4}, {3, 4}, {}) EXCEPT !.sequential = one, !.roots = roots ] :
        one \in BOOLEAN, roots \in BOOLEAN }
    \union
    { Unit("economy", {1, 2, 5, 4}, {3, 4}, {}), Unit("economy", {1, 3}, {3}, {}),
      [ Unit("economy", {1, 2, 3}, {3}, {a}) EXCEPT !.writes = FALSE ] }
    \union
    { Unit("propose", {1, 3}, {}, Files), Unit("propose", {}, {}, Files),
      [ Unit("propose", {1, 3, 4}, {}, Files) EXCEPT !.sequential = TRUE ],
      [ Unit("propose", {1, 3}, {}, Files) EXCEPT !.roots = FALSE ] }

Of(path, size) == [ path |-> path, size |-> size ]

MCWanted == { <<Of(a, 1), Of(b, 3), Of(out, 1)>>, <<Of(b, 3), Of(a, 3)>> }
MCProposals == { <<>>, <<Of(a, 2), Of(b, 1)>>, <<Of(a, 2), Of(b, 2)>>, <<Of(out, 1)>> }
=============================================================================
