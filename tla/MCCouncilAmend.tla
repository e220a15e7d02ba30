--------------------------- MODULE MCCouncilAmend ---------------------------
(* CouncilAmend with three seats and two callers that are alike.           *)
EXTENDS CouncilAmend, TLC

Alike == Permutations(Callers)
=============================================================================
