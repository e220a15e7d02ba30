--------------------------- MODULE MCApprovalGate ---------------------------
(* ApprovalGate on a small instance.  Ids and requests are interchangeable. *)
EXTENDS ApprovalGate, TLC

Interchangeable == Permutations(Plans) \union Permutations(Jobs)
=============================================================================
