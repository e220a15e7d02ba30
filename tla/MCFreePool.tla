----------------------------- MODULE MCFreePool -----------------------------
(* FreePool on small instances; liveness is checked, so no symmetry.       *)
EXTENDS FreePool
=============================================================================
