---------------------------- MODULE MCCouncilRun ----------------------------
(* CouncilRun with the calls its tools make, and three seats.              *)
EXTENDS CouncilRun

Call(stored, skipPlan, vote, planOnly, research) ==
    [ stored |-> stored, skipPlan |-> skipPlan, vote |-> vote,
      planOnly |-> planOnly, research |-> research ]

(* A call stopped at the gate never skips its plan and never has one; one  *)
(* that was approved has; one approved in advance plans unless told not to.*)
MCCalls ==
    { Call(FALSE, FALSE, TRUE, TRUE, TRUE), Call(FALSE, FALSE, FALSE, TRUE, FALSE),
      Call(TRUE, FALSE, TRUE, FALSE, TRUE), Call(FALSE, FALSE, FALSE, FALSE, FALSE),
      Call(FALSE, TRUE, FALSE, FALSE, FALSE) }
=============================================================================
