----------------------------- MODULE MCSeatCall -----------------------------
(* A command with two spellings behind a local backend, one with a cap of  *)
(* its own, one that is not configured; a hosted seat that may fall silent *)
(* before its cap, and one that may not.                                   *)
EXTENDS SeatCall

MCSeats ==
    { [ transport |-> "cli", ready |-> TRUE, local |-> TRUE, spellings |-> 2,
        cap |-> 0, idle |-> 1 ],
      [ transport |-> "cli", ready |-> TRUE, local |-> FALSE, spellings |-> 1,
        cap |-> 2, idle |-> 1 ],
      [ transport |-> "cli", ready |-> FALSE, local |-> FALSE, spellings |-> 1,
        cap |-> 0, idle |-> 1 ],
      [ transport |-> "openrouter", ready |-> TRUE, local |-> TRUE, spellings |-> 1,
        cap |-> 5, idle |-> 2 ],
      [ transport |-> "openrouter", ready |-> TRUE, local |-> FALSE, spellings |-> 1,
        cap |-> 2, idle |-> 3 ] }
=============================================================================
