----------------------------- MODULE MCResearch -----------------------------
(* Research over two included lanes and a metered one, with three queries  *)
(* that three seats want between them.                                     *)
EXTENDS Research

CONSTANTS x, y, z, w

MCSearches == 0..MaxQueries
MCSignalOf == [s \in MCSearches |-> "round"]
MCCapacity == [l \in Lanes |-> IF l = 2 THEN 2 ELSE 1]
MCReplies == { <<<<>>, <<>>>>, <<<<x>>, <<x>>>>, <<<<x, x, y, z>>, <<z, y>>, <<w>>>> }
=============================================================================
