----------------------------- MODULE MCSwarmRun -----------------------------
(* SwarmRun with graphs of up to three units and a handful of rosters.     *)
EXTENDS SwarmRun

CONSTANTS a, b, c, ghost

Plain(id, after) ==
    [ id |-> id, after |-> after, files |-> {}, acceptance |-> TRUE,
      kind |-> "code", tier |-> "general", provider |-> Nobody ]

(* Every way for three units to follow each other, themselves excepted.    *)
Shapes ==
    { <<Plain(a, A), Plain(b, B), Plain(c, C)>> :
        A \in SUBSET {b, c}, B \in SUBSET {a, c}, C \in SUBSET {a, b} }

(* Lists that are no graph, or are too long, or repeat an identifier.      *)
Odd ==
    { <<Plain(a, {}), Plain(a, {})>>, <<Plain(a, {}), Plain(b, {ghost})>>,
      <<Plain(a, {}), Plain(b, {b})>>, <<Plain(a, {b}), Plain(b, {}), Plain(a, {})>>,
      <<Plain(a, {}), Plain(b, {}), Plain(c, {}), Plain(ghost, {})>>, NoTasks }

(* Two units that differ in what the roster and the modes look at.         *)
Varied ==
    { << [ Plain(a, {}) EXCEPT !.files = {1}, !.provider = p, !.kind = k, !.tier = t ],
         [ Plain(b, {a}) EXCEPT !.files = {f}, !.acceptance = acc, !.provider = q ] >> :
        p \in {Nobody, 1, 2}, q \in {Nobody, 3}, k \in {"code", "review", "any"},
        t \in {"ui", "general"}, f \in {1, 2}, acc \in BOOLEAN }

MCReplies == Shapes \union Odd \union Varied

Seat(on, cost, kinds) == [ on |-> on, cost |-> cost, kinds |-> kinds ]
All == {"code", "review", "other", "any"}

MCRosters ==
    { <<Seat(TRUE, Free, All), Seat(TRUE, Included, All), Seat(TRUE, Free, All)>>,
      <<Seat(FALSE, Free, All), Seat(TRUE, Metered, {"code"}), Seat(TRUE, Metered, {"code"})>>,
      <<Seat(TRUE, Included, {"code", "review"}), Seat(FALSE, Free, All), Seat(TRUE, Metered, All)>>,
      <<Seat(FALSE, Included, All), Seat(FALSE, Metered, All), Seat(TRUE, Free, {"other"})>> }

(* A stored graph was checked, without a mode, when it was planned.        *)
MCCalls ==
    [ profile : Profiles, approved : BOOLEAN, sequential : BOOLEAN,
      picked : {Nobody, 2}, winner : {Nobody, 3}, stored : {FALSE}, graph : {NoTasks} ]
    \union
    [ profile : {"none", "fastest"}, approved : {TRUE}, sequential : {FALSE},
      picked : {Nobody}, winner : {Nobody}, stored : {TRUE},
      graph : { <<Plain(a, {}), Plain(b, {a}), Plain(c, {a})>>,
                <<Plain(a, {}), Plain(b, {}), Plain(c, {a, b})>> } ]
=============================================================================
