----------------------------- MODULE MCPipeline -----------------------------
(* Pipeline on a small instance: a chain that builds from a version.       *)
EXTENDS Pipeline

BuildOrder == {<<"council", "propose", "swarm", "review">>}
Interchangeable == Permutations(Plans) \union Permutations(Graphs) \union Permutations(Runs)

(* States are told apart by what can still matter: not by the history of   *)
(* plans nothing refers to, the rest of a slot that holds no plan, the     *)
(* stage of a chain that is over, or the work of an abandoned one.         *)
Relevant ==
    << [g \in Gates |-> IF slot[g].pending = NoPlan THEN EmptySlot ELSE slot[g]],
       IF chain.id = NoRun THEN [NoChain EXCEPT !.picked = chain.picked, !.candidates = chain.candidates]
                           ELSE chain,
       [p \in Plans |-> IF Free(p) THEN Issued(NoPurpose) ELSE plan[p]],
       [r \in Runs |-> IF r \in {chain.id, call.state.id} THEN worked[r] ELSE {}],
       autoApprove, lastUserTurnAt, now, call, begun, restarts >>
=============================================================================
