--------------------------- MODULE MCPipelineWake ---------------------------
(* The wake of a hold in the chain that builds from a version.             *)
EXTENDS PipelineWake

BuildOrder == {<<"council", "propose", "swarm", "review">>}
=============================================================================
