-------------------------- MODULE MCPipelinePanel ---------------------------
(* The control over chains of two stages.                                  *)
EXTENDS PipelinePanel

TwoStages == {<<"council", "review">>}
=============================================================================
