------------------------------ MODULE MCPipeline ------------------------------
(* For TLC: two stages, with one worker each or two in one of them; a stage  *)
(* of piping1to01 and one of piping1toMany.                                  *)
EXTENDS PipelineProperties

TwoStages == {<<1, 1>>, <<2, 1>>, <<1, 2>>}
MaybeThenMany == <<{0, 1}, {1, 2}>>
=============================================================================
