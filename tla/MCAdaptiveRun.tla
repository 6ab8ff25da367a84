----------------------------- MODULE MCAdaptiveRun -----------------------------
(* Two games a block, one a candidate, two candidates: a budget of four    *)
(* pays for two blocks, or for a block and a generation.                   *)
EXTENDS AdaptiveRun
=============================================================================
