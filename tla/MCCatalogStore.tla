---------------------------- MODULE MCCatalogStore ----------------------------
(* Two jobs of one batch, two callers, a clock that may stand still, move  *)
(* on or be set back.                                                      *)
EXTENDS CatalogStore, TLC

CONSTANTS b1, c1, c2

MCBatch == {b1}
MCClient == {c1, c2}
MCTime == {1, 2}
MCJob == {1, 2}
MCActions == {"start", "cancel"}
MCBatchActions == {"enqueue"}
Symmetric == Permutations(MCClient)
=============================================================================
