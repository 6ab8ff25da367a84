----------------------------- MODULE MCTurnFlow -----------------------------
(* One match of N seats.                                                   *)
EXTENDS TurnFlow
=============================================================================
