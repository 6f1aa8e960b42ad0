--------------------------- MODULE MCTurnDelivery ---------------------------
(* TurnDelivery for TLC: turns are numbers, so the .cfg files give every     *)
(* constant its value.                                                       *)
EXTENDS TurnDelivery
=============================================================================
