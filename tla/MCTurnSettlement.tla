--------------------------- MODULE MCTurnSettlement ---------------------------
(* An instance of TurnSettlement for TLC: three submissions share one id. *)
EXTENDS TurnSettlement

CONSTANTS k1, k2, u1, u2, u3, u4

MCKeyOf == [u \in Sub |-> IF u = u2 THEN k2 ELSE k1]
================================================================================
