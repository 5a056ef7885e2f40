-------------------------- MODULE MCRoundInjections --------------------------
(***************************************************************************)
(* An instance of RoundInjections: steering for the first and the second    *)
(* turn, a result of the first and an update of the goal.                     *)
(***************************************************************************)
EXTENDS RoundInjections

CONSTANTS p1, p2, r1, g1

MCKind == [m \in Message |-> CASE m \in {p1, p2} -> "steering"
                               [] m = r1 -> "result"
                               [] m = g1 -> "goal"]
MCAim == [m \in Message |-> CASE m \in {p1, r1} -> 1 [] m = p2 -> 2 [] OTHER -> NoTurn]
================================================================================
