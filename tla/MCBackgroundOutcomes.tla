-------------------------- MODULE MCBackgroundOutcomes --------------------------
(***************************************************************************)
(* Instances of BackgroundOutcomes: a task of the first turn and one of the *)
(* second, a wait for any task in the second turn and one for the first    *)
(* task in the third.                                                       *)
(***************************************************************************)
EXTENDS BackgroundOutcomes

CONSTANTS s1, s2, v1, v2

MCStartedIn == [t \in Task |-> IF t = s1 THEN 1 ELSE 2]
MCTurnOf == [w \in Wait |-> IF w = v1 THEN 2 ELSE 3]
MCAsked == [w \in Wait |-> IF w = v1 THEN {} ELSE {s1}]
================================================================================
