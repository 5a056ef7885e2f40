------------------------------ MODULE MCToolRound ------------------------------
(***************************************************************************)
(* An instance of ToolRound: a serial call with a request, then a batch of  *)
(* a call with two requests, one of them for the same resource as the       *)
(* serial call's, and a call the policy denies.                             *)
(***************************************************************************)
EXTENDS ToolRound

MCOwner == [r \in Request |-> IF r = 1 THEN 1 ELSE 2]
MCResource == [r \in Request |-> IF r = 3 THEN "other" ELSE "path"]
================================================================================
