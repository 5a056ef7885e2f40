----------------------------- MODULE MCCronService -----------------------------
(***************************************************************************)
(* Instances of CronService: two jobs of one session, and the budgets of    *)
(* the runs.                                                                *)
(***************************************************************************)
EXTENDS CronService

CONSTANTS s1, j1, j2

MCSessionOf == [j \in Jobs |-> s1]

Once(kinds) == [k \in Kinds |-> IF k \in kinds THEN 1 ELSE 0]

(* Every kind of step, once each. *)
MCCalls == Once(Kinds)

(* Everything answers and every save succeeds. *)
MCQuiet == Once({"manual", "refuse", "restart"})

(* A deletion and nothing else. *)
MCDeletion == Once({"delete"})
================================================================================
