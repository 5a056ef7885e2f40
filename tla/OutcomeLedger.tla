----------------------------- MODULE OutcomeLedger -----------------------------
(***************************************************************************)
(* What the parent of background subagents relies on: a task it started    *)
(* settles once, with one outcome, and the outcome is handed to one turn.  *)
(* Rolling turns back removes the tasks they started and takes back the    *)
(* outcomes they were handed.                                              *)
(***************************************************************************)
CONSTANTS Task, Turn, NoTurn, Terminal

VARIABLES outcome,  \* "none", "running", a terminal status, or "gone"
          receiver  \* the turn an outcome was handed to, or NoTurn

Init ==
  /\ outcome = [t \in Task |-> "none"]
  /\ receiver = [t \in Task |-> NoTurn]

Start(t) ==
  /\ outcome[t] = "none"
  /\ outcome' = [outcome EXCEPT ![t] = "running"]
  /\ UNCHANGED receiver

(* Some running tasks settle together, as after a restart. *)
Settle(S) ==
  /\ \A t \in S : outcome[t] = "running"
  /\ \E f \in [S -> Terminal] :
       outcome' = [t \in Task |-> IF t \in S THEN f[t] ELSE outcome[t]]
  /\ UNCHANGED receiver

Hand(S, u) ==
  /\ \A t \in S : outcome[t] \in Terminal /\ receiver[t] = NoTurn
  /\ receiver' = [t \in Task |-> IF t \in S THEN u ELSE receiver[t]]
  /\ UNCHANGED outcome

(* The tasks of D are forgotten, the outcomes handed to the turns of U are
   free again. *)
RollBack(D, U) ==
  /\ outcome' = [t \in Task |-> IF t \in D THEN "gone" ELSE outcome[t]]
  /\ receiver' = [t \in Task |->
                    IF t \in D \/ receiver[t] \in U THEN NoTurn ELSE receiver[t]]

Next ==
  \/ \E t \in Task : Start(t)
  \/ \E S \in SUBSET Task : Settle(S) \/ \E u \in Turn : Hand(S, u)
  \/ \E D \in SUBSET Task, U \in SUBSET Turn :
       (\A t \in D : outcome[t] # "none") /\ RollBack(D, U)

Spec == Init /\ [][Next]_<<outcome, receiver>>
================================================================================
