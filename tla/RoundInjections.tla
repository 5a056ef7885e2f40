---------------------------- MODULE RoundInjections ----------------------------
(***************************************************************************)
(* The messages that reach a turn while it runs: the user's steering         *)
(* (submit_steering), the results of background work                       *)
(* (deliver_background_result) and updates of the thread goal                *)
(* (deliver_thread_goal_objective_updated), of one session.  They wait in    *)
(* SessionRoundInjectionBuffer; the running turn takes them between two     *)
(* model rounds (execution_engine.rs), and the scheduler's outcome handler   *)
(* drops what a finished turn has left (coordination/scheduler.rs).         *)
(*                                                                         *)
(* A delivery reads the session's state and then pushes: two steps, since    *)
(* neither the end of a turn nor the handler's drop takes the lock of the   *)
(* delivery.  A follow-up turn is submitted as DialogScheduler models it.    *)
(***************************************************************************)
EXTENDS Integers, Sequences

CONSTANTS
  Turns,    \* number of turns of the session, numbered in starting order
  Message,  \* what is delivered
  Kind,     \* "steering", "result" or "goal", of each message
  Aim,      \* the turn a steering message is for, the parent turn of a
            \* result or NoTurn when it names none
  NoTurn, AnyTurn

Turn == 1..Turns

ASSUME InjectionsAssumption ==
  /\ Turns \in Nat
  /\ Kind \in [Message -> {"steering", "result", "goal"}]
  /\ Aim \in [Message -> Turn \cup {NoTurn}]
  /\ NoTurn \notin Turn /\ AnyTurn \notin Turn /\ NoTurn # AnyTurn

VARIABLES
  current,   \* the turn the session is processing, or NoTurn
  started,   \* the turns started are 1..started
  pc,        \* progress of each turn: "new", "round", "ending", "over"
  completed, \* turns that ended with an answer
  cancelled, \* turns whose cancellation token has fired
  outcomes,  \* outcomes the handler has not handled
  handled,   \* turns whose outcome has been handled
  buffer,    \* what waits in SessionRoundInjectionBuffer for the session
  fate,      \* what has become of each message
  target,    \* the target an injection was given
  given,     \* the messages injected into each turn
  shown      \* those of them a model round has been given

turns == <<current, started, pc, completed, cancelled, outcomes, handled, shown>>
messages == <<buffer, fate, target, given>>
vars == <<turns, messages>>

Fate == {"new", "rejected", "followup", "checked", "buffered", "injected", "dropped"}

Init ==
  /\ current = NoTurn /\ started = 0
  /\ pc = [t \in Turn |-> "new"]
  /\ completed = {} /\ cancelled = {} /\ handled = {}
  /\ outcomes = <<>> /\ buffer = {}
  /\ fate = [m \in Message |-> "new"]
  /\ target = [m \in Message |-> NoTurn]
  /\ given = [t \in Turn |-> {}]
  /\ shown = [t \in Turn |-> {}]

--------------------------------------------------------------------------------
(* A delivery looks at the session. *)
Decide(m, f, t) ==
  /\ fate[m] = "new"
  /\ fate' = [fate EXCEPT ![m] = f]
  /\ target' = [target EXCEPT ![m] = t]
  /\ UNCHANGED <<turns, buffer, given>>

SubmitSteering(m) ==
  /\ Kind[m] = "steering"
  /\ IF current = Aim[m] /\ current # NoTurn THEN Decide(m, "checked", current)
     ELSE Decide(m, "rejected", NoTurn)

(* A result whose parent turn is not the running one becomes a follow-up.
   The mutant hands it to the running turn. *)
DeliverToCurrent(m) ==
  /\ Kind[m] = "result"
  /\ IF current # NoTurn THEN Decide(m, "checked", current)
     ELSE Decide(m, "followup", NoTurn)

DeliverResult(m) ==
  /\ Kind[m] = "result"
  /\ IF current # NoTurn /\ Aim[m] \in {current, NoTurn} THEN Decide(m, "checked", current)
     ELSE Decide(m, "followup", NoTurn)

DeliverGoal(m) ==
  /\ Kind[m] = "goal"
  /\ IF current # NoTurn THEN Decide(m, "checked", AnyTurn)
     ELSE Decide(m, "followup", NoTurn)

(* SessionRoundInjectionBuffer::push *)
Push(m) ==
  /\ fate[m] = "checked"
  /\ fate' = [fate EXCEPT ![m] = "buffered"]
  /\ buffer' = buffer \cup {m}
  /\ UNCHANGED <<turns, target, given>>

(* drain_for_turn takes what is eligible for turn t and keeps the rest.  The
   mutant takes everything. *)
AnyEligible(m, t) == t \in Turn
Eligible(m, t) == target[m] \in {t, AnyTurn}

Taken(t) == {m \in buffer : Eligible(m, t)}

Drain(t, f) ==
  /\ buffer' = buffer \ Taken(t)
  /\ fate' = [m \in Message |-> IF m \in Taken(t) THEN f ELSE fate[m]]

--------------------------------------------------------------------------------
(* The session's next turn starts; the execution of a cancelled one may still
   be winding down. *)
Start(t) ==
  /\ t = started + 1 /\ current = NoTurn
  /\ started' = t /\ current' = t
  /\ pc' = [pc EXCEPT ![t] = "round"]
  /\ UNCHANGED <<messages, completed, cancelled, outcomes, handled, shown>>

(* The end of a round: what waits is injected, and then the turn goes on; or
   nothing waited and the model's answer ends it, whether or not it has been
   cancelled meanwhile; or the cancellation is seen.  The mutant ends the turn
   with its answer whatever was injected. *)
AnswerAnyway(t) ==
  \/ /\ t \notin cancelled
     /\ UNCHANGED <<pc, completed>>
  \/ /\ pc' = [pc EXCEPT ![t] = "ending"]
     /\ completed' = completed \cup {t}

Continue(t) ==
  \/ /\ t \notin cancelled
     /\ UNCHANGED <<pc, completed>>
  \/ /\ Taken(t) = {}
     /\ pc' = [pc EXCEPT ![t] = "ending"]
     /\ completed' = completed \cup {t}
  \/ /\ t \in cancelled
     /\ pc' = [pc EXCEPT ![t] = "ending"]
     /\ UNCHANGED completed

EndRound(t) ==
  /\ pc[t] = "round"
  /\ shown' = [shown EXCEPT ![t] = given[t]]
  /\ given' = [given EXCEPT ![t] = @ \cup Taken(t)]
  /\ Drain(t, "injected")
  /\ Continue(t)
  /\ UNCHANGED <<current, started, cancelled, outcomes, handled, target>>

(* Repeated tool failures or the limit of rounds: a last round without tools
   answers, and nothing is taken after it. *)
FinalizeRound(t) ==
  /\ pc[t] = "round"
  /\ shown' = [shown EXCEPT ![t] = given[t]]
  /\ pc' = [pc EXCEPT ![t] = "ending"]
  /\ completed' = completed \cup {t}
  /\ UNCHANGED <<messages, current, started, cancelled, outcomes, handled>>

(* The round fails or is cancelled: nothing is taken. *)
BreakRound(t) ==
  /\ pc[t] = "round"
  /\ pc' = [pc EXCEPT ![t] = "ending"]
  /\ UNCHANGED <<messages, current, started, completed, cancelled, outcomes, handled, shown>>

(* The turn is finalized: the session becomes idle, unless it has moved on,
   and the outcome is sent. *)
Finish(t) ==
  /\ pc[t] = "ending"
  /\ pc' = [pc EXCEPT ![t] = "over"]
  /\ current' = IF current = t THEN NoTurn ELSE current
  /\ outcomes' = Append(outcomes, t)
  /\ UNCHANGED <<messages, started, completed, cancelled, handled, shown>>

(* cancel_dialog_turn: the session is idle before the execution ends. *)
Cancel(t) ==
  /\ current = t
  /\ current' = NoTurn
  /\ cancelled' = cancelled \cup {t}
  /\ UNCHANGED <<messages, started, pc, completed, outcomes, handled, shown>>

(* run_outcome_handler: every branch drops what the finished turn has left.
   The mutant forgets to. *)
HandleAndKeep ==
  /\ outcomes # <<>>
  /\ outcomes' = Tail(outcomes)
  /\ handled' = handled \cup {Head(outcomes)}
  /\ UNCHANGED <<current, started, pc, completed, cancelled, shown, messages>>

HandleOutcome ==
  /\ outcomes # <<>>
  /\ outcomes' = Tail(outcomes)
  /\ handled' = handled \cup {Head(outcomes)}
  /\ Drain(Head(outcomes), "dropped")
  /\ UNCHANGED <<current, started, pc, completed, cancelled, shown, target, given>>

(* retire_active_turn_for_maintenance: every execution has ended, the outcome
   of the active turn may still be in the channel. *)
Retire(t) ==
  /\ \A u \in Turn : pc[u] \in {"new", "over"}
  /\ t = started /\ t \in Turn \ handled
  /\ Drain(t, "dropped")
  /\ UNCHANGED <<turns, target, given>>

--------------------------------------------------------------------------------
Deliver(m) == SubmitSteering(m) \/ DeliverResult(m) \/ DeliverGoal(m)

Execution(t) == EndRound(t) \/ FinalizeRound(t) \/ BreakRound(t) \/ Finish(t)

Next ==
  \/ \E m \in Message : Deliver(m) \/ Push(m)
  \/ \E t \in Turn : Start(t) \/ Execution(t) \/ Cancel(t) \/ Retire(t)
  \/ HandleOutcome

Spec == Init /\ [][Next]_vars

(* Executions and the handler are polled; a delivery that has looked pushes.
   A turn may go on for ever as long as its rounds end. *)
FairSpec ==
  /\ Spec
  /\ WF_vars(HandleOutcome)
  /\ \A m \in Message : WF_vars(Push(m))
  /\ \A t \in Turn : WF_vars(EndRound(t)) /\ WF_vars(Finish(t))

--------------------------------------------------------------------------------
(* Every variable has its type. *)
TypeOK ==
  /\ current \in Turn \cup {NoTurn}
  /\ started \in 0..Turns
  /\ pc \in [Turn -> {"new", "round", "ending", "over"}]
  /\ completed \subseteq Turn /\ cancelled \subseteq Turn /\ handled \subseteq Turn
  /\ outcomes \in Seq(Turn)
  /\ buffer \subseteq Message
  /\ fate \in [Message -> Fate]
  /\ target \in [Message -> Turn \cup {NoTurn, AnyTurn}]
  /\ given \in [Turn -> SUBSET Message]
  /\ shown \in [Turn -> SUBSET Message]

(* Whatever overlaps, a steering message is only given to the turn it is for,
   a result only to its parent turn when it names one, and an update of the
   goal to any turn; and no message is given to two turns, or given after it
   has been dropped, rejected or made a follow-up. *)
ReachesItsTurn ==
  \A t \in Turn : \A m \in given[t] :
    /\ fate[m] = "injected"
    /\ Kind[m] # "goal" => Aim[m] \in {t, NoTurn}
    /\ \A u \in Turn : m \in given[u] => u = t

(* A message for one turn outlives the end of every other turn, also when the
   outcome of an earlier turn is handled after the next has begun. *)
OthersKept ==
  [][\A m \in Message :
       /\ fate[m] = "buffered" /\ fate'[m] # "buffered" /\ target[m] \in Turn
       => /\ fate'[m] = "injected" => pc[target[m]] = "round"
          /\ fate'[m] = "dropped" => pc[target[m]] = "over"]_vars

(* A turn does not complete with a message no model round has been given. *)
InjectedIsShown == \A t \in completed : shown[t] = given[t]

(* A message that is buffered while its turn has not been wound up is given
   to the turn or dropped with it. *)
BufferedLeaves ==
  \A m \in Message :
    fate[m] = "buffered" /\ target[m] \in Turn \ handled ~> fate[m] # "buffered"

(* deliver_background_result: "Deliver a completed background result back to
   the parent session", into the running turn or as a turn of its own. *)
ResultNotDropped == \A m \in Message : Kind[m] = "result" => fate[m] # "dropped"
================================================================================
