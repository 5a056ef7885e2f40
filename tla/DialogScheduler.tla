--------------------------- MODULE DialogScheduler ---------------------------
(***************************************************************************)
(* DialogScheduler of BitFun's core crate                                  *)
(* (assembly/core/src/agentic/coordination/scheduler.rs) together with the *)
(* part of ConversationCoordinator and SessionManager it drives.           *)
(*                                                                         *)
(* Concurrent parties:                                                     *)
(*   - callers that submit, cancel or maintain; each runs under the        *)
(*     session's operation lock (KeyedAsyncLock), which `op` stands for:   *)
(*     op[s] = NoOp when the lock of s is free, else the step its holder   *)
(*     has reached;                                                        *)
(*   - one spawned execution task per started turn (exec), which never     *)
(*     takes the operation lock;                                           *)
(*   - the single outcome handler task (handler), which takes the lock of  *)
(*     one session at a time and reads the bounded outcome channel.        *)
(*                                                                         *)
(* A turn belongs to one session (Home).  ReplyTurn[t] is the turn as      *)
(* which the automated reply to t is submitted in the requesting session;  *)
(* NoTurn when t has no reply route.                                       *)
(***************************************************************************)
EXTENDS DialogTurnQueue, FiniteSets

CONSTANTS Session, NoTurn,
          Home,            \* session of each turn
          ReplyTurn,       \* the reply owed for each turn, or NoTurn
          RejectIfBusy,    \* turns submitted with reject_if_busy
          ChannelCapacity, \* capacity of the outcome channel (128 in the code)
          MaxStartErrors,  \* bound: starts that fail before the session is touched
          MaxSaveErrors,   \* bound: starts and cancellations whose session cannot be saved
          MaxPanics,       \* bound: execution tasks that die without an outcome
          MaxCancels,      \* bound: cancellation requests
          MaxMaintenance   \* bound: maintenance requests

ASSUME SchedulerAssumption ==
  /\ NoTurn \notin Turn
  /\ Home \in [Turn -> Session]
  /\ ReplyTurn \in [Turn -> Turn \cup {NoTurn}]
  /\ RejectIfBusy \subseteq Turn
  /\ {ChannelCapacity, MaxStartErrors, MaxSaveErrors, MaxPanics, MaxCancels,
      MaxMaintenance} \subseteq Nat

VARIABLES
  state,        \* SessionState of each session; "Missing" when not loaded
  current,      \* current_turn_id of a Processing session
  queue,        \* queues
  active,       \* active_turns: the turn whose outcome the scheduler awaits
  op,           \* session_operation_locks and the holder's progress
  submitted,    \* turns handed to submit
  accepted,     \* turns whose submission was accepted (accept_settlement)
  exec,         \* execution task of each turn
  verdict,      \* how the execution of each turn ended
  signalled,    \* turns whose cancellation token has fired
  forsaken,     \* running turns that lost their session to a cancellation that
                \* failed before it fired the token
  outcomes,     \* outcome channel, oldest first
  handler,      \* outcome handler task
  retired,      \* retired_maintenance_outcomes
  suppressed,   \* suppressed_cancelled_replies
  cancelEvents, \* turns with a DialogTurnCancelled event emitted by the scheduler
  used          \* how much of each bound has been used

vars == <<state, current, queue, active, op, submitted, accepted, exec, verdict,
          signalled, forsaken, outcomes, handler, retired, suppressed, cancelEvents, used>>

States   == {"Missing", "Idle", "Processing", "Error"}
Verdicts == {"Completed", "Cancelled", "Failed"}
Budgets  == {"startErrors", "saveErrors", "panics", "cancels", "maintenance"}
Budget   == [startErrors |-> MaxStartErrors, saveErrors |-> MaxSaveErrors,
             panics |-> MaxPanics, cancels |-> MaxCancels,
             maintenance |-> MaxMaintenance]

NoOp == [kind |-> "none", turn |-> NoTurn, by |-> "caller", queued |-> FALSE]
IdleHandler == [pc |-> "idle", turn |-> NoTurn, matched |-> FALSE]

(* The turns submitted by the outcome handler only. *)
Replies == {ReplyTurn[t] : t \in Turn} \ {NoTurn}

Init ==
  /\ state = [s \in Session |-> "Idle"]
  /\ current = [s \in Session |-> NoTurn]
  /\ queue = [s \in Session |-> <<>>]
  /\ active = [s \in Session |-> NoTurn]
  /\ op = [s \in Session |-> NoOp]
  /\ submitted = {}
  /\ accepted = {}
  /\ exec = [t \in Turn |-> "none"]
  /\ verdict = [t \in Turn |-> "none"]
  /\ signalled = {}
  /\ forsaken = {}
  /\ outcomes = <<>>
  /\ handler = IdleHandler
  /\ retired = {}
  /\ suppressed = {}
  /\ cancelEvents = {}
  /\ used = [b \in Budgets |-> 0]

Spend(b) == used[b] < Budget[b] /\ used' = [used EXCEPT ![b] = @ + 1]

(***************************************************************************)
(* Pieces shared by the operations that hold the lock of session s.        *)
(***************************************************************************)
Free(s) == op[s] = NoOp

StartOp(t, by, queued) ==
  [kind |-> "start", turn |-> t, by |-> by, queued |-> queued]

BeginStart(s, t, by, queued) == op' = [op EXCEPT ![s] = StartOp(t, by, queued)]

(* clear_queue: every cleared turn gets its DialogTurnCancelled event. *)
ClearQueue(s) ==
  /\ queue' = [queue EXCEPT ![s] = <<>>]
  /\ cancelEvents' = cancelEvents \cup ToSet(queue[s])

(* ConversationCoordinator::cancel_dialog_turn: the session becomes Idle   *)
(* only if t still owns it; the token of a live execution fires.  The wait *)
(* for the execution to drain is best effort and changes no state.         *)
SignalCancel(s, t) ==
  /\ IF state[s] = "Processing" /\ current[s] = t
     THEN /\ state' = [state EXCEPT ![s] = "Idle"]
          /\ current' = [current EXCEPT ![s] = NoTurn]
     ELSE UNCHANGED <<state, current>>
  /\ signalled' = IF exec[t] = "running" THEN signalled \cup {t} ELSE signalled
  /\ UNCHANGED forsaken

(* Its error path: the session is Idle in memory, save_session_state fails, and
   `?` leaves before the token fires. *)
CancelUnsaved(s) ==
  /\ state[s] = "Processing"
  /\ state' = [state EXCEPT ![s] = "Idle"]
  /\ current' = [current EXCEPT ![s] = NoTurn]
  /\ forsaken' = forsaken \cup {t \in {current[s]} : exec[t] = "running"}
  /\ UNCHANGED signalled

(* update_session_state_for_turn_if_processing and                         *)
(* reset_session_state_if_processing: only the turn that owns the session  *)
(* moves it out of Processing.  The mutant forgets to compare turn ids.    *)
ReleaseSessionOfAnyTurn(t, new) ==
  LET s == Home[t] IN
  IF state[s] = "Processing"
  THEN /\ state' = [state EXCEPT ![s] = new]
       /\ current' = [current EXCEPT ![s] = NoTurn]
  ELSE UNCHANGED <<state, current>>

ReleaseSession(t, new) ==
  LET s == Home[t] IN
  IF state[s] = "Processing" /\ current[s] = t
  THEN /\ state' = [state EXCEPT ![s] = new]
       /\ current' = [current EXCEPT ![s] = NoTurn]
  ELSE UNCHANGED <<state, current>>

(***************************************************************************)
(* submit_queued_turn_locked.                                              *)
(***************************************************************************)
StateFact(s) == IF active[s] # NoTurn THEN "Processing" ELSE state[s]

(* resolve_dialog_submit_queue_action *)
QueueAction(s) ==
  CASE StateFact(s) = "Missing"    -> "StartImmediately"
    [] StateFact(s) = "Error"      -> "ClearQueueAndStartImmediately"
    [] StateFact(s) = "Processing" -> "EnqueueForActiveTurn"
    [] StateFact(s) = "Idle"       -> IF queue[s] # <<>> THEN "EnqueueThenStartNext"
                                                         ELSE "StartImmediately"

SubmitStarts(s, t, by) ==
  /\ QueueAction(s) = "StartImmediately"
  /\ BeginStart(s, t, by, FALSE)
  /\ UNCHANGED <<queue, accepted, cancelEvents>>

SubmitClearsAndStarts(s, t, by) ==
  /\ QueueAction(s) = "ClearQueueAndStartImmediately"
  /\ ClearQueue(s)
  /\ BeginStart(s, t, by, FALSE)
  /\ UNCHANGED accepted

Refused(s, t) == t \in RejectIfBusy \/ Full(queue[s])

SubmitEnqueues(s, t) ==
  /\ QueueAction(s) = "EnqueueForActiveTurn"
  /\ ~Refused(s, t)
  /\ queue' = [queue EXCEPT ![s] = Enqueue(queue[s], t)]
  /\ accepted' = accepted \cup {t}
  /\ UNCHANGED <<op, cancelEvents>>

(* Enqueue, then try_start_next_queued_locked in the same critical section. *)
SubmitEnqueuesAndStartsNext(s, t, by) ==
  /\ QueueAction(s) = "EnqueueThenStartNext"
  /\ ~Refused(s, t)
  /\ LET q == Enqueue(queue[s], t) IN
       /\ queue' = [queue EXCEPT ![s] = Dequeue(q)]
       /\ BeginStart(s, Head(q), by, TRUE)
  /\ accepted' = accepted \cup {t}
  /\ UNCHANGED cancelEvents

SubmitRefused(s, t) ==
  /\ QueueAction(s) \in {"EnqueueForActiveTurn", "EnqueueThenStartNext"}
  /\ Refused(s, t)
  /\ UNCHANGED <<op, queue, accepted, cancelEvents>>

SubmitLocked(s, t, by) ==
  /\ t \notin submitted
  /\ Free(s)
  /\ submitted' = submitted \cup {t}
  /\ \/ SubmitStarts(s, t, by)
     \/ SubmitClearsAndStarts(s, t, by)
     \/ SubmitEnqueues(s, t)
     \/ SubmitEnqueuesAndStartsNext(s, t, by)
     \/ SubmitRefused(s, t)
  /\ UNCHANGED <<state, current, active, exec, verdict, signalled, forsaken, outcomes,
                 retired, suppressed, used>>

Submit(t) ==
  /\ t \notin Replies
  /\ SubmitLocked(Home[t], t, "caller")
  /\ UNCHANGED handler

(***************************************************************************)
(* start_turn: the coordinator's start_dialog_turn, then the insertion     *)
(* into active_turns, all under the operation lock of s.                   *)
(***************************************************************************)
Starting(s) == op[s].kind = "start"

(* Where the outcome handler goes after the reply: Completed and Cancelled
   dispatch the next queued turn (resolve_turn_outcome_lifecycle_plan).  The
   mutant dispatches after Completed only. *)
AfterReplyOfCompleted ==
  [handler EXCEPT !.pc = IF verdict[handler.turn] = "Completed" THEN "dispatch" ELSE "idle"]

AfterReply ==
  [handler EXCEPT !.pc = IF verdict[handler.turn] = "Failed" THEN "idle" ELSE "dispatch"]

HandlerResumes(s) ==
  handler' = IF op[s].by # "handler" THEN handler
             ELSE IF handler.pc = "awaitReply" THEN AfterReply ELSE IdleHandler

ReleaseLock(s) == op' = [op EXCEPT ![s] = NoOp] /\ HandlerResumes(s)

(* The error path of try_start_next_queued_locked; a direct start has no   *)
(* queued turn to put back.  The mutant loses the dequeued turn.           *)
PutBackNothing(s) == queue' = queue

PutBack(s) ==
  queue' = IF op[s].queued
           THEN [queue EXCEPT ![s] = RequeueFront(queue[s], op[s].turn)] ELSE queue

(* start_dialog_turn returns Err before it touches the session: validation,
   restore, a session that no longer exists or that is still Processing. *)
StartRejected(s) ==
  /\ Starting(s)
  /\ IF state[s] \in {"Missing", "Processing"} THEN UNCHANGED used
                                            ELSE Spend("startErrors")
  /\ PutBack(s)
  /\ ReleaseLock(s)
  /\ UNCHANGED <<state, current, active, submitted, accepted, exec, verdict,
                 signalled, forsaken, outcomes, retired, suppressed, cancelEvents>>

(* start_persisted_turn sets Processing, then save_session or
   save_dialog_turn fails: nothing sets the state back. *)
StartSaveFails(s) ==
  /\ Starting(s)
  /\ state[s] \in {"Idle", "Error"}
  /\ Spend("saveErrors")
  /\ state' = [state EXCEPT ![s] = "Processing"]
  /\ current' = [current EXCEPT ![s] = op[s].turn]
  /\ PutBack(s)
  /\ ReleaseLock(s)
  /\ UNCHANGED <<active, submitted, accepted, exec, verdict, signalled, forsaken, outcomes,
                 retired, suppressed, cancelEvents>>

(* The session becomes Processing, the execution task is spawned. *)
StartSpawns(s) ==
  /\ Starting(s)
  /\ state[s] \in {"Idle", "Error"}
  /\ state' = [state EXCEPT ![s] = "Processing"]
  /\ current' = [current EXCEPT ![s] = op[s].turn]
  /\ exec' = [exec EXCEPT ![op[s].turn] = "running"]
  /\ op' = [op EXCEPT ![s].kind = "record"]
  /\ UNCHANGED <<queue, active, submitted, accepted, verdict, signalled, forsaken, outcomes,
                 handler, retired, suppressed, cancelEvents, used>>

(* active_turns.insert, which replaces whatever entry the session had. *)
StartRecorded(s) ==
  /\ op[s].kind = "record"
  /\ active' = [active EXCEPT ![s] = op[s].turn]
  /\ accepted' = accepted \cup {op[s].turn}
  /\ ReleaseLock(s)
  /\ UNCHANGED <<state, current, queue, submitted, exec, verdict, signalled, forsaken,
                 outcomes, retired, suppressed, cancelEvents, used>>

(***************************************************************************)
(* The execution task of turn t.                                           *)
(***************************************************************************)
(* execute_dialog_turn returns and persist_*_dialog_turn moves the session
   out of Processing if t still owns it. *)
Finish(t, v) ==
  /\ exec[t] = "running"
  /\ v = "Cancelled" => t \in signalled
  /\ exec' = [exec EXCEPT ![t] = "closing"]
  /\ verdict' = [verdict EXCEPT ![t] = v]
  /\ ReleaseSession(t, IF v = "Failed" THEN "Error" ELSE "Idle")
  /\ UNCHANGED <<queue, active, op, submitted, accepted, signalled, forsaken, outcomes,
                 handler, retired, suppressed, cancelEvents, used>>

(* try_send on the bounded channel: a full channel drops the outcome.  The
   mutant does not report cancelled turns. *)
SendUnlessCancelled(t) ==
  outcomes' = IF verdict[t] = "Cancelled" THEN outcomes ELSE Append(outcomes, t)

Send(t) ==
  outcomes' = IF Len(outcomes) < ChannelCapacity THEN Append(outcomes, t) ELSE outcomes

Report(t) ==
  /\ exec[t] = "closing"
  /\ exec' = [exec EXCEPT ![t] = "reported"]
  /\ Send(t)
  /\ UNCHANGED <<state, current, queue, active, op, submitted, accepted, verdict,
                 signalled, forsaken, handler, retired, suppressed, cancelEvents, used>>

(* SessionExecutionGuard::drop on the normal path. *)
Drain(t) ==
  /\ exec[t] = "reported"
  /\ exec' = [exec EXCEPT ![t] = "done"]
  /\ ReleaseSession(t, "Idle")
  /\ UNCHANGED <<queue, active, op, submitted, accepted, verdict, signalled, forsaken, outcomes,
                 handler, retired, suppressed, cancelEvents, used>>

(* The task panics: only SessionExecutionGuard::drop runs. *)
Panic(t) ==
  /\ exec[t] = "running"
  /\ Spend("panics")
  /\ exec' = [exec EXCEPT ![t] = "done"]
  /\ ReleaseSession(t, "Idle")
  /\ UNCHANGED <<queue, active, op, submitted, accepted, verdict, signalled, forsaken, outcomes,
                 handler, retired, suppressed, cancelEvents>>

(***************************************************************************)
(* run_outcome_handler, one outcome at a time.                             *)
(***************************************************************************)
HandlerReceive ==
  /\ handler.pc = "idle"
  /\ outcomes # <<>>
  /\ handler' = [pc |-> "take", turn |-> Head(outcomes), matched |-> FALSE]
  /\ outcomes' = Tail(outcomes)
  /\ UNCHANGED <<state, current, queue, active, op, submitted, accepted, exec, verdict,
                 signalled, forsaken, retired, suppressed, cancelEvents, used>>

(* The suppression mark of t is taken whatever becomes of its outcome.  The
   mutant leaves it behind. *)
KeepMark(t) == UNCHANGED suppressed

TakeMark(t) == suppressed' = suppressed \ {t}

(* take_active_turn_for_outcome: another turn is the active one.  The mutant
   has no DifferentTurn case. *)
NeverStale(t) == FALSE

Stale(t) == active[Home[t]] \notin {t, NoTurn}

AtTake(t) == handler.pc = "take" /\ handler.turn = t /\ Free(Home[t])

(* The outcome was retired by maintenance. *)
TakeRetired(t) ==
  /\ AtTake(t)
  /\ t \in retired
  /\ retired' = retired \ {t}
  /\ TakeMark(t)
  /\ handler' = IdleHandler
  /\ UNCHANGED <<queue, active, cancelEvents>>

(* Another turn is active: the outcome is ignored as stale. *)
TakeStale(t) ==
  /\ AtTake(t)
  /\ t \notin retired
  /\ Stale(t)
  /\ TakeMark(t)
  /\ handler' = IdleHandler
  /\ UNCHANGED <<queue, active, retired, cancelEvents>>

(* The turn is the active one, or none is; a failure clears the queue. *)
TakeCurrent(t) ==
  /\ AtTake(t)
  /\ t \notin retired
  /\ ~Stale(t)
  /\ active' = [active EXCEPT ![Home[t]] = NoTurn]
  /\ handler' = [handler EXCEPT !.pc = "settle", !.matched = (active[Home[t]] = t)]
  /\ IF verdict[t] = "Failed" THEN ClearQueue(Home[t])
                              ELSE UNCHANGED <<queue, cancelEvents>>
  /\ UNCHANGED <<retired, suppressed>>

HandlerTake ==
  /\ \E t \in Turn : TakeRetired(t) \/ TakeStale(t) \/ TakeCurrent(t)
  /\ UNCHANGED <<state, current, op, submitted, accepted, exec, verdict, signalled, forsaken,
                 outcomes, used>>

(* Without the lock: take the suppression mark and resolve the reply action
   (resolve_agent_session_reply_action). *)
HandlerSettle ==
  /\ handler.pc = "settle"
  /\ LET t == handler.turn
         owed == handler.matched /\ ReplyTurn[t] # NoTurn
         skipped == verdict[t] = "Cancelled" /\ t \in suppressed
     IN /\ handler' = IF owed /\ ~skipped THEN [handler EXCEPT !.pc = "reply"] ELSE AfterReply
        /\ TakeMark(t)
  /\ UNCHANGED <<state, current, queue, active, op, submitted, accepted, exec, verdict,
                 signalled, forsaken, outcomes, retired, cancelEvents, used>>

(* forward_agent_session_reply: a submission to the requesting session. *)
HandlerForwards ==
  /\ handler.pc = "reply"
  /\ LET r == ReplyTurn[handler.turn] IN
       /\ SubmitLocked(Home[r], r, "handler")
       /\ handler' = IF op'[Home[r]].kind = "start"
                     THEN [handler EXCEPT !.pc = "awaitReply"] ELSE AfterReply

(* dispatch_next_if_idle -> try_start_next_queued -> .._locked *)
HandlerDispatches ==
  /\ handler.pc = "dispatch"
  /\ LET s == Home[handler.turn] IN
       /\ Free(s)
       /\ IF state[s] = "Processing" \/ queue[s] = <<>>
          THEN handler' = IdleHandler /\ UNCHANGED <<queue, op>>
          ELSE /\ queue' = [queue EXCEPT ![s] = Dequeue(@)]
               /\ BeginStart(s, Head(queue[s]), "handler", TRUE)
               /\ handler' = [handler EXCEPT !.pc = "awaitStart"]
  /\ UNCHANGED <<state, current, active, submitted, accepted, exec, verdict, signalled, forsaken,
                 outcomes, retired, suppressed, cancelEvents, used>>

(***************************************************************************)
(* Cancellation.                                                           *)
(***************************************************************************)
(* cancel_queued_or_active_turn *)
CancelQueued(t) ==
  /\ Free(Home[t])
  /\ t \in ToSet(queue[Home[t]])
  /\ Spend("cancels")
  /\ queue' = [queue EXCEPT ![Home[t]] = RemoveTurn(@, t)]
  /\ cancelEvents' = cancelEvents \cup {t}
  /\ UNCHANGED <<state, current, active, op, submitted, accepted, exec, verdict,
                 signalled, forsaken, outcomes, handler, retired, suppressed>>

CancelActive(t) ==
  /\ Free(Home[t])
  /\ t \notin ToSet(queue[Home[t]])
  /\ active[Home[t]] = t
  /\ Spend("cancels")
  /\ SignalCancel(Home[t], t)
  /\ UNCHANGED <<queue, active, op, submitted, accepted, exec, verdict, outcomes,
                 handler, retired, suppressed, cancelEvents>>

(* The turn whose cancelled reply requester r would suppress. *)
SuppressionKey(s, r) ==
  {t \in {active[s]} \ {NoTurn} : ReplyTurn[t] # NoTurn /\ Home[ReplyTurn[t]] = r}

(* cancel_active_turn_for_session (no requester: r = s) and
   cancel_active_turn_for_session_from_requester.  `timedOut`: the execution
   was still registered with the engine at the deadline. *)
CancelSession(s, r, timedOut) ==
  /\ Free(s)
  /\ Spend("cancels")
  /\ IF state[s] = "Processing"
     THEN /\ timedOut => exec[current[s]] = "running"
          /\ SignalCancel(s, current[s])
          /\ suppressed' = IF timedOut THEN suppressed \ SuppressionKey(s, r)
                                       ELSE suppressed \cup SuppressionKey(s, r)
     ELSE /\ ~timedOut
          /\ suppressed' = suppressed \ SuppressionKey(s, r)
          /\ UNCHANGED <<state, current, signalled, forsaken>>
  /\ UNCHANGED <<queue, active, op, submitted, accepted, exec, verdict, outcomes,
                 handler, retired, cancelEvents>>

(* The same requests, and begin_session_maintenance, when the cancellation
   cannot save the session: the suppression mark is cleared again, maintenance
   has already cleared the queue, and the lock is released. *)
CancelFails(s) ==
  /\ Free(s)
  /\ Spend("saveErrors")
  /\ CancelUnsaved(s)
  /\ \/ UNCHANGED <<queue, suppressed, cancelEvents>>
     \/ \E r \in Session : suppressed' = suppressed \ SuppressionKey(s, r)
        /\ UNCHANGED <<queue, cancelEvents>>
     \/ ClearQueue(s) /\ UNCHANGED suppressed
  /\ UNCHANGED <<active, op, submitted, accepted, exec, verdict, outcomes, handler,
                 retired>>

(***************************************************************************)
(* begin_session_maintenance and the permit it returns.                    *)
(***************************************************************************)
(* wait_session_drained and ensure_session_execution_drained: no execution of
   the session is registered.  The mutant lets tasks that still close pass. *)
NoneRunning(s) == \A t \in Turn : Home[t] = s => exec[t] # "running"

Drained(s) == \A t \in Turn : Home[t] = s => exec[t] \in {"none", "done"}

MaintenanceBegins(s) ==
  /\ Free(s)
  /\ Spend("maintenance")
  /\ ClearQueue(s)
  /\ IF state[s] = "Processing" THEN SignalCancel(s, current[s])
                                ELSE UNCHANGED <<state, current, signalled, forsaken>>
  /\ op' = [op EXCEPT ![s] = [NoOp EXCEPT !.kind = "drain"]]
  /\ UNCHANGED <<active, submitted, accepted, exec, verdict, outcomes, handler,
                 retired, suppressed>>

(* retire_active_turn_for_maintenance: what becomes a tombstone. *)
RetiredTurn(s) == {active[s]} \ {NoTurn}

(* The drain succeeded; the active turn is retired and the permit returned. *)
MaintenanceGranted(s) ==
  /\ op[s].kind = "drain"
  /\ Drained(s)
  /\ active' = [active EXCEPT ![s] = NoTurn]
  /\ retired' = retired \cup RetiredTurn(s)
  /\ TakeMark(active[s])
  /\ op' = [op EXCEPT ![s].kind = "permit"]
  /\ UNCHANGED <<state, current, queue, submitted, accepted, exec, verdict, signalled, forsaken,
                 outcomes, handler, cancelEvents, used>>

(* A deadline passes while the execution still runs: Err, lock released. *)
MaintenanceTimesOut(s) ==
  /\ op[s].kind = "drain"
  /\ ~Drained(s)
  /\ op' = [op EXCEPT ![s] = NoOp]
  /\ UNCHANGED <<state, current, queue, active, submitted, accepted, exec, verdict,
                 signalled, forsaken, outcomes, handler, retired, suppressed, cancelEvents, used>>

(* The caller drops the permit; a deletion has removed the session. *)
MaintenanceEnds(s, deleted) ==
  /\ op[s].kind = "permit"
  /\ op' = [op EXCEPT ![s] = NoOp]
  /\ state' = IF deleted THEN [state EXCEPT ![s] = "Missing"] ELSE state
  /\ UNCHANGED <<current, queue, active, submitted, accepted, exec, verdict, signalled, forsaken,
                 outcomes, handler, retired, suppressed, cancelEvents, used>>

(* A session is created again under the same explicit id. *)
CreateSession(s) ==
  /\ state[s] = "Missing"
  /\ state' = [state EXCEPT ![s] = "Idle"]
  /\ UNCHANGED <<current, queue, active, op, submitted, accepted, exec, verdict,
                 signalled, forsaken, outcomes, handler, retired, suppressed, cancelEvents, used>>

--------------------------------------------------------------------------------
StartStep(s) == StartRejected(s) \/ StartSaveFails(s) \/ StartSpawns(s) \/ StartRecorded(s)

ExecStep(t) == (\E v \in Verdicts : Finish(t, v)) \/ Report(t) \/ Drain(t)

HandlerStep ==
  \/ HandlerReceive \/ HandlerTake \/ HandlerSettle \/ HandlerForwards
  \/ HandlerDispatches

CancelStep ==
  \/ \E t \in Turn : CancelQueued(t) \/ CancelActive(t)
  \/ \E s, r \in Session, timedOut \in BOOLEAN : CancelSession(s, r, timedOut)
  \/ \E s \in Session : CancelFails(s)

MaintenanceStep(s) ==
  \/ MaintenanceBegins(s) \/ MaintenanceGranted(s) \/ MaintenanceTimesOut(s)
  \/ \E deleted \in BOOLEAN : MaintenanceEnds(s, deleted)
  \/ CreateSession(s)

Next ==
  \/ \E t \in Turn : Submit(t) \/ ExecStep(t) \/ Panic(t)
  \/ \E s \in Session : StartStep(s) \/ MaintenanceStep(s)
  \/ HandlerStep
  \/ CancelStep

Spec == Init /\ [][Next]_vars

(* Fairness: tokio runs every ready task, the engine's executions end (the
   model round loop is bounded and its calls time out), the operation lock is
   fair, and maintenance waits are bounded by a deadline. *)
Fairness ==
  /\ \A t \in Turn : WF_vars(ExecStep(t))
  /\ \A s \in Session :
       /\ WF_vars(StartSpawns(s)) /\ WF_vars(StartRecorded(s))
       /\ WF_vars(StartRejected(s) /\ state[s] \in {"Missing", "Processing"})
       /\ WF_vars(MaintenanceGranted(s) \/ MaintenanceTimesOut(s))
       /\ WF_vars(\E deleted \in BOOLEAN : MaintenanceEnds(s, deleted))
  /\ WF_vars(HandlerReceive \/ HandlerSettle)
  /\ SF_vars(HandlerTake) /\ SF_vars(HandlerForwards) /\ SF_vars(HandlerDispatches)

FairSpec == Spec /\ Fairness

(***************************************************************************)
(* Properties.                                                             *)
(***************************************************************************)
(* What the scheduler still has to dispatch in s, the turn being started   *)
(* from the queue first.                                                   *)
Pending(s) ==
  IF op[s].kind = "start" /\ op[s].queued THEN <<op[s].turn>> \o queue[s] ELSE queue[s]

(* The outcome of t is still to reach the outcome handler. *)
OutcomePending(t) ==
  \/ exec[t] \in {"running", "closing"}
  \/ t \in ToSet(outcomes)
  \/ handler.pc = "take" /\ handler.turn = t

OpKinds == {"none", "start", "record", "drain", "permit"}
HandlerPcs == {"idle", "take", "settle", "reply", "awaitReply", "dispatch", "awaitStart"}

(* Every variable keeps its type. *)
TypeOK ==
  /\ state \in [Session -> States]
  /\ current \in [Session -> Turn \cup {NoTurn}]
  /\ queue \in [Session -> Seq(Turn)]
  /\ active \in [Session -> Turn \cup {NoTurn}]
  /\ op \in [Session -> [kind : OpKinds, turn : Turn \cup {NoTurn},
                         by : {"caller", "handler"}, queued : BOOLEAN]]
  /\ submitted \subseteq Turn
  /\ accepted \subseteq Turn
  /\ exec \in [Turn -> {"none", "running", "closing", "reported", "done"}]
  /\ verdict \in [Turn -> Verdicts \cup {"none"}]
  /\ signalled \subseteq Turn
  /\ forsaken \subseteq Turn
  /\ outcomes \in Seq(Turn)
  /\ handler \in [pc : HandlerPcs, turn : Turn \cup {NoTurn}, matched : BOOLEAN]
  /\ retired \subseteq Turn
  /\ suppressed \subseteq Turn
  /\ cancelEvents \subseteq Turn
  /\ used \in [Budgets -> Nat]

(* A turn whose execution runs and has not been told to stop owns its
   session, which is Processing that turn, unless a cancellation failed
   halfway.  Two such turns of one session, which would write the same
   conversation, therefore never overlap, although execution tasks take no
   lock and a start does not wait for the previous task beyond 800 ms. *)
RunningOwnsSession ==
  \A t \in Turn : exec[t] = "running" /\ t \notin signalled \cup forsaken =>
                    state[Home[t]] = "Processing" /\ current[Home[t]] = t

(* A turn starts next to an earlier execution of its session only when that
   one has been told to stop (cancel_dialog_turn relies "on the cancellation
   token already being signalled") or its cancellation failed before that. *)
OverlapOnlyStopped ==
  \A t, u \in Turn :
    /\ exec[t] = "running" /\ exec[u] = "running" /\ Home[t] = Home[u]
    /\ {t, u} \cap (signalled \cup forsaken) = {}
    => t = u

(* The limit of 20 counts the turn that is being started from the queue:
   requeue_front, which does not look at the limit, cannot exceed it because
   the operation lock covers dequeue, start and requeue. *)
QueueWithinLimit == \A s \in Session : Len(Pending(s)) <= MaxDepth

(* Higher priority before lower, also after a failed start was put back at
   the front. *)
QueueByPriority == \A s \in Session : ByPriority(Pending(s))

(* FIFO within a priority, also across failed starts: no turn gets ahead of
   one that was already waiting in its session, except a newcomer of strictly
   higher priority. *)
QueueFifo ==
  [][\A s \in Session : \A t \in ToSet(Pending(s)) : \A u \in Turn :
       Before(Pending(s)', u, t) =>
         \/ Before(Pending(s), u, t)
         \/ u \notin ToSet(Pending(s)) /\ Priority[u] > Priority[t]]_vars

(* A turn waits in one place only: it is not queued twice, and not queued
   while it starts or after it was started or cancelled. *)
QueuedOnce ==
  \A s \in Session :
    /\ \A i, j \in 1..Len(Pending(s)) : Pending(s)[i] = Pending(s)[j] => i = j
    /\ \A t \in ToSet(Pending(s)) :
         Home[t] = s /\ exec[t] = "none" /\ t \notin cancelEvents

(* No accepted turn disappears silently: it waits, starts, has an execution,
   or has been announced as cancelled. *)
NoSilentLoss ==
  \A t \in accepted :
    \/ exec[t] # "none"
    \/ t \in cancelEvents
    \/ t \in ToSet(Pending(Home[t]))

(* The scheduler waits only for outcomes that are on their way; otherwise the
   session would queue every later submission and dispatch none. *)
ActiveHasOutcome == \A s \in Session : active[s] # NoTurn => OutcomePending(active[s])

(* A suppression mark or a retirement tombstone is only kept for an outcome
   that is still to come, so it can never hit a later turn. *)
MarksHaveOutcome ==
  /\ \A t \in retired : OutcomePending(t)
  /\ \A t \in suppressed :
       OutcomePending(t) \/ (handler.pc = "settle" /\ handler.turn = t)

(* The maintenance permit excludes every other activity of the session. *)
PermitExcludesTurns ==
  \A s \in Session : op[s].kind = "permit" =>
    /\ \A t \in Turn : Home[t] = s => exec[t] \in {"none", "done"}
    /\ queue[s] = <<>> /\ active[s] = NoTurn /\ state[s] # "Processing"

(* The failure of an earlier turn never cancels what waits behind a later one:
   when an outcome clears the queue, no execution of the session is left
   running, except one that was told to stop. *)
FailureSparesRunning ==
  [][\A s \in Session :
       (handler.pc = "take" /\ handler'.pc # "take" /\ queue[s] # queue'[s])
         => \A t \in Turn : Home[t] = s /\ exec[t] = "running" =>
                             t \in signalled \cup forsaken]_vars

(* A queued turn is dispatched or cancelled in the end. *)
QueuedLeaves ==
  \A t \in Turn : (t \in ToSet(queue[Home[t]])) ~> (t \notin ToSet(queue[Home[t]]))

(* The scheduler does not wait for a turn for ever: the entry a started turn
   leaves in active_turns goes away, by its outcome, by maintenance or by the
   next turn.  The handler needs the operation lock for it, which callers hold
   while they wait for executions to drain. *)
ActiveSettles == \A t \in Turn : (active[Home[t]] = t) ~> (active[Home[t]] # t)

(* What is left of the sessions without locks, states, channel and handler
   behaves as SessionTurns says. *)
Line    == [s \in Session |-> Pending(s)]
Running == {t \in Turn : exec[t] = "running"}
Stopped == signalled \cup forsaken
Ended   == {t \in Turn : exec[t] \in {"closing", "reported", "done"}}

Turns == INSTANCE SessionTurns WITH
  line <- Line, running <- Running, stopped <- Stopped, ended <- Ended,
  cancelled <- cancelEvents

ImplementsSessionTurns == Turns!Spec
================================================================================
