--------------------------- MODULE BackgroundOutcomes ---------------------------
(***************************************************************************)
(* Background subagents of one parent session: the rows of the coordination *)
(* database (coordination_store.rs), the results kept in memory and the    *)
(* waits for them (background_outcomes.rs), and the calls that start, run  *)
(* and cancel a task (coordinator.rs).  Rows and the child turns persisted *)
(* by the sessions survive a restart, everything else does not.            *)
(*                                                                         *)
(* Every statement or transaction of the database is one step; so is what  *)
(* a call does between two awaits.  A wait is one call of the AgentWait     *)
(* tool, whose calls run one after the other within a turn; waits of        *)
(* different turns may overlap while a cancelled turn winds down.  A        *)
(* "partial_timeout" is a completion like any other here.                   *)
(***************************************************************************)
EXTENDS Naturals, FiniteSets

CONSTANTS
  Task,       \* calls of start_background_subagent
  Wait,       \* calls of the AgentWait tool
  Turn, NoTurn, \* turns of the parent, by their index
  StartedIn,  \* the turn that starts each task
  TurnOf,     \* the turn that makes each wait
  Asked,      \* the tasks each wait names; none means every task not handed over
  Ending,     \* what the subagents' executions result in
  AnyMode,    \* the waits with wait_mode "any"
  Faulty,     \* the kinds of faults that happen, each at most once
  MaxFaults,  \* bound: faults in total
  MaxCalls    \* bound: tasks started and waits begun, in total

(* The process is restarted; a statement of the database fails; a wait, or a
   call that starts or cancels a task, is dropped; turns are rolled back. *)
FaultKind == {"restart", "db", "wait_cancel", "drop", "rollback"}

Terminal == {"completed", "failed", "cancelled", "interrupted"}

ASSUME OutcomesAssumption ==
  /\ Turn \subseteq Nat /\ NoTurn \notin Turn
  /\ StartedIn \in [Task -> Turn]
  /\ TurnOf \in [Wait -> Turn]
  /\ Asked \in [Wait -> SUBSET Task]
  /\ Ending \subseteq {"completed", "failed", "cancelled"}
  /\ AnyMode \subseteq Wait
  /\ Faulty \subseteq FaultKind
  /\ MaxFaults \in Nat /\ MaxCalls \in Nat

VARIABLES
  status,     \* rows: "absent", "running" or a terminal status
  owner,      \* rows: the execution that registered the task
  delivered,  \* rows: the turn the outcome was handed to, or NoTurn
  child,      \* the persisted child turn: "open" (none, or in progress) or how it ended
  epoch,      \* the execution (execution_owner_token) of this process
  live,       \* live_results, "none" when a task has no entry
  runner,     \* progress of each start call and of the task it spawns
  result,     \* what the spawned task received, "none" before
  control,    \* tasks in background_subagent_tasks
  suppressed, \* tasks whose suppress_delivery is set
  canceller,  \* progress of a cancel call: "none", "claimed", "won"
  purging,    \* tasks a rollback has deleted but not yet removed from live
  rolled,     \* turns rolled back
  wpc,        \* progress of each wait
  selected,   \* the tasks each wait selected
  outcomes,   \* the outcomes each wait collected, "none" where it has none
  debounce,   \* the debounce timer of each wait: "none", "set", "due"
  late,       \* waits whose deadline has passed
  woken,      \* waits whose Notified future was completed
  verdict,    \* the status each wait is about to return, or returned
  faults      \* the kinds of faults that have happened

rows == <<status, owner, delivered>>
tasks == <<runner, result, control, suppressed, canceller, child>>
waits == <<wpc, selected, outcomes, debounce, late, verdict>>
vars == <<rows, tasks, waits, woken, live, epoch, purging, rolled, faults>>

Fault(k) ==
  /\ k \in Faulty \ faults
  /\ Cardinality(faults) < MaxFaults
  /\ faults' = faults \cup {k}

Init ==
  /\ status = [t \in Task |-> "absent"]
  /\ owner = [t \in Task |-> 0]
  /\ delivered = [t \in Task |-> NoTurn]
  /\ child = [t \in Task |-> "open"]
  /\ epoch = 1
  /\ live = [t \in Task |-> "none"]
  /\ runner = [t \in Task |-> "idle"]
  /\ result = [t \in Task |-> "none"]
  /\ control = {} /\ suppressed = {}
  /\ canceller = [t \in Task |-> "none"]
  /\ purging = {} /\ rolled = {}
  /\ wpc = [w \in Wait |-> "idle"]
  /\ selected = [w \in Wait |-> {}]
  /\ outcomes = [w \in Wait |-> [t \in Task |-> "none"]]
  /\ debounce = [w \in Wait |-> "none"]
  /\ late = {} /\ woken = {}
  /\ verdict = [w \in Wait |-> "none"]
  /\ faults = {}

NoOutcomes == [t \in Task |-> "none"]

Active(w) == wpc[w] \notin {"idle", "done"}

Begun(t) == runner[t] # "idle"

Called(w) == wpc[w] # "idle"

RoomForCall ==
  Cardinality({t \in Task : Begun(t)}) + Cardinality({w \in Wait : Called(w)}) < MaxCalls

(* Notify::notify_waiters completes the Notified futures made so far; the
   mutant is notify_one. *)
Waiting == {w \in Wait : wpc[w] \in {"armed", "sleeping"}}

NotifyOne ==
  IF Waiting = {} THEN UNCHANGED woken ELSE \E w \in Waiting : woken' = woken \cup {w}

NotifyWaiters == woken' = Waiting

(* UPDATE background_tasks SET status = s WHERE task_pk = t AND status =
   'running'.  The mutant is an update without the last condition. *)
UpdateAnyStatus(t, s) ==
  status' = IF status[t] # "absent" THEN [status EXCEPT ![t] = s] ELSE status

UpdateTaskStatus(t, s) ==
  status' = IF status[t] = "running" THEN [status EXCEPT ![t] = s] ELSE status

--------------------------------------------------------------------------------
(* start_background_subagent: the row is written before the submission. *)
Register(t) ==
  /\ runner[t] = "idle" /\ StartedIn[t] \notin rolled /\ RoomForCall
  /\ status' = [status EXCEPT ![t] = "running"]
  /\ owner' = [owner EXCEPT ![t] = epoch]
  /\ runner' = [runner EXCEPT ![t] = "registered"]
  /\ NotifyWaiters
  /\ UNCHANGED <<delivered, child, result, control, suppressed, canceller,
                 waits, live, epoch, purging, rolled, faults>>

(* The submission is accepted: the control is registered and the task that
   receives the result is spawned. *)
Submit(t) ==
  /\ runner[t] = "registered"
  /\ runner' = [runner EXCEPT ![t] = "running"]
  /\ control' = control \cup {t}
  /\ UNCHANGED <<rows, child, result, suppressed, canceller, waits,
                 woken, live, epoch, purging, rolled, faults>>

(* The submission is refused: discard deletes the row, unless the database
   fails, which is only logged. *)
SubmitFails(t) ==
  /\ runner[t] = "registered"
  /\ runner' = [runner EXCEPT ![t] = "done"]
  /\ live' = [live EXCEPT ![t] = "none"]
  /\ \/ /\ status' = [status EXCEPT ![t] = "absent"]
        /\ NotifyWaiters
        /\ UNCHANGED faults
     \/ Fault("db") /\ UNCHANGED <<status, woken>>
  /\ UNCHANGED <<owner, delivered, child, result, control, suppressed, canceller,
                 waits, epoch, purging, rolled>>

(* The tool call that starts the task is cancelled meanwhile: its future is
   dropped where it stands. *)
StartDropped(t) ==
  /\ runner[t] = "registered"
  /\ Fault("drop")
  /\ runner' = [runner EXCEPT ![t] = "done"]
  /\ UNCHANGED <<rows, child, result, control, suppressed, canceller,
                 waits, woken, live, epoch, purging, rolled>>

(* How the child turn may have been persisted when the result r arrives. *)
Persisted(r) ==
  CASE r = "completed" -> {"completed"}
    [] r = "failed" -> {"error", "open"}
    [] r = "cancelled" -> {"cancelled", "open"}

(* The subagent ends and the spawned task receives its result. *)
Finish(t) ==
  /\ runner[t] = "running"
  /\ \E r \in Ending : \E c \in Persisted(r) :
       /\ result' = [result EXCEPT ![t] = r]
       /\ child' = [child EXCEPT ![t] = c]
  /\ runner' = [runner EXCEPT ![t] = "finished"]
  /\ UNCHANGED <<rows, control, suppressed, canceller, waits, woken,
                 live, epoch, purging, rolled, faults>>

(* The spawned task looks at suppress_delivery once, before it completes. *)
CheckSuppress(t) ==
  /\ runner[t] = "finished"
  /\ IF t \in suppressed
       THEN /\ runner' = [runner EXCEPT ![t] = "done"]
            /\ result' = [result EXCEPT ![t] = "none"]
            /\ control' = control \ {t}
            /\ suppressed' = suppressed \ {t}
       ELSE /\ runner' = [runner EXCEPT ![t] = "checked"]
            /\ UNCHANGED <<result, control, suppressed>>
  /\ UNCHANGED <<rows, child, canceller, waits, woken, live, epoch, purging, rolled,
                 faults>>

(* complete, its update of the row; an error is only logged. *)
Complete(t) ==
  /\ runner[t] = "checked"
  /\ \/ /\ UpdateTaskStatus(t, result[t])
        /\ runner' = [runner EXCEPT ![t] =
                        IF status[t] = "running" THEN "won" ELSE "announcing"]
        /\ UNCHANGED faults
     \/ /\ Fault("db")
        /\ runner' = [runner EXCEPT ![t] = "announcing"]
        /\ UNCHANGED status
  /\ UNCHANGED <<owner, delivered, child, result, control, suppressed, canceller,
                 waits, woken, live, epoch, purging, rolled>>

(* complete, after an update that changed the row. *)
Publish(t) ==
  /\ runner[t] = "won"
  /\ live' = [live EXCEPT ![t] = result[t]]
  /\ NotifyWaiters
  /\ runner' = [runner EXCEPT ![t] = "announcing"]
  /\ UNCHANGED <<rows, child, result, control, suppressed, canceller,
                 waits, epoch, purging, rolled, faults>>

(* The output is also submitted as a turn of the parent session, whose queue is
   DialogScheduler's; the task is over. *)
Announce(t) ==
  /\ runner[t] = "announcing"
  /\ result' = [result EXCEPT ![t] = "none"]
  /\ control' = control \ {t}
  /\ suppressed' = suppressed \ {t}
  /\ runner' = [runner EXCEPT ![t] = "done"]
  /\ UNCHANGED <<rows, child, canceller, waits, woken, live, epoch, purging, rolled,
                 faults>>

--------------------------------------------------------------------------------
(* cancel_background_subagents_for_parent: the control is claimed and the
   subagent told to stop; the row follows.  The mutant leaves the row to the
   spawned task. *)
ClaimAndForget(t) ==
  /\ t \in control /\ canceller[t] = "none"
  /\ control' = control \ {t}
  /\ suppressed' = suppressed \cup {t}
  /\ UNCHANGED <<rows, child, runner, result, canceller, waits, woken, live, epoch,
                 purging, rolled, faults>>

ClaimControl(t) ==
  /\ t \in control /\ canceller[t] = "none"
  /\ control' = control \ {t}
  /\ suppressed' = suppressed \cup {t}
  /\ canceller' = [canceller EXCEPT ![t] = "claimed"]
  /\ UNCHANGED <<rows, child, runner, result, waits, woken, live,
                 epoch, purging, rolled, faults>>

CancelRow(t) ==
  /\ canceller[t] = "claimed"
  /\ \/ /\ UpdateTaskStatus(t, "cancelled")
        /\ IF status[t] = "running"
             THEN canceller' = [canceller EXCEPT ![t] = "won"] /\ UNCHANGED woken
             ELSE canceller' = [canceller EXCEPT ![t] = "none"] /\ NotifyWaiters
        /\ UNCHANGED faults
     \/ /\ Fault("db")
        /\ canceller' = [canceller EXCEPT ![t] = "none"]
        /\ NotifyWaiters
        /\ UNCHANGED status
  /\ UNCHANGED <<owner, delivered, child, runner, result, control, suppressed,
                 waits, live, epoch, purging, rolled>>

CancelLive(t) ==
  /\ canceller[t] = "won"
  /\ live' = [live EXCEPT ![t] = "cancelled"]
  /\ canceller' = [canceller EXCEPT ![t] = "none"]
  /\ NotifyWaiters
  /\ UNCHANGED <<rows, child, runner, result, control, suppressed,
                 waits, epoch, purging, rolled, faults>>

(* The tool call that cancels the task is itself cancelled and dropped. *)
CancelDropped(t) ==
  /\ canceller[t] # "none"
  /\ Fault("drop")
  /\ canceller' = [canceller EXCEPT ![t] = "none"]
  /\ UNCHANGED <<rows, child, runner, result, control, suppressed,
                 waits, woken, live, epoch, purging, rolled>>

(* The process ends and is started again. *)
Restart ==
  /\ Fault("restart")
  /\ epoch' = epoch + 1
  /\ live' = [t \in Task |-> "none"]
  /\ runner' = [t \in Task |-> IF runner[t] = "idle" THEN "idle" ELSE "done"]
  /\ result' = [t \in Task |-> "none"]
  /\ control' = {} /\ suppressed' = {} /\ purging' = {} /\ woken' = {}
  /\ canceller' = [t \in Task |-> "none"]
  /\ wpc' = [w \in Wait |-> IF wpc[w] = "idle" THEN "idle" ELSE "done"]
  /\ verdict' = [w \in Wait |-> IF Active(w) THEN "lost" ELSE verdict[w]]
  /\ outcomes' = [w \in Wait |-> IF Active(w) THEN NoOutcomes ELSE outcomes[w]]
  /\ UNCHANGED <<rows, child, rolled, selected, debounce, late>>

(* rollback_parent_turns of a turn and those after it, all ended: the database
   first, the results in memory after it. *)
TurnsFrom(k) ==
  {u \in Turn : /\ u >= k
                /\ \/ \E t \in Task : Begun(t) /\ StartedIn[t] = u
                   \/ \E w \in Wait : Called(w) /\ TurnOf[w] = u}

RollBack(S) ==
  /\ Fault("rollback")
  /\ S # {} /\ purging = {}
  /\ \A w \in Wait : Active(w) => TurnOf[w] \notin S
  /\ \A t \in Task : runner[t] = "registered" => StartedIn[t] \notin S
  /\ LET deleted == {t \in Task : status[t] # "absent" /\ StartedIn[t] \in S} IN
       /\ status' = [t \in Task |-> IF t \in deleted THEN "absent" ELSE status[t]]
       /\ delivered' = [t \in Task |->
            IF t \in deleted \/ delivered[t] \in S THEN NoTurn ELSE delivered[t]]
       /\ purging' = deleted
       /\ IF deleted = {} THEN NotifyWaiters ELSE UNCHANGED woken
  /\ rolled' = rolled \cup S
  /\ UNCHANGED <<owner, tasks, waits, live, epoch>>

PurgeLive ==
  /\ purging # {}
  /\ live' = [t \in Task |-> IF t \in purging THEN "none" ELSE live[t]]
  /\ purging' = {}
  /\ NotifyWaiters
  /\ UNCHANGED <<rows, tasks, waits, epoch, rolled, faults>>

--------------------------------------------------------------------------------
(* The status reconcile_stale_running_tasks gives a task of an earlier process.
   The mutant takes an unfinished child turn for a finished one. *)
TakenAsDone(t) ==
  CASE child[t] \in {"completed", "open"} -> "completed"
    [] child[t] = "error" -> "failed"
    [] child[t] = "cancelled" -> "cancelled"

Reconciled(t) ==
  CASE child[t] = "completed" -> "completed"
    [] child[t] = "error" -> "failed"
    [] child[t] = "cancelled" -> "cancelled"
    [] child[t] = "open" -> "interrupted"

Stale(t) == status[t] = "running" /\ owner[t] # epoch

Answer(w, v) ==
  /\ wpc' = [wpc EXCEPT ![w] = "done"]
  /\ verdict' = [verdict EXCEPT ![w] = v]

(* wait_for begins: it settles what earlier processes left running.  The
   updates are one step: nobody else writes the rows of a process that is gone
   but another wait, which would write the same. *)
StartWait(w) ==
  /\ wpc[w] = "idle" /\ TurnOf[w] \notin rolled /\ RoomForCall
  /\ \A v \in Wait : TurnOf[v] = TurnOf[w] => ~Active(v)
  /\ \/ /\ status' = [t \in Task |-> IF Stale(t) THEN Reconciled(t) ELSE status[t]]
        /\ NotifyWaiters
        /\ wpc' = [wpc EXCEPT ![w] = "selecting"]
        /\ UNCHANGED <<verdict, faults>>
     \/ /\ Fault("db")
        /\ Answer(w, "error")
        /\ UNCHANGED <<status, woken>>
  /\ UNCHANGED <<owner, delivered, tasks, selected, outcomes, debounce, late, live,
                 epoch, purging, rolled>>

Candidates(w) ==
  {t \in Task : /\ status[t] # "absent" /\ delivered[t] = NoTurn
                /\ Asked[w] = {} \/ t \in Asked[w]}

(* wait_candidates; the set of tasks of this wait is fixed from here on.  Each
   round of its loop begins with a new Notified future ("armed"), before the
   rows are read. *)
Select(w) ==
  /\ wpc[w] = "selecting"
  /\ \/ /\ \A t \in Asked[w] : status[t] # "absent"
        /\ Candidates(w) # {}
        /\ selected' = [selected EXCEPT ![w] = Candidates(w)]
        /\ wpc' = [wpc EXCEPT ![w] = "armed"]
        /\ UNCHANGED <<verdict, faults>>
     \/ /\ \A t \in Asked[w] : status[t] # "absent"
        /\ Candidates(w) = {}
        /\ Answer(w, "no_matching_tasks")
        /\ UNCHANGED <<selected, faults>>
     \/ /\ \E t \in Asked[w] : status[t] = "absent"
        /\ Answer(w, "error")
        /\ UNCHANGED <<selected, faults>>
     \/ Fault("db") /\ Answer(w, "error") /\ UNCHANGED selected
  /\ UNCHANGED <<rows, tasks, outcomes, debounce, late, woken, live, epoch, purging,
                 rolled>>

Waitable(t) == status[t] \in Terminal /\ delivered[t] = NoTurn

(* collect_available, outcome_from_record: the result in memory goes before
   what the row says. *)
Available(w) ==
  [t \in Task |-> IF t \in selected[w] /\ Waitable(t)
                    THEN IF live[t] # "none" THEN live[t] ELSE status[t]
                    ELSE "none"]

Found(o) == {t \in Task : o[t] # "none"}

Pending(w) == \E t \in selected[w] : status[t] = "running" /\ delivered[t] = NoTurn

(* The debounce timer after this look at the rows; it is not set twice.  The
   mutant sets it again at every look. *)
DebouncedAgain(w) ==
  IF w \in AnyMode /\ Found(Available(w)) # {} THEN "set" ELSE debounce[w]

Debounced(w) ==
  IF w \in AnyMode /\ debounce[w] = "none" /\ Found(Available(w)) # {}
    THEN "set" ELSE debounce[w]

(* wake_at has passed: the debounce timer counts instead of the deadline. *)
TimeIsUp(w) == IF Debounced(w) = "none" THEN w \in late ELSE Debounced(w) = "due"

(* One look at the rows and what follows from it. *)
Collect(w) ==
  /\ wpc[w] = "armed"
  /\ outcomes' = [outcomes EXCEPT ![w] = Available(w)]
  /\ \/ /\ Found(Available(w)) # {} /\ ~Pending(w)
        /\ wpc' = [wpc EXCEPT ![w] = "claiming"]
        /\ verdict' = [verdict EXCEPT ![w] = "completed"]
        /\ UNCHANGED debounce
     \/ /\ Found(Available(w)) = {} \/ Pending(w)
        /\ debounce' = [debounce EXCEPT ![w] = Debounced(w)]
        /\ \/ /\ ~TimeIsUp(w)
              /\ wpc' = [wpc EXCEPT ![w] = "sleeping"]
              /\ UNCHANGED verdict
           \/ /\ TimeIsUp(w) /\ Found(Available(w)) = {}
              /\ Answer(w, "timed_out")
           \/ /\ TimeIsUp(w) /\ Found(Available(w)) # {}
              /\ wpc' = [wpc EXCEPT ![w] = "claiming"]
              /\ \E v \in {"completed"} \cup (IF w \in late THEN {"timed_out"} ELSE {}) :
                   verdict' = [verdict EXCEPT ![w] = v]
  /\ UNCHANGED <<rows, tasks, selected, late, woken, live, epoch, purging, rolled,
                 faults>>

(* A read of the database fails: the wait returns the error. *)
CollectFails(w) ==
  /\ wpc[w] \in {"armed", "claiming"}
  /\ Fault("db")
  /\ Answer(w, "error")
  /\ outcomes' = [outcomes EXCEPT ![w] = NoOutcomes]
  /\ UNCHANGED <<rows, tasks, selected, debounce, late, woken, live, epoch, purging,
                 rolled>>

(* The select of the loop: the notification, or the timer that counts. *)
Awake(w) ==
  /\ wpc[w] = "sleeping"
  /\ wpc' = [wpc EXCEPT ![w] = "armed"]
  /\ woken' = woken \ {w}
  /\ UNCHANGED <<rows, tasks, selected, outcomes, verdict, live, epoch, purging, rolled,
                 faults>>

Wake(w) ==
  /\ w \in woken
  /\ Awake(w)
  /\ UNCHANGED <<debounce, late>>

Deadline(w) ==
  /\ debounce[w] = "none"
  /\ Awake(w)
  /\ late' = late \cup {w}
  /\ UNCHANGED debounce

(* The debounce timer is cut at the deadline when that comes first. *)
DebounceElapses(w) ==
  /\ debounce[w] = "set"
  /\ Awake(w)
  /\ debounce' = [debounce EXCEPT ![w] = "due"]
  /\ late' \in {late, late \cup {w}}

(* claim_terminal_tasks: the rows this statement hands over.  The mutant takes
   what the wait had collected, whoever has it by now. *)
ClaimableStale(w) == {t \in Found(outcomes[w]) : status[t] \in Terminal}

Claimable(w) == {t \in Found(outcomes[w]) : Waitable(t)}

(* The transaction of the claim, and the outcomes that come back with it: the
   rows handed to this turn.  It runs on a thread of its own and commits also
   when the wait is dropped meanwhile: the wait is then dropped after it. *)
Claim(w) ==
  /\ wpc[w] = "claiming"
  /\ delivered' = [t \in Task |-> IF t \in Claimable(w) THEN TurnOf[w] ELSE delivered[t]]
  /\ outcomes' = [outcomes EXCEPT ![w] =
       [t \in Task |-> IF delivered'[t] = TurnOf[w] THEN @[t] ELSE "none"]]
  /\ wpc' = [wpc EXCEPT ![w] = "claimed"]
  /\ UNCHANGED <<status, owner, tasks, selected, debounce, late, verdict, woken, live,
                 epoch, purging, rolled, faults>>

(* The wait returns, or looks again when others took all it had collected. *)
Return(w) ==
  /\ wpc[w] = "claimed"
  /\ IF Found(outcomes[w]) # {}
       THEN wpc' = [wpc EXCEPT ![w] = "done"] /\ UNCHANGED <<debounce, verdict>>
       ELSE /\ wpc' = [wpc EXCEPT ![w] = "armed"]
            /\ debounce' = [debounce EXCEPT ![w] = "none"]
            /\ verdict' = [verdict EXCEPT ![w] = "none"]
  /\ UNCHANGED <<rows, tasks, selected, outcomes, late, woken, live, epoch, purging,
                 rolled, faults>>

(* The tool call is cancelled: call_with_tool_runtime_hooks drops the wait at
   whichever await it is. *)
CancelWait(w) ==
  /\ Active(w)
  /\ Fault("wait_cancel")
  /\ Answer(w, "cancelled")
  /\ outcomes' = [outcomes EXCEPT ![w] = NoOutcomes]
  /\ UNCHANGED <<rows, tasks, selected, debounce, late, woken, live, epoch, purging,
                 rolled>>

--------------------------------------------------------------------------------
TaskStep(t) ==
  \/ Register(t) \/ Submit(t) \/ SubmitFails(t) \/ StartDropped(t) \/ Finish(t)
  \/ CheckSuppress(t) \/ Complete(t) \/ Publish(t) \/ Announce(t)
  \/ ClaimControl(t) \/ CancelRow(t) \/ CancelLive(t) \/ CancelDropped(t)

WaitStep(w) ==
  \/ StartWait(w) \/ Select(w) \/ Collect(w) \/ CollectFails(w) \/ Wake(w)
  \/ Deadline(w) \/ DebounceElapses(w) \/ Claim(w) \/ Return(w) \/ CancelWait(w)

Next ==
  \/ \E t \in Task : TaskStep(t)
  \/ \E w \in Wait : WaitStep(w)
  \/ Restart \/ PurgeLive
  \/ \E k \in Turn : RollBack(TurnsFrom(k))

Spec == Init /\ [][Next]_vars

(* Spawned tasks and waits are polled, timers fire.  Nothing makes a subagent
   end, a call start, or a fault happen. *)
Fairness ==
  /\ \A w \in Wait :
       /\ WF_vars(Select(w)) /\ WF_vars(Collect(w))
       /\ WF_vars(Wake(w)) /\ WF_vars(Claim(w)) /\ WF_vars(Return(w))
       /\ WF_vars(Deadline(w)) /\ WF_vars(DebounceElapses(w))

FairSpec == Spec /\ Fairness

--------------------------------------------------------------------------------
Status == {"absent", "running"} \cup Terminal
Outcome == {"none"} \cup Terminal
RunnerState == {"idle", "registered", "running", "finished", "checked", "won",
                "announcing", "done"}
WaitState == {"idle", "selecting", "armed", "sleeping", "claiming",
              "claimed", "done"}
Verdict == {"none", "completed", "timed_out", "no_matching_tasks", "error",
            "cancelled", "lost"}

(* Every variable keeps its type. *)
TypeOK ==
  /\ status \in [Task -> Status]
  /\ owner \in [Task -> Nat]
  /\ delivered \in [Task -> Turn \cup {NoTurn}]
  /\ child \in [Task -> {"open", "completed", "error", "cancelled"}]
  /\ epoch \in Nat
  /\ live \in [Task -> Outcome]
  /\ runner \in [Task -> RunnerState]
  /\ result \in [Task -> {"none", "completed", "failed", "cancelled"}]
  /\ control \in SUBSET Task /\ suppressed \in SUBSET Task
  /\ canceller \in [Task -> {"none", "claimed", "won"}]
  /\ purging \in SUBSET Task
  /\ rolled \in SUBSET Turn
  /\ wpc \in [Wait -> WaitState]
  /\ selected \in [Wait -> SUBSET Task]
  /\ outcomes \in [Wait -> [Task -> Outcome]]
  /\ debounce \in [Wait -> {"none", "set", "due"}]
  /\ late \in SUBSET Wait /\ woken \in SUBSET Wait
  /\ verdict \in [Wait -> Verdict]
  /\ faults \in SUBSET FaultKind

(* What memory holds of a task is what its row says: complete and cancel write
   the entry only after an update of theirs that won, and a wait shows the entry
   rather than the row (background_outcomes.rs:353). *)
LiveMatchesRow ==
  \A t \in Task : live[t] # "none" /\ status[t] # "absent" => live[t] = status[t]

(* A task that this process runs and that is still "running" will be settled:
   its start call, the task it spawned or a cancel call has still to do it.
   Refused updates and dropped calls leave rows nobody settles before the next
   start of the program. *)
RunningIsOwned ==
  \A t \in Task :
    status[t] = "running" /\ owner[t] = epoch /\ faults \cap {"db", "drop"} = {} =>
      \/ runner[t] \in {"registered", "running", "checked"}
      \/ runner[t] = "finished" /\ t \notin suppressed
      \/ canceller[t] = "claimed"

(* A wait that sleeps while it could return has been woken, or a call that
   changed the rows has still to notify it. *)
Returnable(w) ==
  /\ \E t \in selected[w] : Waitable(t)
  /\ \A t \in selected[w] : status[t] # "running"

NoLostWakeup ==
  \A w \in Wait :
    wpc[w] = "sleeping" /\ Returnable(w) /\ "drop" \notin faults =>
      \/ w \in woken \/ purging # {}
      \/ \E t \in selected[w] : runner[t] = "won" \/ canceller[t] = "won"

Returned(w) == wpc[w] = "done" /\ verdict[w] \in {"completed", "timed_out"}

(* The test background_subagent_outcome_is_consumed_only_by_agent_wait: a
   consumed outcome is not delivered twice.  Two waits that return the same
   outcome have a rollback of one of their turns between them. *)
DeliveredOnce ==
  \A v, w \in Wait : Returned(v) /\ Returned(w) /\ v # w =>
    \A t \in Task :
      outcomes[v][t] = "none" \/ outcomes[w][t] = "none"
      \/ {TurnOf[v], TurnOf[w]} \cap rolled # {}

(* What a wait reported of a task stays true: the row still has that outcome
   and is handed to the turn of the wait, unless it was rolled back. *)
ReportIsRecorded ==
  \A w \in Wait : Returned(w) /\ TurnOf[w] \notin rolled =>
    \A t \in Task : outcomes[w][t] # "none" /\ status[t] # "absent" =>
      outcomes[w][t] = status[t] /\ delivered[t] = TurnOf[w]

(* The test restart_recovers_completed_result_from_child_turn_history: the text
   of a completed task can be read from its child turn, and a task whose child
   turn was persisted as ended is not reported as interrupted. *)
RowMatchesChild ==
  \A t \in Task :
    /\ status[t] = "completed" => child[t] = "completed"
    /\ status[t] = "interrupted" => child[t] = "open"

(* The turn that announces a result to the parent finds the task settled. *)
AnnouncedIsSettled ==
  \A t \in Task :
    runner[t] = "announcing" => status[t] # "running" \/ "db" \in faults

(* A wait ends. *)
WaitEnds == \A w \in Wait : Active(w) ~> ~Active(w)

(* The rows give each task one outcome and hand it to one turn.  A row that is
   not there was never written, or is gone. *)
LedgerOutcome ==
  [t \in Task |-> IF status[t] # "absent" THEN status[t]
                   ELSE IF runner[t] = "idle" THEN "none" ELSE "gone"]

Ledger == INSTANCE OutcomeLedger WITH outcome <- LedgerOutcome, receiver <- delivered

ImplementsLedger == Ledger!Spec
================================================================================
