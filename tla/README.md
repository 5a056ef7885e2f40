# Verification of the agent core

This directory holds TLA+ models of the concurrent core of the repository's agent
platform: which dialog turn of a session runs when (the scheduler, its queue, the turn
lifecycle, the session lock, the settlement tracker), what happens inside a turn (the tool
calls of a model round with their permission requests, and the messages injected between
rounds), the background subagents whose outcomes a later turn collects, and the scheduled
jobs that submit turns by the clock. TLC checks the models on small instances; TLAPS proves
the central properties for every instance.

Paths below are relative to `src/src/crates/` unless they start with `src/`. These are
abbreviated: `scheduler.rs` and `coordinator.rs` are in
`assembly/core/src/agentic/coordination/`, as are `background_outcomes.rs` and
`coordination_store.rs`; *queue file* is `execution/agent-runtime/src/scheduler.rs`;
`permission.rs` is `execution/agent-runtime/src/permission.rs`; `tool_pipeline.rs` is
`assembly/core/src/agentic/tools/pipeline/tool_pipeline.rs`; *cron* is
`assembly/core/src/service/cron/service.rs`.

## 1. Inventory

The repository is a fork of an agent platform (BitFun: Rust crates, desktop, CLI,
server and relay applications, web and mobile front ends) with a set of
quantitative-trading crates (`taiji-*`) added. The concurrency and the failure
handling are concentrated in the agent core.

| Part | State | Operations | Modelled in |
|---|---|---|---|
| `DialogTurnQueue` (queue file 256–360) | one queue per session | enqueue, dequeue_next, remove_first_matching, requeue_front, clear | `DialogTurnQueue` |
| `DialogScheduler` (scheduler.rs) | queues, active_turns, suppressed replies, retired outcomes, operation locks, outcome channel | submit, start_turn, cancel (by turn, by session, by requester), begin_session_maintenance, outcome handler | `DialogScheduler` |
| `ConversationCoordinator` turn lifecycle (coordinator.rs) | in-flight counters, cancellation tokens | start_dialog_turn, the spawned execution task, persist_completed/cancelled/failed, cancel_dialog_turn, drain waits | `DialogScheduler` (exec, verdict, signalled, forsaken) |
| `SessionManager` state (session_manager.rs) | `SessionState` of each session | start_persisted_turn, update_session_state_for_turn_if_processing, reset_session_state_if_processing, create, delete | `DialogScheduler` (state, current) |
| `KeyedAsyncLock` (keyed_lock.rs) | weak registry of mutex generations | lock, guard drop | `KeyedAsyncLock`, `SessionLock` |
| `TurnSettlementTracker` (turn_settlement.rs) | registrations, completion history | try_register_pending, register_accepted, accept, clone, drop, wait | `TurnSettlement` |
| Round injections (queue file 565–670, scheduler.rs, execution_engine.rs) | per-session buffer | submit_steering, deliver_background_result, deliver_thread_goal_objective_updated, push, drain_for_turn at round boundaries and by the outcome handler | `RoundInjections` |
| Background subagents (background_outcomes.rs, coordination_store.rs, coordinator.rs) | rows of the coordination database, results in memory, controls of running tasks | start, settle, cancel, AgentWait (select, collect, claim), rollback, reconciliation at startup | `BackgroundOutcomes`, `OutcomeLedger` |
| Tool rounds (tool_pipeline.rs, `execution/tool-execution/src/pipeline.rs`) | task states, cancellation tokens, permission plans | execute_tools, execute_single_tool, cancel_tool, cancel_dialog_turn_tools, the watch for preempting messages | `ToolRound` |
| Permission requests (permission.rs) | pending requests, grants, audit | register_batch, reply_from, cancel_request, remove_project_grant | `ToolRound` |
| Scheduled jobs (cron, `schedule.rs`, `subscriber.rs`, `execution/agent-runtime/src/scheduled_job.rs`) | job table in memory and `jobs.json`, the wakeup of the run loop | create, update, delete, run_job_now, process_job, turn events, delete_jobs_for_session, reconciliation at startup | `CronService` |
| Thread-goal continuation, user questions | abort flags, answer channels | | not modelled |
| `taiji-executor`, `taiji-growth`, `taiji-publisher` | orders, task DAG, publishing schedule | | not modelled |
| numerical `taiji-*` crates, adapters, applications, front ends, scripts | | | not modelled |

`PROJECT.json` lists every component with the reason why it is or is not modelled.

### How the parts interact

```
 callers ──submit/cancel/maintain──▶ DialogScheduler ──start_dialog_turn──▶ Coordinator
                (operation lock of the session)                                │ spawns
                                          ▲                                    ▼
                                          │ outcome channel (128)        execution task
                                  outcome handler ◀──── try_send ───── persist_*, guard drop
                                                                              │
                                                                  SessionManager.state

 execution task: model round ──▶ execute_tools ──▶ permission requests ◀── user replies
                    ▲    round boundary: drain_for_turn ◀── buffer ◀── steering, results
                    └── AgentWait ◀── rows (database) ◀── background subagents
```

* Every operation of a caller on a session runs under that session's *operation
  lock* (`KeyedAsyncLock`), across its awaits. So does the outcome handler when it
  takes an outcome and when it dispatches.
* The *execution task* of a turn never takes that lock. It changes the session
  state when it ends, then reports its outcome with `try_send`, then its guard
  drops. A cancellation, the end of the execution and the guard therefore race for
  the session; the compare-and-set on the turn id decides.
* The single *outcome handler* works on outcomes in the order they were sent, and
  releases the lock between taking an outcome, sending the automated reply to
  another session (a submission under *that* session's lock) and dispatching the
  next queued turn.

* A *round* of a turn makes tool calls. They wait for permission requests that the user
  answers at any time; the user cancels a call or the turn meanwhile, and a steering
  message that is waiting in the buffer drops the calls that have not begun.
* *Injected messages* are pushed by whoever produced them after a look at the session, and
  taken by the running turn at the end of a round. What a turn leaves is dropped by the
  outcome handler, which may run when the next turn has begun.
* A *background subagent* outlives the turn that started it. Its row survives a restart; a
  wait of any later turn collects its outcome and claims it in one transaction.
* A *scheduled job* submits a turn to its session and waits for the turn's last event, which
  the application's event loop hands to the cron subscriber and awaits. The event is queued
  before the turn is saved, releases the session and leaves `active_turns`. `mutation_lock`
  guards the table; `process_job` keeps it across the submission, which waits for the
  session's operation lock, while the deletion of a session holds that lock and waits for
  `mutation_lock`.

### What is hard

Two notions of "busy" (the session state and `active_turns`) that change at
different moments; outcomes that arrive after newer turns have started; starts
that fail after the turn left the queue; a cancellation or a session deletion in
the middle of all this; waits with deadlines after which the code goes on;
panics; persistence that fails between two in-memory changes. In a round: a
cancellation is a look at the state, a signal and a mark, between which the call goes on;
replies and cancellations of one request race; the store may fail in the middle of a batch.
For background work: a result, a cancellation and a reconciliation all want to settle one
row; a wait reads and then sleeps; the process may end between any two statements. For
scheduled jobs: manual runs, edits, coalesced triggers, retries and events come in any order,
every change is saved by a call that may fail, and a restart begins with an older file. The
list with the lines is in `PROJECT.json` under `hazards`.

### What makes each part correct

* *Queue*: within its limit, higher priority first, first-in first-out within a
  priority, also when a failed start is put back.
* *Scheduler*: no accepted turn disappears silently or waits twice; an active
  entry always has an outcome on its way; an outcome acts only on its own
  generation; suppression marks and retirement tombstones meet exactly their
  outcome; queued turns are dispatched in the end; a reply that is owed is sent.
* *Coordinator and session state*: a running turn that was not told to stop owns
  its session; maintenance excludes every activity of the session; a session that
  shows Processing has an execution.
* *Lock*: one holder per key, one live generation per key, no dead entries, every
  call returns.
* *Settlement tracker*: a turn is unsettled as long as its submission, the queue or its
  execution holds a registration; an answer is about the right execution of an id; a
  recent completion is remembered, an old one does not stay for ever.
* *Round*: a tool runs only when every request of its call was approved, a call that is
  not concurrency safe runs alone, every call has one result in its place, and no request,
  token or call is left behind whatever interferes.
* *Injections*: a message is given to its turn only, is never lost to the end of another
  turn, and a turn does not answer before it was shown what it was given.
* *Background outcomes*: one outcome per task, recorded as the child turn ended, handed to
  one turn, told as it is recorded; no wait sleeps through the change it waits for.
* *Scheduled jobs*: a job submits no second turn while one of its turns has yet to report its
  end, a trigger is neither lost nor submitted again once it was accepted, a job waits only for
  a turn that reports its end (or ended without a report), what is due is taken in the end.

## 2. Modules

| Module | Content |
|---|---|
| `DialogTurnQueue` | the queue operations as operators on one sequence |
| `SessionTurns` | what the users of the scheduler rely on: each session has a line of waiting turns and works on one turn at a time |
| `DialogScheduler` | the state machine: scheduler, coordinator lifecycle, session state, outcome handler, callers, refining `SessionTurns` |
| `MCDialogScheduler` | the constants of the TLC instances |
| `SessionLock` | what callers rely on: one mutex per key |
| `KeyedAsyncLock` | the registry of weak generations, refining `SessionLock` |
| `TurnSettlement` | the settlement tracker with the submissions that use it |
| `MCTurnSettlement` | its TLC instance |
| `ToolRound` | a round of tool calls: plans, requests, batches, execution, cancellation |
| `MCToolRound` | its TLC instance |
| `RoundInjections` | the injection buffer with its producers, the turns that take from it and the handler that drops |
| `MCRoundInjections` | its TLC instance |
| `OutcomeLedger` | what the parent relies on: one outcome per background task, handed out once |
| `BackgroundOutcomes` | rows, results in memory, waits, cancellation, rollback and restart, refining `OutcomeLedger` |
| `MCBackgroundOutcomes` | its TLC instance |
| `CronService` | the job table, its file, the run loop, the calls, the turns' events, deletion and restart |
| `MCCronService` | the budgets of its TLC instances |
| `...Proofs` (eight modules) | the TLAPS proofs of the module they are named after |

An operator that stands before one of the same parameters, with a comment that calls it
the mutant or a name that tells its slip (`...BeyondLimit`, `Never...`, `Keep...`, `Any...`),
is a *mutant*: a plausible slip in that piece of code. It is used by no definition; substituting
it for its neighbour must break the property PROJECT.json names for it, which
shows that the property really depends on that line of code.

### DialogScheduler: state and code

| Variable | Code |
|---|---|
| `state`, `current` | `SessionState` (Idle, Processing{current_turn_id}, Error); `Missing` when the session is deleted or not loaded |
| `queue` | `queues: DialogTurnQueue` |
| `active` | `active_turns: ActiveDialogTurnStore` |
| `op` | the operation lock of the session and how far its holder is: `none` (free), `start` (inside start_dialog_turn), `record` (spawned, active_turns not yet written), `drain` and `permit` (maintenance) |
| `exec`, `verdict` | the spawned task: `running`, `closing` (state released, outcome not sent), `reported` (guard not dropped), `done`; how it ended |
| `signalled`, `forsaken` | cancellation tokens that fired; turns whose cancellation failed before it could |
| `outcomes`, `handler` | the channel and the outcome handler's position |
| `retired`, `suppressed` | `retired_maintenance_outcomes`, `suppressed_cancelled_replies` |
| `submitted`, `accepted`, `cancelEvents` | history: submissions, `accept_settlement`, DialogTurnCancelled events |
| `used` | how much of the bounds on failures and requests is used up |

An action is a stretch of code between two points where another party can see or
change the state. `start_turn` is cut in two (the session becomes Processing and the
task is spawned; `active_turns.insert`) because the task may finish in between. The
end of an execution is cut in three (session released, outcome sent, guard dropped),
the outcome handler in taking, settling, replying and dispatching, maintenance in
begin, grant or time-out, and end of the permit. Everything else that happens under
the operation lock and touches nothing others see is one step: for instance
enqueueing and the dispatch that follows it in `EnqueueThenStartNext`.

Waits with a deadline (800 ms before a start, 1500 ms after a cancellation, the
caller's limit in maintenance) are modelled by letting the waiting step go on at any
time where the code goes on after the deadline, and by an explicit time-out step
where it fails.

`SessionTurns` knows neither lock, session state, channel nor handler. Its *line* of a session is
the queue with, first, the turn that is being started from it: a failing start, whose turn goes
back to the front, is no step of it at all. A turn joins the line at the place of its priority,
begins when it is the first of the line, or directly when nobody waits, and only when
everything that still runs in its session has been told to stop. It begins at most once,
or is cancelled while it waits. When the line is cleared, nothing runs on in the session that was
not told to stop before or in the same step. "Told to stop" includes the turns whose
cancellation failed halfway (`forsaken`).

### KeyedAsyncLock: state and code

`pc`, `key` and `gen` describe each call of `lock` with the guard it returns; `registry`
maps a key to the weak reference of the map. A *generation* is the address of an
allocation of the tokio mutex; it may be reused as soon as no strong and no weak
reference is left, which is what makes `Weak::ptr_eq` in the guard's drop safe or
unsafe. The drop is two steps: unlock, then the test and the removal under the
registry's mutex. `DialogScheduler` uses the lock through `op`, which is sound because
`KeyedAsyncLock` implements `SessionLock`.

### TurnSettlement: state and code

`active`, `completed` and `order` are the three fields of the tracker; `count`, `accepted`
and `settled` the fields of an entry. An entry is an allocation, compared with
`Arc::ptr_eq`, and is named after the submission that made it. `held` says which of the
caller, the queue and the execution task holds a registration of a submission: the caller
from `try_register_pending` until the submission returns, the queue from the clone it is
given until the turn was started, cancelled or cleared (a failed start puts the turn back
with its registration), the task from `register_accepted` until it ends. A submission that
does not come through the port has only the last one, and may use any turn id again.

`Drop` is the drop of one registration. The drop of the last one keeps the DashMap shard
of its key in `active` write-locked to the end, so other operations on that key wait
(`Unlocked`), but its work on the history interleaves with other keys: the entry is
stored, the mutex of the order is taken and the entry appended, each eviction compares
and then removes, the entry leaves `active`. `wait` is cut between its two map lookups
and at the watch channel. Locks of two keys that share a shard are not modelled: they
only exclude interleavings.

### ToolRound: state and code

| Variable | Code |
|---|---|
| `phase`, `planned`, `batch`, `open` | where `execute_tools` is: drafting plans one call at a time, approving or withdrawing the round's requests, executing batches, cleaning plans up |
| `plan`, `left`, `waived`, `toApprove` | `permission_plans` (a call's plan and the receivers it has not awaited), requests a grant made unnecessary, requests an automatic round has still to approve |
| `pc`, `outcome`, `ran`, `results` | `execute_single_tool` of each call, its result, whether the tool was called, what the model is given |
| `status`, `token`, `stored` | the task states, the cancellation tokens, the token store |
| `pending`, `answer`, `audit`, `grants` | `PermissionRequestManager` and its store |
| `preempt`, `watching`, `sweep`, `marking` | the waiting steering messages, the watch of a batch, and how far each cancellation is |

An operation of the request manager runs under its lock and is one step, with the error
path of its store as a step of its own; the execution of a call is cut at every await.
`cancel_tool` is two steps, signalling the token and marking the task, since the call it
cancels goes on in between. The number of a call is its place in the model's answer.

### RoundInjections: state and code

`buffer` is the session's entry in `SessionRoundInjectionBuffer`, `target` the turn id an
injection carries (`AnyTurn` for CurrentRunningTurn), `current` the turn the session is
processing. A delivery is two steps, the look at the session and the push. `EndRound` is
the boundary in the execution engine: it takes what is eligible and goes on, or ends with
the answer when nothing was there. `HandleOutcome` and `Retire` are the two places where
the scheduler drops what a turn left. `fate`, `given` and `shown` are history.

### BackgroundOutcomes: state and code

`status`, `owner` and `delivered` are columns of `background_tasks`; `child` is the
persisted state of the subagent's turn. `live`, `control` and `suppressed` are the maps in
memory, `runner` and `canceller` the spawned task and a cancel call between two awaits.
A wait has `selected` tasks, `outcomes` it has collected, a `debounce` timer and possibly
passed its deadline (`late`); `woken` is its registered `Notified` future. Each statement
or transaction is one step. `Restart` starts a new `epoch`: everything but rows and child
turns is lost, and `Reconcile` settles the rows of earlier epochs by what the child turns
say. A `partial_timeout` is a `completed` row here, as it is delivered the same way. The instance
starts each kind of fault at most once; `MaxFaults` bounds them together.

### CronService: state and code

`jobs` is the table in memory and `disk` the last file that was saved; a job has the fields of
`ScheduledJobRuntimeState` that decide what runs: `next`, `pending` and `retry`, `active` (for
active_turn_id: a turn is named after its job and trigger, so the trigger's time stands for
it) and `enqueued` (last_enqueued_at is set). `alarm` is the time the run loop sleeps until.
The rest is what the job sees of the scheduler. A turn is `live` while it is queued or running
and has not announced its end. `TurnReports` announces it: the event goes into the queue
(`events`) and the turn goes on `winding` up, since both the engine (execution_engine.rs:3867)
and the coordinator (coordinator.rs:1877, 1955) queue the event before the turn is saved, the
session is released and the outcome is sent; `TurnLeaves` is the end of that. In between the
event may be handled, the next trigger submitted and its turn queued beside the one that winds
up. `TurnIsSilent` ends a turn without an event (a panic, a full event queue) and remembers it in
`silent`; `ReportsAgain` is the second event of a turn that was cancelled between rounds.
`known` holds the turn ids this process has accepted; the settlement tracker refuses them again.
The subscriber notes the start of a turn (`StartIsNoted`) and releases the job at its end
(`HandleEvent`).

Each section under `mutation_lock` is one step, with its save, which may fail: then the table
has changed, the file has not, and the error returns before the run loop is notified
(`SaveFailed`). Only `process_job` is cut: `Process` (the due trigger is taken and saved),
`Submit` (the scheduler registers the id, waits for the operation lock and answers) and
`Record` (mark_enqueued or mark_enqueue_failed, and the save). `proc` is the process_job that
holds the lock, for the run loop or for `run_job_now`, whose mark is a step of its own.
`create_job` looks up its session before it takes the lock (`Resolve`). `UpdateRefused` is an
edit refused for its name, its payload or its schedule, or because an enabled schedule has no
next run: the fields are in the table by then, and in the last case the waiting trigger has been
cleared. `BeginDelete` takes the operation lock; `DeleteJobsForSession` waits until the
session's turns have left, and needs `mutation_lock` as well.

A schedule is a one-shot at a time of `AtTimes`; `Recurring`, an interval or cron expression of
period `Period` that has no end; `Ending`, a cron expression whose year field lets it run out
after `LastRun`; or `Malformed`, which only a refused edit can put into the table. `Fails` says when
the next run cannot be computed: compute_cron_next_run_ms returns an error for an expression
that has run out (schedule.rs:113-118, 135-140) as for one that does not parse. Every user of
the computation has that error path: `process_job` before it changes anything (`Broken`, which
also ends the pass of the loop), creation and edits, and the start of the process
(`Loadable`). validate_schedule only asks for a run since the job was created, which
a job created too late does not have (`late`). Of the calendar nothing else is kept: no
property depends on how far apart two runs are.

`Budget` bounds how often each kind of step happens and `MaxKinds` how many kinds meet in one
behaviour; the clock stops at `MaxTime`. No two triggers of a job are marked in the same
millisecond, and a submission is refused only while its retry still fits on the clock.

## 3. Runs

| Run | Instance | Shows |
|---|---|---|
| SchedulerQueue | 4 turns, 2 priorities, limit 2, one failing start, one panic, one cancellation | refinement of SessionTurns (and with it the order by priority), QueueWithinLimit, QueueFifo, QueuedOnce, NoSilentLoss, FailureSparesRunning |
| SchedulerOutcomes | 2 sessions, 2 turns (one refuses to wait) and the reply of one of them, a cancellation, a failing save, a maintenance request | RunningOwnsSession, PermitExcludesTurns, ActiveHasOutcome, MarksHaveOutcome |
| SchedulerLiveness | 3 turns, a maintenance request, fairness | QueuedLeaves, ActiveSettles |
| KeyedLock | 3 calls, 2 keys, 4 generations, one dropped waiter, fairness | refinement of SessionLock (and with it mutual exclusion), NoDeadEntry, EveryCallReturns |
| Settlement | 4 submissions, 2 ids (3 submissions under one, one of them outside the port), a history of 1, one wait | TrackedWhileOwed, SettledIsOver, CompletedIsListed, KnownIsAnswered |
| Round | 3 calls (a serial one, a batch of two), 3 requests on 2 resources, a denied, a failing and a streaming call, both approval modes, one trouble | RunsAuthorized, NothingLeftPending, SerialAlone, OneResultEach, StatusTellsOutcome, RoundEnds |
| Injections | 2 turns, 4 messages: steering, a result of the first turn, a goal update | ReachesItsTurn, InjectedIsShown, OthersKept, BufferedLeaves |
| BackgroundTasks | 2 tasks, 2 waits of different turns, 3 calls in all, one fault of any of five kinds | refinement of OutcomeLedger (and with it that an outcome is delivered once), RunningIsOwned, NoLostWakeup, ReportIsRecorded, RowMatchesChild, WaitEnds |
| CronCalls | 1 job, 4 ticks, a one-shot at 3, a period of 2 without end or ending at 2; an edit, a refused edit, a manual run, a refused and a misreported submission, a failed save, a turn that reports twice, a silent turn, a deletion and a restart, each once, any three of them in one behaviour and in any order | OneTurnUnreported, NotForgotten, PendingNotYetRun, ActiveIsOwed |
| CronLiveness | 2 jobs of one session, 3 ticks, a one-shot at 2, a period of 2 without end or ending at 2; one of a manual run, a refused submission and a restart; fairness | TriggersAreTaken |

Why the bounds suffice. *Scheduler*: three turns give an active turn, a turn that waits and a
turn that arrives at any moment; four are needed for a full queue behind an active turn and
for a late failure to meet a running turn with another one queued behind it. A limit of two
makes a full queue and a requeue at the limit reachable; one failure of each kind at a time
is what a single operation can meet, and failures of different kinds are combined in one
run. The reply needs a second session. The channel has room for every outcome of an
instance: at a smaller capacity ActiveHasOutcome fails, see below. *Lock*: with three calls
two wait for one generation while a third starts the next one; four generations exceed the
three calls plus the stale reference that matters, so `Lock` is never blocked for lack of
an address. *Tracker*: a history of one makes every second completion evict; a second id is
what evicts, three submissions of one id are a first completion, a re-run and a later
attempt. *Round*: a serial call before a batch of two has every kind of neighbour; one call
has two requests, so that a reply to one meets a rejection or cancellation of the other, and
shares a resource with another call, so that a grant covers a later draft; one trouble (a
cancellation, a steering message, a removed grant or a failure of the store) at every point
already interleaves with everything else. *Injections*: two turns overlap when the first is
cancelled and its outcome is handled after the second has begun. *Background tasks*: two
waits compete for one task and one wait collects two; a second fault of another kind only
adds states the single ones have led to, which the proofs confirm, for they bound nothing.
*Scheduled jobs*: jobs share nothing but the lock, the run loop and the session, so one job
meets every order of calls on its own state. Any three of the ten kinds of step and fault
meet, in every order and beside the steps that nothing bounds (creation, deletion, the loop,
the turns and their events); what needs more of them at once is left to the proofs, which
bound nothing; four ticks hold a trigger, its retry, the next trigger and a late
one, and the ending schedule has a run to come, a last run that is due and none, and is found
late at its creation, within them. The run loop and its order need the second job, which
CronLiveness has; there every pair of schedules meets, in either order of the loop.
`CHECK_DEADLOCK FALSE` in all instances but KeyedLock: submissions, calls and messages are
finite, so each behaviour ends.

### Fairness

* executions end: the model-round loop is bounded, its calls time out
  (`WF ExecStep`);
* tokio polls ready tasks: starts, the handler's steps and the steps of maintenance
  that are not waiting (`WF`); likewise the steps of a round, a round boundary, a push after
  the look, and the steps of a wait and of a spawned subagent task;
* the operation lock is a fair tokio mutex, so a handler that waits for it gets it in
  the end although others take it in between (`SF` on HandlerTake, HandlerForwards,
  HandlerDispatches; the property EveryCallReturns of the lock is what justifies it);
* maintenance either drains or runs into its deadline, and its caller drops the permit
  (`WF`);
* a wait has a deadline, and the timers fire (`WF`); the subagents themselves need not end;
* the clock runs, the run loop wakes, the scheduler answers a submission (`WF`);
  `mutation_lock` is a fair tokio mutex, so process_job, the event subscriber and a deletion get
  it in the end (`SF`); turns announce their end and leave, and their events are routed (`WF`,
  `SF`).

No fairness is assumed of callers, replies, cancellations, failures or panics. RoundEnds is
therefore conditional: it assumes that no request stays unanswered for ever, and BufferedLeaves
speaks of messages whose turn has not been wound up.

### Where the code does not do what it says

Two runs expect a violation; each shows a disagreement between the code and one of
its comments (`findings` in PROJECT.json).

* **ResultLost**: a background result pushed for a turn that is past its last round boundary is
  dropped by the outcome handler; it is neither injected nor submitted as a turn.
* **CronDeletion**: the deletion of a session and `process_job` take the operation lock and
  `mutation_lock` in opposite order. When a job of the session is due while the session is
  deleted neither goes on: the jobs are never removed, every cron call waits, and the event
  loop, which awaits the cron subscriber, stops with it.

### Not guaranteed

What the models showed beyond that: what a run with other bounds, or an invariant stated more
strongly, finds violated.

*Scheduler and coordinator*

* The guard of a panicked execution resets the session, but no outcome is sent: `active_turns`
  keeps the turn, later submissions are queued and none is dispatched. With MaxPanics = 1
  QueuedLeaves fails.
* `start_persisted_turn` sets Processing before it saves and returns with `?` when the save
  fails (session_manager.rs): the session shows a turn nobody runs.
* `cancel_dialog_turn` makes the session Idle and returns with `?` when that cannot be saved
  (coordinator.rs:4293), before the token fires: the next queued turn is started beside the
  execution that goes on (`forsaken` in the model; RunningOwnsSession excepts it).
* The handler dispatches on the session state alone (scheduler.rs:1408). If a newer turn has ended
  but its outcome is not yet taken, the dispatched turn replaces its `active_turns` entry (1529),
  its outcome is stale, and its automated reply, which the prompt of team mode promises
  ("automatically returns results via reply route"), is never sent.
* `EnqueueThenStartNext` returns the error of the turn it tried to start, although the submitted
  turn was accepted and waits in the queue (scheduler.rs:1059).
* A submission between the Error state and the handling of the failed outcome is queued, and
  cleared by that outcome.
* A dispatch by the handler whose start fails is put back and only logged: with one
  failing start QueuedLeaves fails, because nothing tries again until the next submission
  to that session.
* `try_send` drops an outcome when 128 are waiting: with a capacity below the number
  of outcomes in flight ActiveHasOutcome fails.
* The outcome of a displaced turn counts as stale only while a later turn is active. A
  late failure that finds the entry absent, which `take_for_outcome` does not tell from "no
  generation to compare with", clears whatever has been queued since. What
  holds (FailureSparesRunning) is that it never does so while a later turn runs.
* An eviction of the settlement history compares the stored entry and then removes by key
  (turn_settlement.rs:142): when the same id was started again outside the port and completed in
  between, the newer completion is forgotten. CompletedIsListed allows for it.

*Rounds and permission requests*

* A cancellation that arrives late may overwrite Completed with Cancelled, or be overwritten by
  Completed or Failed; StatusTellsOutcome says what is left. `cancel_dialog_turn_tools` skips
  tools that stream.
* A call of a later batch has no token yet, so `cancel_dialog_turn_tools` ("Cancel all tools for a
  dialog turn", tool_pipeline.rs:2118) only marks it; `execute_single_tool` does not look at the
  mark, overwrites it and calls the tool, unless the round is stopped by other means.
* A call whose intents cannot be derived when it executes leaves its token in the store; one that
  cannot be authorised leaves its task queued. A grant removed after the draft still lets the
  tool run. An audit record that cannot be appended leaves the request pending.

*Injections*

* An update of the goal is for the running turn: the drain of an older turn may take or drop it.
* A push that comes after the outcome was handled stays in the buffer; `submit_steering`
  answers Buffered although the message may be dropped; a cancelled turn may still complete
  with its answer.

*Background tasks*

* Two waits of one turn would select the same tasks; the code relies on the calls of a turn
  running one after the other. A wait in mode "any" may report timed_out with an
  outcome at hand. A claim does not wake the waits that had collected the same outcome.
* A wait that is dropped while its claim commits on a blocking thread has consumed the outcome,
  although "a cancelled wait must not consume the completed outcome" (coordinator.rs:9513, a test
  that cancels a sleeping wait): the row names a turn that was never given it.
* A statement that fails, or a start or cancel call that is dropped, leaves a row running
  until the next start of the process. A task of a turn that was rolled back still announces itself.
* Outcomes are also submitted to the parent as turns, contrary to `coordinator.rs:807`
  ("consumed only through AgentWait") and to what the task tool tells the model
  ("will not be delivered automatically", task/background.rs:9).

*Scheduled jobs*

* `update_job` validates after it has written the new fields into the table (cron 200-219). An
  edit refused for its name, payload or schedule stays there without a new next run (a valid new
  schedule or a changed enabled flag included): the next save of any job writes it to
  `jobs.json`. If the schedule does not parse, `CronService::new` then fails and with it the
  start of the application, and until then process_job returns the error whenever the job is
  due and `process_due_jobs` stops there, before all jobs that became due later. NotForgotten
  excepts refused edits.
* The last run of a cron expression with a year field is never taken. process_job computes the
  run after it before it applies the trigger and returns the error that there is none (cron
  437-438, schedule.rs:113-118, 135-140): next_run stays in the past, the loop tries again every
  second for ever, and no job sorted behind this one is processed. `run_job_now` on it marks
  the trigger and fails the same way. TriggersAreTaken excepts such a job and those behind it
  (`Stopped`), and NotForgotten holds of it only because the past next run is still noted.
  To enable it again is refused but leaves the table with an enabled job that has no next run;
  once that is saved with another change, `reconcile_loaded_job` fails on every start.
* The next run of a job may be queued beside a turn of it that is still winding up: the last event
  is queued before the turn is saved and released (execution_engine.rs:3867; coordinator.rs:1877
  before 1904 and 1923, 1955 before 1985 and 2011). The scheduler then queues the new turn
  behind the old one. OneTurnUnreported speaks of turns that have not announced their end.
* A turn that ends without an event leaves its job waiting until the process restarts: an execution
  that panics (coordinator.rs:3953-3961 only resets the session), or a terminal event that a
  full event queue drops (`event_queue.rs:171`). Triggers are coalesced meanwhile. ActiveIsOwed
  has these turns (`silent`) as its exception, and CronLiveness has none.
* A one-shot that has run and is armed again for a later time
  (`reenabled_at_schedule_rearms_consumed_one_shot_only_for_future_time`) is disarmed by the next
  edit that leaves the schedule alone, a new name for example (cron 777): it stays enabled and
  never runs.
* A submission reported as failed although its turn was queued (above) leaves a job that does not
  wait for its turn: the retries are refused while the turn id is known, and an edit makes the
  next run overlap with it. OneTurnUnreported and PendingNotYetRun except this case.
* A save that fails does not wake the run loop, so what it has armed is taken late; the table in
  memory stays ahead of the file. CronLiveness has no failing save.
* While a manual trigger waits behind the job's running turn, its wakeup is in the past and
  process_job does nothing: the loop goes round without a pause until the turn ends. Such rounds
  are stuttering steps of the model.
* A process that ends between a submission and its save runs the trigger again; one that ends
  while the job's turn runs drops a manual trigger that waits behind it. A manual run of a
  one-shot consumes its scheduled run.
* A `create_job` that has looked up its session before the session was deleted leaves a job for a
  session that is gone; its first run disables it.

## 4. Proofs

The theorems hold for every value of the constants: any sets of sessions, turns, calls,
requests, messages, tasks and waits, any assignment of one to the other, any limits and
capacities, and any bounds on failures and requests. They rest on the named assumptions
`QueueAssumption` (priorities are naturals, the limit is positive), `SchedulerAssumption`
(turns live in sessions, replies are turns, `NoTurn` is none), `LockAssumption`,
`SettlementAssumption`, `RoundAssumption` (at least one call, requests are numbers and belong
to calls), `InjectionsAssumption`, `OutcomesAssumption` (turns are numbers) and
`CronAssumption` (jobs have a session, the period and the delay are positive) only. None
of the properties is inductive; each proof module states the invariant `IInv` that is, and
has one lemma per action.

* **DialogTurnQueueProofs**: where enqueue inserts (`EnqueueInserts`), that it keeps a
  queue in order (`EnqueueByPriority`), that removal keeps order and length
  (`RemoveTurnKeeps`, `RemoveTurnByPriority`), which turns are queued afterwards
  (`EnqueueAdds`, `RemoveTurnTakes`, `FrontAdds`), and that putting the head back restores
  the queue (`RequeueDequeued`). `EnqueuePlace` says the place enqueue gives to a turn by the
  priorities alone; `FifoStep` says of two queues that in the second no turn stands before
  another one it did not stand before in the first, unless it is new and of higher priority,
  and each operation is shown to make such a step (`FifoTail`, `FifoRemove`, `FifoEnqueue`).
* **DialogSchedulerProofs**: `Invariance` (Spec => []IInv) and from it `TypeCorrect`,
  `SessionOwned`, `NoUnstoppedOverlap`, `QueueBounded`, `QueueOrdered`, `PermitExclusive`; on top
  of it `Places` and from it `WaitsOnce`, `NothingLostSilently`, `FirstComeFirstServed`. The
  properties are not inductive alone. `IInv` adds
  - `TurnRefs`: the lock holder that starts a turn holds a turn of that session, a
    Processing session names a turn, the handler works on a turn;
  - `MaintenanceInv`: from the moment maintenance has cleared the queue until the permit
    is dropped the queue is empty and the session not Processing, and under the permit
    there is no active turn and no execution. RunningOwnsSession needs it because a
    deletion removes the session without looking at its state;
  - `QueueInv`: the *pending* queue, i.e. the turn being started from the queue followed
    by the queue, is within the limit, in order, and holds turns of its session only.
    Stated of the queue alone, the limit would not survive requeue_front.

  There is one lemma per action; those that take the operation lock share
  `OperationStep` (what a new operation and a new queue of one session must satisfy),
  those of the execution task `ExecutionStep`, the cancellations `SignalCancelKeeps`.
  `PlaceInv` needs IInv and a second round of lemmas: a pending turn was submitted, has not
  begun and was not cancelled, the turn of a start from the queue is not queued as well, and
  every accepted turn has a place. `PlaceMove` says what a step on one session owes to it.

  `LifeInv` (theorem `Lives`) follows a turn from its start to the handling of its outcome:
  the turn a session awaits is its own and has begun, a tombstone is for a turn nobody awaits
  (`AwaitedTurns`); outcomes are those of executions that have reported, one of each
  (`ReportedTurns`); the handler submits one start at a time and waits for it (`HandlerWaits`),
  so that the return of another start does not move it; and a running turn that was not told
  to stop is the one its session awaits, or is about to await (`RunningIsAwaited`). The last one
  gives `FailuresSpareRunning`: the handler clears a queue only when the turn that failed is
  the awaited one or none is, and that turn has reported.

  ActiveHasOutcome and MarksHaveOutcome do not hold when an outcome is lost, by a panic or by a full
  channel. `NoOutcomeLost` says that neither has happened, `AwaitedArrive` and `MarksAreUsed` are
  proved of the behaviours in which it always holds, and `SmallLoadLosesNothing` says when that
  is: no panics, and no more turns than the channel holds, each of which reports once. The
  instance of SchedulerOutcomes is such a one.

  `SchedulerImplementsSessionTurns` is the refinement. It needs `SessionInv` (theorem
  `SessionsHold`) as well: a turn that does not come from the queue is started when nobody waits
  (`DirectStarts`), which for a session that is not loaded holds because its deletion left it
  without queue and awaited turn (`GoneSessions`); and a session works on a turn of its own
  (`CurrentAtHome`), so that a cancellation stops a turn of that session. One lemma
  per group of actions maps each step to a step of SessionTurns or to none (`...Seen`); which
  step a change of one session's operation and queue makes follows from `LineStep`. With the
  refinement, `CancelledNeverRuns` (a turn announced as cancelled never gets an execution) is a
  proof about the six steps of SessionTurns instead of one about every action.
* **KeyedAsyncLockProofs**: `LockMutualExclusion`, `LockOneLiveGeneration`,
  `LockNoDeadEntry`, and the refinement `LockImplementsSessionLock`. The invariant behind
  them is that whoever waits for or holds a generation finds it registered under its key,
  and that a generation belongs to one key.
* **TurnSettlementProofs**: `SettlementTypes`, `HistoryNotActive` and `HistoryListed`. The
  invariant adds that entries are filed under their own key and that a last drop under way
  keeps its entry active; with it, the vacant case of register_accepted cannot meet a drop
  that is about to store an older completion. On top of it, `RegistrationsCounted` (the counter
  of an entry is the number of its live registrations, by cardinality of the set `Registered`
  that each step grows or shrinks by one), and from it `OwedIsTracked` and
  `SettledIsReallyOver`. `HistoryIsKept`: the order lists a completion once (`RecordedOnce`), and
  what it lists is stored under its key unless its id was used for another execution
  (`ListedIsKnown`); from it `HistoryAnswers`, an action property of the wait's second lookup.
* **ToolRoundProofs**: `RoundInvariant` and from it `RoundTypeOK`, `ToolsRunAuthorized`,
  `RequestsAreWithdrawn`, `TokensAreReleased`, `SerialCallsAreAlone`, `StatusesTellOutcomes`, and
  `RequestsCloseOnce` (a request is closed by one answer with one record, which no run checks).
  The invariant says of each call what its plan stands for until the call takes it
  (`PlanInv`), which of its requests are approved at each point of the execution
  (`ApprovalInv`), and of the round that earlier batches are over and later ones have not
  begun (`RoundInv`). That a call with a granted plan may run although grants are removed later
  needs the history variable `waived`. A step of one call disturbs no other because a request
  belongs to one call (`OthersKept`, `ToolStep`); that a serial call has a batch of its own
  is a fact about cardinalities of prefixes (`BatchBoundary`). `ResultsFollowBatches` says that
  the collected results are those of the batches that are over, in order. These calls
  contain, with each call, all earlier ones (`ClosedDownwards`), hence they are an interval
  (`LeastNumber`), and to sort an interval is to count it (`SortedInterval`), by which
  `EachCallHasOneResult` is proved without unfolding a sort.
* **RoundInjectionsProofs**: `MessagesReachTheirTurn`, `InjectedBeforeAnswer` and the action
  property `OtherTurnsKept`. The invariant ties the buffer to the fate of each message, the
  target to the message's aim, and what a turn was given to one turn.
* **BackgroundOutcomesProofs**: `RunningTasksHaveOwner`, `WaitsAreWoken`,
  `OutcomesAreDeliveredOnce`, `ReportsStayTrue`, `RowsFollowChildren`, `MemoryFollowsRows`, and
  the refinement `RowsImplementLedger`. The invariant says who is about to settle a row
  (`WinnerMatchesRow`, `SuppressedIsClaimed`), that rows of earlier processes have nobody who
  works on them (`OwnedByRunner`), and of waits that what one is about to claim was not handed
  to its turn before (`ClaimIsFresh`), which holds because the waits of one turn do not
  overlap (`WaitsInTurn`).
* **CronServiceProofs**: `CronInvariance` and from it `ActiveJobsAreOwed`, `OneTurnIsUnreported`,
  `TriggersRunOnce` and `TriggersAreKept`. The invariant says the same of the table and of
  `jobs.json` (`Sound`: no trigger lies in the future, a job that waits for a turn was
  enqueued, every enabled job is armed), for a restart makes the one out of the other and a
  failed save leaves them apart; that a trigger that was accepted is no trigger any more
  (`Exclusive`), which holds because `apply_due_trigger` moves `next` past the clock and every
  accepted trigger lies behind it; that a turn that has yet to announce its end neither winds up
  nor has an event on its way (`TurnsOnce`), so that no event, not even the second one of a
  cancelled turn, releases a job whose turn still runs; and that the job of a `process_job` under way stands still
  between its submission and its record (`SubmitsPending`), because the lock is held. Each
  function of a job's state has a lemma of what it keeps; the steps that write one entry share
  `EntryStep`.

Model-checked only: liveness under fairness (QueuedLeaves, ActiveSettles, EveryCallReturns, RoundEnds,
BufferedLeaves, WaitEnds, TriggersAreTaken), which is outside what the prover does. Every other
property of a passing run has a theorem. QueueByPriority has a theorem and no run of its own, since
the place SessionTurns gives to a turn that joins implies it.

## 5. Not modelled

* Turns started on the coordinator directly, without the scheduler (tests and a few
  internal callers), and the turns of hidden subagents, which share the queue but report
  through a channel of their own. A background subagent is modelled from its start to
  its outcome, its own turn only by how it ends.
* Thread-goal continuation, except for the messages it injects; user questions, whose
  waits are those of a running tool.
* The refusal of a submission whose storage path does not match the session, and the
  other ways `start_dialog_turn` fails before it touches the session: they are one
  outcome, StartRejected.
* Restart of the process in the scheduler's models: all of their state is in memory, so a
  restart is `Init` (sessions are restored as Idle). BackgroundOutcomes, where rows
  survive, has it as an action. Two processes on one database are not modelled.
* In a round: model requests and their retries, compression, the content of tools, delegated
  session policies, `cancel_session` (used by tests only). `max_retries` is always 0, so a
  failed call is not tried again.
* Scheduled jobs that open a session of their own for each run (every failed retry opens another
  one), edits of a job's target, the calendar of cron expressions beyond that they recur and may run
  out, the migration of old files.
* Deletion of a session with its tasks and forks of a session.
* The task DAG of `taiji-growth`: its executor is called by no other code. Reading
  it showed that a skipped task does not skip what depends on its dependants, that
  `retry_on: "timeout"` never matches the message "timed out", and that the downstream
  of a disabled node runs.
* The order manager of `taiji-executor`: submissions, fills, rejections and cancellations
  are separate calls under one map, and only the end-to-end test of the engine makes them.
  Reading it showed that `on_fill` does not look at the order's status, so that a fill after
  a cancellation makes the order PartialFilled or Filled, which the diagram of the states at
  the head of `OrderManager` does not have.
* Message contents, events to front ends, persistence formats; numerical code of the
  `taiji-*` crates; adapters, applications and front ends.

## 6. Plan

1. Thread-goal continuation in the outcome handler, composed with `DialogScheduler`.
2. Hidden-subagent turns in the queue, with their own result channel.
3. A refinement of the round: the model is given one result per call, in order, whatever happens
   to the calls.
4. The order manager of `taiji-executor`.
