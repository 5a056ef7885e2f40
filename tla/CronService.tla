------------------------------- MODULE CronService -------------------------------
(***************************************************************************)
(* Scheduled jobs (service/cron): the jobs in memory and in jobs.json, the *)
(* run loop, the calls that create, edit, delete and run jobs, the events  *)
(* of the turns that were enqueued for them, the deletion of their session *)
(* and the restart of the process.                                         *)
(*                                                                         *)
(* mutation_lock is held from the first look at the jobs to the end of the *)
(* save, and process_job holds it across the submission to the scheduler,  *)
(* which waits for the session's operation lock.  Every other section      *)
(* under the lock is one step; process_job is Process, Submit and Record.  *)
(* A job targets a fixed session; its turn is named after the job and the  *)
(* trigger, and the trigger's time is the turn's identity here.            *)
(***************************************************************************)
EXTENDS Naturals, FiniteSets

CONSTANTS
  Jobs, Sessions,
  SessionOf,   \* the session each job targets
  Absent,      \* an entry of the job table that is not there
  AtTimes,     \* the times of one-shot schedules
  Period,      \* of the recurring schedules, anchored at 0
  LastRun,     \* of the recurring schedule that runs out
  RetryDelay,  \* DEFAULT_RETRY_DELAY_MS
  MaxTime,     \* bound: the clock
  Budget,      \* bounds: how often each kind of step may happen
  MaxKinds     \* bound: how many kinds of step meet in one behaviour

(* A schedule is an interval or cron expression without end, a cron expression
   whose year field ends it, one that does not parse, or the time of a one-shot. *)
Never == 0
Recurring == 0
Malformed == MaxTime + 1
Ending == MaxTime + 2
Schedules == {Recurring, Ending} \cup AtTimes

(* Edits, manual runs, deletions of a session, process restarts; failed saves;
   refused submissions and submissions that are reported as refused although
   the turn was queued; edits that are refused; cancelled turns that are reported
   twice; turns that end without an event. *)
Kinds == {"edit", "manual", "delete", "restart", "save", "refuse", "misreport", "invalid",
          "again", "silence"}

ASSUME CronAssumption ==
  /\ SessionOf \in [Jobs -> Sessions]
  /\ MaxTime \in Nat \ {0} /\ Period \in Nat \ {0} /\ RetryDelay \in Nat \ {0}
  /\ AtTimes \subseteq 1..MaxTime /\ LastRun \in Nat
  /\ Budget \in [Kinds -> Nat] /\ MaxKinds \in Nat

VARIABLES
  now,
  jobs,       \* the table in memory
  disk,       \* jobs.json
  fresh,      \* ids no create_job has used
  resolved,   \* creates that have resolved their target and wait for the lock
  proc,       \* the process_job that holds mutation_lock, or none
  manual,     \* run_job_now calls between their mark and their process_job
  alarm,      \* the wakeup the run loop sleeps for
  live,       \* turns queued or running whose end has not been announced
  winding,    \* turns that have ended but that the scheduler still holds
  silent,     \* turns whose end no event announces
  known,      \* turn ids this process has accepted
  events,     \* terminal events of turns, not yet routed
  session,    \* "open", "deleting" (holds the operation lock) or "gone"
  spent       \* how much of Budget is used

vars == <<now, jobs, disk, fresh, resolved, proc, manual, alarm,
          live, winding, silent, known, events, session, spent>>
turns == <<live, winding, silent, known, events>>

Time == 0..(MaxTime + Period + RetryDelay)
Job == [enabled : BOOLEAN, schedule : Schedules \cup {Malformed}, next : Time,
        pending : Time, retry : Time, active : Time, enqueued : BOOLEAN, late : BOOLEAN]
Entry == Job \cup {Absent}
Idle == [pc |-> "none"]

Spend(kinds) ==
  /\ \A k \in kinds : spent[k] < Budget[k]
  /\ Cardinality({k \in Kinds : spent[k] > 0} \cup kinds) <= MaxKinds
  /\ spent' = [k \in Kinds |-> IF k \in kinds THEN spent[k] + 1 ELSE spent[k]]

Present(j) == jobs[j] # Absent
LockFree == proc.pc = "none"
OneShot(sch) == sch \notin {Recurring, Ending, Malformed}

----------------------------------------------------------------------------
(* Schedules. *)

NextAfter(sch, t) ==
  IF OneShot(sch) THEN (IF sch > t THEN sch ELSE Never)
                  ELSE ((t \div Period) + 1) * Period

(* The computation of a next run returns an error: the schedule does not parse,
   or its expression "produced no future run time". *)
Fails(sch, t) == sch = Malformed \/ (sch = Ending /\ NextAfter(sch, t) > LastRun)

(* validate_schedule asks for a run since created_at; a job is late when the
   ending schedule had none when it was created. *)
Late(t) == Fails(Ending, t - 1)
Valid(sch, late) == sch # Malformed /\ (sch = Ending => ~late)

InitialNext(job, t) ==
  IF ~OneShot(job.schedule) THEN NextAfter(job.schedule, t)
  ELSE IF job.enqueued \/ job.active # Never THEN Never ELSE job.schedule

PendingAt(job) == IF job.retry # Never THEN job.retry ELSE job.pending
PendingIsDue(job, t) == job.pending # Never /\ PendingAt(job) <= t
Wakeups(job) == {job.next} \cup (IF job.pending = Never THEN {} ELSE {PendingAt(job)})

AllWakeups(table) ==
  UNION {Wakeups(table[j]) : j \in {i \in Jobs : table[i] # Absent}} \ {Never}
NextWakeup(table) ==
  IF AllWakeups(table) = {} THEN Never
  ELSE CHOOSE t \in AllWakeups(table) : \A u \in AllWakeups(table) : t <= u

(* The end of a section that changed the table.  A save that fails returns its
   error before the run loop is notified. *)
Saved(table, kinds) ==
  jobs' = table /\ disk' = table /\ alarm' = NextWakeup(table) /\ Spend(kinds)
SaveFailed(table, kinds) ==
  jobs' = table /\ disk' = disk /\ alarm' = alarm /\ Spend(kinds \cup {"save"})
Save(table, kinds) == Saved(table, kinds) \/ SaveFailed(table, kinds)

----------------------------------------------------------------------------
(* The job's runtime state. *)

ClearPending(job) == [job EXCEPT !.pending = Never, !.retry = Never]

ApplyDue(job, t) ==
  LET later == [job EXCEPT !.next = NextAfter(job.schedule, t)]
  IN  IF job.active # Never \/ job.pending # Never THEN later
      ELSE [later EXCEPT !.pending = job.next, !.retry = Never]

MarkManual(job, t) == [job EXCEPT !.pending = t, !.retry = Never]

(* One mutant ends every schedule with its first run, one keeps the trigger. *)
MarkEnqueuedForGood(job, at) ==
  [ClearPending(job) EXCEPT !.active = at, !.enqueued = TRUE, !.next = Never]
MarkEnqueuedAgain(job, at) ==
  [job EXCEPT !.active = at, !.enqueued = TRUE]
MarkEnqueued(job, at) ==
  LET taken == [ClearPending(job) EXCEPT !.active = at, !.enqueued = TRUE]
  IN  IF OneShot(job.schedule) THEN [taken EXCEPT !.next = Never, !.enabled = FALSE] ELSE taken

MarkFailed(job, t) == [job EXCEPT !.retry = t + RetryDelay]
MarkMissing(job) ==
  [ClearPending(job) EXCEPT !.active = Never, !.next = Never, !.enabled = FALSE]

NextAfterUpdate(old, new, t) ==
  IF new.schedule # old.schedule \/ (new.enabled /\ ~old.enabled) THEN NextAfter(new.schedule, t)
  ELSE IF new.active = Never THEN InitialNext(new, t)
  ELSE IF OneShot(new.schedule) THEN Never ELSE NextAfter(new.schedule, t)

Updated(old, sch, en, t) ==
  LET new == [ClearPending(old) EXCEPT !.schedule = sch, !.enabled = en]
  IN  [new EXCEPT !.next = IF en THEN NextAfterUpdate(old, new, t) ELSE Never]

Reconciled(job, t) ==
  LET idle == IF job.active = Never THEN job ELSE [ClearPending(job) EXCEPT !.active = Never]
  IN  IF ~idle.enabled THEN [ClearPending(idle) EXCEPT !.next = Never]
      ELSE IF idle.pending # Never
           THEN [idle EXCEPT !.retry = IF @ = Never THEN t ELSE @]
      ELSE IF idle.next = Never THEN [idle EXCEPT !.next = InitialNext(idle, t)]
      ELSE idle

(* What reconcile_loaded_job returns no error for. *)
Loadable(job, t) ==
  /\ Valid(job.schedule, job.late)
  /\ job.enabled /\ job.next = Never /\ (job.active # Never \/ job.pending = Never) =>
       ~Fails(job.schedule, t)

----------------------------------------------------------------------------
Init ==
  /\ now = 1
  /\ jobs = [j \in Jobs |-> Absent] /\ disk = jobs
  /\ fresh = Jobs /\ resolved = {} /\ manual = {}
  /\ proc = Idle
  /\ alarm = Never
  /\ live = {} /\ winding = {} /\ silent = {} /\ known = {} /\ events = {}
  /\ session = [s \in Sessions |-> "open"]
  /\ spent = [k \in Kinds |-> 0]

Tick ==
  /\ now < MaxTime
  /\ now' = now + 1
  /\ UNCHANGED <<jobs, disk, fresh, resolved, proc, manual, alarm, turns, session, spent>>

(* create_job: the session is looked up before the lock is taken. *)
Resolve(j) ==
  /\ j \in fresh /\ session[SessionOf[j]] # "gone"
  /\ fresh' = fresh \ {j} /\ resolved' = resolved \cup {j}
  /\ UNCHANGED <<now, jobs, disk, proc, manual, alarm, turns, session, spent>>

Create(j, sch, en) ==
  LET blank == [enabled |-> en, schedule |-> sch, next |-> Never, pending |-> Never,
                retry |-> Never, active |-> Never, enqueued |-> FALSE, late |-> Late(now)]
  IN  /\ LockFree /\ j \in resolved
      /\ Valid(sch, Late(now)) /\ (en => ~Fails(sch, now))
      /\ resolved' = resolved \ {j}
      /\ Save([jobs EXCEPT ![j] =
                 IF en THEN [blank EXCEPT !.next = InitialNext(blank, now)] ELSE blank], {})
      /\ UNCHANGED <<now, fresh, proc, manual, turns, session>>

(* update_job writes the new fields into the table before it validates them. *)
Update(j, sch, en) ==
  /\ LockFree /\ Present(j) /\ Valid(sch, jobs[j].late) /\ (en => ~Fails(sch, now))
  /\ Save([jobs EXCEPT ![j] = Updated(@, sch, en, now)], {"edit"})
  /\ UNCHANGED <<now, fresh, resolved, proc, manual, turns, session>>

(* The name, the payload or the schedule is refused, or the schedule has no next
   run, which is found out when the waiting trigger has been cleared. *)
UpdateRefused(j, sch, en) ==
  LET written == [jobs[j] EXCEPT !.schedule = sch, !.enabled = en]
  IN  /\ LockFree /\ Present(j) /\ Spend({"invalid"})
      /\ \/ jobs' = [jobs EXCEPT ![j] = written]
         \/ /\ Valid(sch, jobs[j].late) /\ en /\ Fails(sch, now)
            /\ jobs' = [jobs EXCEPT ![j] = ClearPending(written)]
      /\ UNCHANGED <<now, disk, fresh, resolved, proc, manual, alarm, turns, session>>

Delete(j) ==
  /\ LockFree /\ Present(j)
  /\ Save([jobs EXCEPT ![j] = Absent], {})
  /\ UNCHANGED <<now, fresh, resolved, proc, manual, turns, session>>

(* run_job_now, its first section.  No two triggers share a millisecond. *)
RunNow(j) ==
  LET marked == [jobs EXCEPT ![j] = MarkManual(@, now)]
  IN  /\ LockFree /\ Present(j) /\ <<j, now>> \notin known
      /\ \/ Saved(marked, {"manual"}) /\ manual' = manual \cup {j}
         \/ SaveFailed(marked, {"manual"}) /\ UNCHANGED manual
      /\ UNCHANGED <<now, fresh, resolved, proc, turns, session>>

----------------------------------------------------------------------------
(* process_job, for the run loop (process_due_jobs) or for run_job_now. *)

NextIsDue(job) == job.next # Never /\ job.next <= now
Due(j) == Present(j) /\ \E t \in Wakeups(jobs[j]) \ {Never} : t <= now
RunnableAnyway(job) == PendingIsDue(job, now)  \* mutant: beside the running turn
Runnable(job) == job.active = Never /\ PendingIsDue(job, now)

(* What process_job returns an error for, before it changes anything. *)
Broken(j) ==
  /\ Present(j) /\ Fails(jobs[j].schedule, now) /\ NextIsDue(jobs[j])
  /\ jobs[j].enabled \/ jobs[j].pending # Never

(* The run loop goes through the due jobs by their wakeups, those of one wakeup
   by their ids, and stops at the first error. *)
Before(j, k) ==
  \E t \in Wakeups(jobs[j]) \ {Never} : \A u \in Wakeups(jobs[k]) \ {Never} : t <= u
LoopReaches(j) ==
  /\ alarm # Never /\ alarm <= now /\ Due(j)
  /\ \A k \in Jobs : Broken(k) => Before(j, k)

(* A failed save ends the pass of the run loop, which sleeps a second and looks
   at the table again. *)
Looked(loop, table) == alarm' = IF loop THEN NextWakeup(table) ELSE alarm

Process(j, loop) ==
  LET due == NextIsDue(jobs[j])
      table == IF due THEN [jobs EXCEPT ![j] = ApplyDue(@, now)] ELSE jobs
      runs == Runnable(table[j])
  IN  /\ LockFree /\ Present(j) /\ ~Broken(j)
      /\ IF loop THEN LoopReaches(j) ELSE j \in manual
      /\ jobs[j].enabled \/ jobs[j].pending # Never
      /\ due \/ runs
      /\ \/ /\ jobs' = table /\ disk' = (IF due THEN table ELSE disk) /\ UNCHANGED spent
            /\ proc' = IF runs THEN [pc |-> "submitting", job |-> j, at |-> table[j].pending,
                                     loop |-> loop]
                       ELSE Idle
            /\ IF runs THEN UNCHANGED <<alarm, manual>>
               ELSE Looked(loop, table) /\ manual' = IF loop THEN manual ELSE manual \ {j}
         \/ /\ due /\ Spend({"save"}) /\ jobs' = table /\ UNCHANGED <<disk, proc>>
            /\ Looked(loop, table) /\ manual' = IF loop THEN manual ELSE manual \ {j}
      /\ UNCHANGED <<now, fresh, resolved, turns, session>>

(* process_job finds nothing to do, or fails at once. *)
ManualReturns(j) ==
  /\ LockFree /\ j \in manual
  /\ Present(j) => \/ Broken(j)
                   \/ ~jobs[j].enabled /\ jobs[j].pending = Never
                   \/ ~NextIsDue(jobs[j]) /\ ~Runnable(jobs[j])
  /\ manual' = manual \ {j}
  /\ UNCHANGED <<now, jobs, disk, fresh, resolved, proc, alarm, turns, session, spent>>

(* The run loop wakes and takes the next wakeup from the table. *)
LoopLooks ==
  /\ alarm # Never /\ alarm <= now /\ alarm # NextWakeup(jobs)
  /\ LockFree
  /\ alarm' = NextWakeup(jobs)
  /\ UNCHANGED <<now, jobs, disk, fresh, resolved, proc, manual, turns, session, spent>>

(* The scheduler registers the turn id, takes the operation lock and answers. *)
Submit ==
  LET id == <<proc.job, proc.at>>
      Answer(pc) == proc' = [proc EXCEPT !.pc = pc]
      Accept == live' = live \cup {id} /\ known' = known \cup {id}
      late == now + RetryDelay > MaxTime
  IN  /\ proc.pc = "submitting"
      /\ \/ /\ id \in known /\ Answer("refused") /\ UNCHANGED <<live, known, spent>>
         \/ /\ id \notin known /\ session[SessionOf[proc.job]] = "gone"
            /\ Answer("missing") /\ UNCHANGED <<live, known, spent>>
         \/ /\ id \notin known /\ session[SessionOf[proc.job]] = "open"
            /\ \/ Accept /\ Answer("accepted") /\ UNCHANGED spent
               \/ Spend({"refuse"}) /\ ~late /\ Answer("refused") /\ UNCHANGED <<live, known>>
               \/ Spend({"misreport"}) /\ ~late /\ Accept /\ Answer("refused")
      /\ UNCHANGED <<now, jobs, disk, fresh, resolved, manual, alarm, winding, silent, events, session>>

Record ==
  LET j == proc.job
      outcome == CASE proc.pc = "accepted" -> MarkEnqueued(jobs[j], proc.at)
                   [] proc.pc = "refused"  -> MarkFailed(jobs[j], now)
                   [] OTHER                -> MarkMissing(jobs[j])
      table == [jobs EXCEPT ![j] = outcome]
  IN  /\ proc.pc \in {"accepted", "refused", "missing"}
      /\ \/ Saved(table, {})
         \/ jobs' = table /\ Spend({"save"}) /\ UNCHANGED disk /\ Looked(proc.loop, table)
      /\ proc' = Idle
      /\ manual' = IF proc.loop THEN manual ELSE manual \ {j}
      /\ UNCHANGED <<now, fresh, resolved, turns, session>>

----------------------------------------------------------------------------
(* The turns, and the events the subscriber handles one after the other. *)

(* A turn announces its end first; then it is saved, leaves the session and is
   taken from active_turns by its outcome.  A turn removed from the queue leaves
   first, but nothing looks at it in between. *)
TurnReports(id) ==
  /\ id \in live
  /\ live' = live \ {id} /\ winding' = winding \cup {id} /\ events' = events \cup {id}
  /\ UNCHANGED <<now, jobs, disk, fresh, resolved, proc, manual, alarm, silent, known, session, spent>>

(* The execution panics, or the event queue is full. *)
TurnIsSilent(id) ==
  /\ id \in live /\ Spend({"silence"})
  /\ live' = live \ {id} /\ winding' = winding \cup {id} /\ silent' = silent \cup {id}
  /\ UNCHANGED <<now, jobs, disk, fresh, resolved, proc, manual, alarm, known, events, session>>

(* Engine and coordinator both report a turn that was cancelled between rounds. *)
ReportsAgain(id) ==
  /\ id \in winding \ silent /\ Spend({"again"})
  /\ events' = events \cup {id}
  /\ UNCHANGED <<now, jobs, disk, fresh, resolved, proc, manual, alarm,
                 live, winding, silent, known, session>>

TurnLeaves(id) ==
  /\ id \in winding
  /\ winding' = winding \ {id}
  /\ UNCHANGED <<now, jobs, disk, fresh, resolved, proc, manual, alarm,
                 live, silent, known, events, session, spent>>

(* handle_turn_started only saves the table and wakes the loop. *)
StartIsNoted(j) ==
  /\ LockFree /\ Present(j) /\ jobs[j].active # Never
  /\ Save(jobs, {})
  /\ UNCHANGED <<now, fresh, resolved, proc, manual, turns, session>>

(* Mutants: without the lock; the event is not one the subscriber knows. *)
HandleEventUnlocked(id) ==
  LET mine == {j \in Jobs : Present(j) /\ j = id[1] /\ jobs[j].active = id[2]}
  IN  /\ events' = events \ {id}
      /\ jobs' = [j \in Jobs |-> IF j \in mine THEN [jobs[j] EXCEPT !.active = Never] ELSE jobs[j]]
      /\ UNCHANGED <<now, disk, alarm, spent, fresh, resolved, proc, manual,
                     live, winding, silent, known, session>>
HandleEventIgnored(id) ==
  /\ LockFree /\ id \in events
  /\ events' = events \ {id}
  /\ UNCHANGED <<now, jobs, disk, alarm, spent, fresh, resolved, proc, manual,
                 live, winding, silent, known, session>>
HandleEvent(id) ==
  LET mine == {j \in Jobs : Present(j) /\ j = id[1] /\ jobs[j].active = id[2]}
  IN  /\ LockFree /\ id \in events
      /\ events' = events \ {id}
      /\ \/ mine = {} /\ UNCHANGED <<jobs, disk, alarm, spent>>
         \/ mine # {} /\ Save([j \in Jobs |->
              IF j \in mine THEN [jobs[j] EXCEPT !.active = Never] ELSE jobs[j]], {})
      /\ UNCHANGED <<now, fresh, resolved, proc, manual, live, winding, silent, known, session>>

(* The deletion takes the operation lock, cancels the session's turns, waits for
   them to end and erases the session; with the lock still held it removes the
   session's jobs. *)
BeginDelete(s) ==
  /\ session[s] = "open" /\ Spend({"delete"})
  /\ session' = [session EXCEPT ![s] = "deleting"]
  /\ UNCHANGED <<now, jobs, disk, fresh, resolved, proc, manual, alarm, turns>>

DeleteFails(s) ==
  /\ session[s] = "deleting"
  /\ session' = [session EXCEPT ![s] = "open"]
  /\ UNCHANGED <<now, jobs, disk, fresh, resolved, proc, manual, alarm, turns, spent>>

DeleteJobsForSession(s) ==
  LET bound == {j \in Jobs : Present(j) /\ SessionOf[j] = s}
  IN  /\ LockFree /\ session[s] = "deleting"
      /\ \A id \in live \cup winding : SessionOf[id[1]] # s
      /\ session' = [session EXCEPT ![s] = "gone"]
      /\ \/ bound = {} /\ UNCHANGED <<jobs, disk, alarm, spent>>
         \/ bound # {} /\ Save([j \in Jobs |-> IF j \in bound THEN Absent ELSE jobs[j]], {})
      /\ UNCHANGED <<now, fresh, resolved, proc, manual, turns>>

(* The process ends and CronService::new loads what was saved; it refuses to
   start with a job it cannot validate. *)
Restart ==
  LET table == [j \in Jobs |-> IF disk[j] = Absent THEN Absent ELSE Reconciled(disk[j], now)]
  IN  /\ Spend({"restart"})
      /\ \A j \in Jobs : disk[j] # Absent => Loadable(disk[j], now)
      /\ jobs' = table /\ disk' = table /\ alarm' = NextWakeup(table)
      /\ proc' = Idle /\ manual' = {} /\ resolved' = {}
      /\ live' = {} /\ winding' = {} /\ silent' = {} /\ known' = {} /\ events' = {}
      /\ session' \in [Sessions -> {"open", "gone"}]
      /\ \A s \in Sessions : session[s] # "deleting" => session'[s] = session[s]
      /\ UNCHANGED <<now, fresh>>

Next ==
  \/ Tick \/ LoopLooks \/ Submit \/ Record \/ Restart
  \/ \E j \in Jobs :
       \/ Resolve(j) \/ Delete(j) \/ RunNow(j) \/ ManualReturns(j) \/ StartIsNoted(j)
       \/ \E loop \in BOOLEAN : Process(j, loop)
       \/ \E en \in BOOLEAN :
            \/ \E sch \in Schedules : Create(j, sch, en) \/ Update(j, sch, en)
            \/ \E sch \in Schedules \cup {Malformed} : UpdateRefused(j, sch, en)
  \/ \E id \in live : TurnReports(id) \/ TurnIsSilent(id)
  \/ \E id \in winding : ReportsAgain(id) \/ TurnLeaves(id)
  \/ \E id \in events : HandleEvent(id)
  \/ \E s \in Sessions : BeginDelete(s) \/ DeleteFails(s) \/ DeleteJobsForSession(s)

Spec == Init /\ [][Next]_vars

(* The clock runs, the loop and the callers of run_job_now go on whenever the
   lock (a fair mutex) and their wakeups let them, the scheduler answers, turns
   end, events are routed and a deletion that was begun goes on.  Nobody has to
   call anything. *)
Fairness ==
  /\ WF_vars(Tick) /\ WF_vars(LoopLooks) /\ WF_vars(Submit) /\ WF_vars(Record)
  /\ SF_vars(\E j \in Jobs : Process(j, TRUE))
  /\ SF_vars(\E j \in Jobs : Process(j, FALSE) \/ ManualReturns(j))
  /\ WF_vars(\E id \in live : TurnReports(id)) /\ WF_vars(\E id \in winding : TurnLeaves(id))
  /\ SF_vars(\E id \in events : HandleEvent(id))
  /\ \A s \in Sessions : SF_vars(DeleteJobsForSession(s))

FairSpec == Spec /\ Fairness

----------------------------------------------------------------------------
(* Every variable has its type; disk is a table like jobs. *)
TypeOK ==
  /\ now \in 1..MaxTime
  /\ jobs \in [Jobs -> Entry] /\ disk \in [Jobs -> Entry]
  /\ fresh \subseteq Jobs /\ resolved \subseteq Jobs /\ manual \subseteq Jobs
  /\ proc \in {Idle} \cup [pc : {"submitting", "accepted", "refused", "missing"},
                           job : Jobs, at : Time, loop : BOOLEAN]
  /\ alarm \in Time
  /\ \A ids \in {live, winding, silent, known, events} : ids \subseteq Jobs \X Time
  /\ session \in [Sessions -> {"open", "deleting", "gone"}]
  /\ spent \in [Kinds -> Nat] /\ \A k \in Kinds : spent[k] <= Budget[k]

(* The turn a job waits for (active_turn_id) has not ended yet or its last event
   is still to come, so the job is released: neither a quick turn whose event
   overtakes mark_enqueued, nor a second report of a cancelled turn, nor the
   deletion of the session, nor a restart leaves a job that waits for nothing and
   never runs again.  Only a turn that ends without an event does, until the
   process restarts. *)
ActiveIsOwed ==
  \A j \in Jobs : Present(j) /\ jobs[j].active # Never =>
     <<j, jobs[j].active>> \in live \cup events \cup silent

(* Of a job's turns at most one has not announced its end, and it is the one the
   job waits for or the one being recorded: process_job enqueues only when
   active_turn_id is none, whatever is edited, failed to save, reported twice or
   run by hand.  A turn that has announced its end may still be in the scheduler
   beside it, and one that was queued and reported as refused is not waited for. *)
OneTurnUnreported ==
  spent["misreport"] = 0 => \A id \in live : Present(id[1]) =>
     \/ jobs[id[1]].active = id[2]
     \/ proc.pc = "accepted" /\ proc.job = id[1] /\ proc.at = id[2]

(* No trigger is lost while its job is enabled: a recurring job always has its
   next run, and a one-shot that was never enqueued and whose time is ahead has
   its own, or waits to be enqueued; edits, coalesced triggers, failed saves and
   restarts (reconcile_loaded_job) included.  A refused edit leaves what it likes. *)
NotForgotten ==
  spent["invalid"] = 0 => \A j \in Jobs : Present(j) /\ jobs[j].enabled =>
     IF OneShot(jobs[j].schedule)
     THEN ~jobs[j].enqueued /\ jobs[j].schedule > now =>
            jobs[j].next = jobs[j].schedule \/ jobs[j].pending # Never
     ELSE jobs[j].next # Never

(* A trigger that waits to be enqueued was not enqueued before by this process:
   one trigger, one turn (process_job retries only what the scheduler refused),
   but for submissions reported as refused although the turn was queued. *)
PendingNotYetRun ==
  spent["misreport"] = 0 => \A j \in Jobs : Present(j) /\ jobs[j].pending # Never /\ <<j, jobs[j].pending>> \in known =>
     proc.pc = "accepted" /\ proc.job = j

(* The run loop wakes for every due job: what is due is taken in the end, also
   behind a running turn, a failed submission or a restart, as long as every save
   succeeds.  The exception is an expression that has run out: its last trigger is
   never taken, and no job sorted behind it is reached. *)
Stopped(j) == \E k \in Jobs : Broken(k) /\ Before(k, j)
TriggersAreTaken == \A j \in Jobs : Due(j) ~> (~Due(j) \/ Stopped(j))

----------------------------------------------------------------------------
(* What the code says and does not keep. *)

(* delete_jobs_for_session: "Remove all scheduled jobs bound to the given session
   (e.g. after session delete)".  A deletion that was begun comes to that. *)
DeletionEnds == \A s \in Sessions : session[s] = "deleting" ~> session[s] # "deleting"

==================================================================================
