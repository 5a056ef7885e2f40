--------------------------- MODULE CronServiceProofs ---------------------------
(***************************************************************************)
(* Proofs about CronService, for any jobs, sessions, schedules and budgets: *)
(* a job waits only for a turn that reports its end (or ends in silence), it *)
(* has no second turn that has not reported, and no trigger is lost or is    *)
(* submitted again once it was accepted.                                     *)
(***************************************************************************)
EXTENDS CronService, TLAPS

(* A job without the bounds of TLC's instances. *)
Rec == [enabled : BOOLEAN, schedule : Nat, next : Nat, pending : Nat, retry : Nat,
        active : Nat, enqueued : BOOLEAN, late : BOOLEAN]

Busy == [pc : {"submitting", "accepted", "refused", "missing"}, job : Jobs, at : Nat,
         loop : BOOLEAN]

Types ==
  /\ now \in Nat \ {0}
  /\ jobs \in [Jobs -> Rec \cup {Absent}] /\ disk \in [Jobs -> Rec \cup {Absent}]
  /\ fresh \subseteq Jobs /\ resolved \subseteq Jobs
  /\ proc \in {Idle} \cup Busy
  /\ live \subseteq Jobs \X Nat /\ known \subseteq Jobs \X Nat /\ events \subseteq Jobs \X Nat
  /\ winding \subseteq Jobs \X Nat /\ silent \subseteq Jobs \X Nat
  /\ spent \in [Kinds -> Nat]

(* A turn was accepted for a trigger of the past.  One that is still to announce
   its end is not winding up and has no event on its way. *)
TurnsOnce ==
  /\ live \subseteq known /\ events \subseteq known /\ winding \subseteq known
  /\ live \cap events = {} /\ live \cap winding = {}
  /\ \A j \in Jobs : \A t \in Nat : <<j, t>> \in known => t # Never /\ t <= now

(* What is not created yet has never run. *)
NewIsBlank ==
  /\ fresh \cap resolved = {}
  /\ \A j \in fresh \cup resolved :
       jobs[j] = Absent /\ disk[j] = Absent /\ \A t \in Nat : <<j, t>> \notin known

(* NotForgotten, of one job. *)
Armed(job, t) ==
  job.enabled =>
    IF OneShot(job.schedule)
    THEN ~job.enqueued /\ job.schedule > t => job.next = job.schedule \/ job.pending # Never
    ELSE job.next # Never

(* What the file says of a job. *)
Sound(job) ==
  /\ job \in Rec
  /\ job.pending <= now
  /\ job.active # Never => job.enqueued
  /\ spent["invalid"] = 0 => Armed(job, now)

(* The only turn of job j that has not announced its end is the one it waits for,
   and none of its triggers to come has been accepted. *)
Exclusive(j, job) ==
  \A t \in Nat :
    /\ <<j, t>> \in live => job.active = t
    /\ <<j, t>> \in known => job.enqueued /\ job.next # t /\ job.pending # t

Owed(j, job) == job.active # Never => <<j, job.active>> \in live \cup events \cup silent

JobsSound ==
  \A j \in Jobs : Present(j) =>
    /\ Sound(jobs[j]) /\ Owed(j, jobs[j])
    /\ spent["misreport"] = 0 =>
         Exclusive(j, jobs[j]) \/ (proc.pc = "accepted" /\ proc.job = j)

DiskSound == \A j \in Jobs : disk[j] # Absent => Sound(disk[j])

(* What process_job knows of its job while it holds the lock. *)
SubmitsPending ==
  proc.pc # "none" =>
    /\ proc.job \notin fresh \cup resolved
    /\ Sound(jobs[proc.job])
    /\ jobs[proc.job].active = Never /\ jobs[proc.job].pending = proc.at
    /\ proc.at # Never /\ jobs[proc.job].next # proc.at
    /\ proc.pc = "accepted" => <<proc.job, proc.at>> \in live \cup events \cup silent
    /\ spent["misreport"] = 0 =>
         IF proc.pc = "accepted"
         THEN \A t \in Nat : /\ <<proc.job, t>> \in live => t = proc.at
                             /\ <<proc.job, t>> \in known => jobs[proc.job].next # t
         ELSE Exclusive(proc.job, jobs[proc.job])

IInv ==
  /\ Types /\ TurnsOnce /\ NewIsBlank
  /\ JobsSound /\ DiskSound /\ SubmitsPending

(* Budgets are only ever spent. *)
Grows ==
  /\ spent' \in [Kinds -> Nat]
  /\ \A k \in Kinds : spent'[k] = 0 => spent[k] = 0

LEMMA SpendGrows ==
  ASSUME Types, NEW kinds, Spend(kinds)
  PROVE  Grows
BY DEF Types, Spend, Grows

LEMMA UnspentGrows ==
  ASSUME Types, spent' = spent
  PROVE  Grows
BY DEF Types, Grows

LEMMA SaveFacts ==
  ASSUME Types, NEW table, NEW kinds, Save(table, kinds)
  PROVE  Grows /\ jobs' = table /\ (disk' = disk \/ disk' = jobs')
BY SpendGrows DEF Save, Saved, SaveFailed

LEMMA InitEstablishes == Init => IInv
BY CronAssumption
DEF Init, IInv, Types, TurnsOnce, NewIsBlank, JobsSound, DiskSound, SubmitsPending, Present,
    Idle, Rec

--------------------------------------------------------------------------------
(* Schedules and the functions of a job's state. *)

LEMMA NextAfterFacts ==
  ASSUME NEW s \in Nat, NEW t \in Nat
  PROVE  /\ NextAfter(s, t) \in Nat
         /\ NextAfter(s, t) # Never => NextAfter(s, t) > t
         /\ OneShot(s) /\ s > t => NextAfter(s, t) = s
         /\ ~OneShot(s) => NextAfter(s, t) # Never
<1>1. Period \in Nat \ {0}
  BY CronAssumption
<1>2. /\ t \div Period \in Nat
      /\ ((t \div Period) + 1) * Period \in Nat
      /\ ((t \div Period) + 1) * Period > t
  BY <1>1
<1> QED
  BY <1>2 DEF NextAfter, Never

LEMMA ApplyDueFacts ==
  ASSUME NEW e \in Rec, NEW t \in Nat
  PROVE  /\ ApplyDue(e, t) \in Rec
         /\ ApplyDue(e, t).enabled = e.enabled /\ ApplyDue(e, t).schedule = e.schedule
         /\ ApplyDue(e, t).active = e.active /\ ApplyDue(e, t).enqueued = e.enqueued
         /\ ApplyDue(e, t).next = NextAfter(e.schedule, t)
         /\ ApplyDue(e, t).pending = IF e.active # Never \/ e.pending # Never THEN e.pending
                                     ELSE e.next
BY NextAfterFacts DEF ApplyDue, Rec, Never

LEMMA ClearPendingFacts ==
  ASSUME NEW e \in Rec
  PROVE  /\ ClearPending(e) \in Rec
         /\ ClearPending(e).pending = Never /\ ClearPending(e).retry = Never
         /\ ClearPending(e).enabled = e.enabled /\ ClearPending(e).schedule = e.schedule
         /\ ClearPending(e).next = e.next /\ ClearPending(e).active = e.active
         /\ ClearPending(e).enqueued = e.enqueued
<1> DEFINE a == [e EXCEPT !.pending = Never]
<1>1. /\ a \in Rec /\ a.pending = Never /\ a.enabled = e.enabled /\ a.schedule = e.schedule
      /\ a.next = e.next /\ a.active = e.active /\ a.enqueued = e.enqueued
  BY DEF Rec, Never
<1>2. ClearPending(e) = [a EXCEPT !.retry = Never]
  BY DEF ClearPending
<1> HIDE DEF a
<1> QED
  BY <1>1, <1>2 DEF Rec, Never

LEMMA MarkManualFacts ==
  ASSUME NEW e \in Rec, NEW t \in Nat
  PROVE  /\ MarkManual(e, t) \in Rec /\ MarkManual(e, t).pending = t
         /\ MarkManual(e, t).enabled = e.enabled /\ MarkManual(e, t).schedule = e.schedule
         /\ MarkManual(e, t).next = e.next /\ MarkManual(e, t).active = e.active
         /\ MarkManual(e, t).enqueued = e.enqueued
<1> DEFINE a == [e EXCEPT !.pending = t]
<1>1. /\ a \in Rec /\ a.pending = t /\ a.enabled = e.enabled /\ a.schedule = e.schedule
      /\ a.next = e.next /\ a.active = e.active /\ a.enqueued = e.enqueued
  BY DEF Rec
<1>2. MarkManual(e, t) = [a EXCEPT !.retry = Never]
  BY DEF MarkManual
<1> HIDE DEF a
<1> QED
  BY <1>1, <1>2 DEF Rec, Never

LEMMA MarkFailedFacts ==
  ASSUME NEW e \in Rec, NEW t \in Nat
  PROVE  /\ MarkFailed(e, t) \in Rec /\ MarkFailed(e, t).pending = e.pending
         /\ MarkFailed(e, t).enabled = e.enabled /\ MarkFailed(e, t).schedule = e.schedule
         /\ MarkFailed(e, t).next = e.next /\ MarkFailed(e, t).active = e.active
         /\ MarkFailed(e, t).enqueued = e.enqueued
<1> RetryDelay \in Nat
  BY CronAssumption
<1> QED
  BY DEF MarkFailed, Rec

LEMMA MarkMissingFacts ==
  ASSUME NEW e \in Rec
  PROVE  /\ MarkMissing(e) \in Rec /\ MarkMissing(e).enabled = FALSE
         /\ MarkMissing(e).active = Never /\ MarkMissing(e).pending = Never
         /\ MarkMissing(e).next = Never /\ MarkMissing(e).enqueued = e.enqueued
<1> DEFINE a == ClearPending(e)
           b == [a EXCEPT !.active = Never]
           c == [b EXCEPT !.next = Never]
<1>1. a \in Rec /\ a.pending = Never /\ a.enqueued = e.enqueued
  BY ClearPendingFacts
<1>2. MarkMissing(e) = [c EXCEPT !.enabled = FALSE]
  BY DEF MarkMissing
<1> HIDE DEF a
<1>3. b \in Rec /\ b.active = Never /\ b.pending = Never /\ b.enqueued = e.enqueued
  BY <1>1 DEF Rec, Never
<1> HIDE DEF b
<1>4. /\ c \in Rec /\ c.active = Never /\ c.pending = Never /\ c.enqueued = e.enqueued
      /\ c.next = Never
  BY <1>3 DEF Rec, Never
<1> HIDE DEF c
<1> QED
  BY <1>2, <1>4 DEF Rec, Never

LEMMA MarkEnqueuedFacts ==
  ASSUME NEW e \in Rec, NEW t \in Nat
  PROVE  /\ MarkEnqueued(e, t) \in Rec
         /\ MarkEnqueued(e, t).active = t /\ MarkEnqueued(e, t).enqueued = TRUE
         /\ MarkEnqueued(e, t).pending = Never
         /\ MarkEnqueued(e, t).schedule = e.schedule
         /\ OneShot(e.schedule) => /\ MarkEnqueued(e, t).next = Never
                                   /\ MarkEnqueued(e, t).enabled = FALSE
         /\ ~OneShot(e.schedule) => /\ MarkEnqueued(e, t).next = e.next
                                    /\ MarkEnqueued(e, t).enabled = e.enabled
<1> DEFINE a == ClearPending(e)
           b == [a EXCEPT !.active = t]
           c == [b EXCEPT !.enqueued = TRUE]
           d == [c EXCEPT !.next = Never]
<1>1. /\ a \in Rec /\ a.pending = Never /\ a.schedule = e.schedule /\ a.next = e.next
      /\ a.enabled = e.enabled
  BY ClearPendingFacts
<1>2. MarkEnqueued(e, t) = IF OneShot(e.schedule) THEN [d EXCEPT !.enabled = FALSE] ELSE c
  BY DEF MarkEnqueued
<1> HIDE DEF a
<1>3. /\ b \in Rec /\ b.pending = Never /\ b.schedule = e.schedule /\ b.next = e.next
      /\ b.enabled = e.enabled /\ b.active = t
  BY <1>1 DEF Rec
<1> HIDE DEF b
<1>4. /\ c \in Rec /\ c.pending = Never /\ c.schedule = e.schedule /\ c.next = e.next
      /\ c.enabled = e.enabled /\ c.active = t /\ c.enqueued = TRUE
  BY <1>3 DEF Rec
<1> HIDE DEF c
<1>5. /\ d \in Rec /\ d.pending = Never /\ d.schedule = e.schedule /\ d.next = Never
      /\ d.active = t /\ d.enqueued = TRUE
  BY <1>4 DEF Rec, Never
<1> HIDE DEF d
<1>6. CASE OneShot(e.schedule)
  BY <1>2, <1>5, <1>6 DEF Rec
<1>7. CASE ~OneShot(e.schedule)
  BY <1>2, <1>4, <1>7
<1> QED
  BY <1>6, <1>7

LEMMA InitialNextFacts ==
  ASSUME NEW e \in Rec, NEW t \in Nat
  PROVE  /\ InitialNext(e, t) \in Nat
         /\ ~OneShot(e.schedule) => InitialNext(e, t) > t
         /\ OneShot(e.schedule) /\ (e.enqueued \/ e.active # Never) => InitialNext(e, t) = Never
         /\ OneShot(e.schedule) /\ ~e.enqueued /\ e.active = Never =>
              InitialNext(e, t) = e.schedule
BY NextAfterFacts DEF InitialNext, Rec, Never

(* The next run of an edited job, in terms of its enabled new self. *)
LEMMA UpdatedFacts ==
  ASSUME NEW e \in Rec, NEW sch \in Nat, NEW en \in BOOLEAN, NEW t \in Nat
  PROVE  /\ Updated(e, sch, en, t) \in Rec
         /\ Updated(e, sch, en, t).enabled = en /\ Updated(e, sch, en, t).schedule = sch
         /\ Updated(e, sch, en, t).active = e.active
         /\ Updated(e, sch, en, t).enqueued = e.enqueued
         /\ Updated(e, sch, en, t).pending = Never
         /\ \/ Updated(e, sch, en, t).next = Never
            \/ Updated(e, sch, en, t).next > t
            \/ ~e.enqueued /\ e.active = Never
         /\ (e.active # Never => e.enqueued) => Armed(Updated(e, sch, en, t), t)
<1> DEFINE new == [ClearPending(e) EXCEPT !.schedule = sch, !.enabled = en]
<1>1. /\ new \in Rec /\ new.schedule = sch /\ new.enabled = en
      /\ new.active = e.active /\ new.enqueued = e.enqueued /\ new.pending = Never
  <2> DEFINE a == ClearPending(e)
             b == [a EXCEPT !.schedule = sch]
  <2>1. /\ a \in Rec /\ a.active = e.active /\ a.enqueued = e.enqueued /\ a.pending = Never
    BY ClearPendingFacts
  <2>2. new = [b EXCEPT !.enabled = en]
    OBVIOUS
  <2> HIDE DEF a, new
  <2>3. /\ b \in Rec /\ b.schedule = sch
        /\ b.active = e.active /\ b.enqueued = e.enqueued /\ b.pending = Never
    BY <2>1 DEF Rec
  <2> HIDE DEF b
  <2> QED
    BY <2>2, <2>3 DEF Rec
<1> DEFINE n == IF en THEN NextAfterUpdate(e, new, t) ELSE Never
<1>2. /\ n \in Nat
      /\ n = Never \/ n > t \/ (~e.enqueued /\ e.active = Never)
      /\ en /\ ~OneShot(sch) => n # Never
      /\ en /\ OneShot(sch) /\ sch > t /\ ~e.enqueued /\ e.active = Never => n = sch
  <2>1. /\ NextAfter(sch, t) \in Nat
        /\ NextAfter(sch, t) # Never => NextAfter(sch, t) > t
        /\ OneShot(sch) /\ sch > t => NextAfter(sch, t) = sch
        /\ ~OneShot(sch) => NextAfter(sch, t) # Never
    BY NextAfterFacts
  <2>2. /\ InitialNext(new, t) \in Nat
        /\ ~OneShot(sch) => InitialNext(new, t) > t
        /\ OneShot(sch) /\ (e.enqueued \/ e.active # Never) => InitialNext(new, t) = Never
        /\ OneShot(sch) /\ ~e.enqueued /\ e.active = Never => InitialNext(new, t) = sch
    BY <1>1, InitialNextFacts
  <2> HIDE DEF new
  <2>3. CASE ~en
    BY <2>3 DEF Never
  <2>4. CASE en /\ NextAfterUpdate(e, new, t) = NextAfter(sch, t)
    BY <2>1, <2>4 DEF Never
  <2>5. CASE en /\ e.active = Never /\ NextAfterUpdate(e, new, t) = InitialNext(new, t)
    BY <2>2, <2>5 DEF Never
  <2>6. CASE en /\ e.active # Never /\ OneShot(sch) /\ NextAfterUpdate(e, new, t) = Never
    BY <2>6 DEF Never
  <2> QED
    BY <1>1, <2>3, <2>4, <2>5, <2>6 DEF NextAfterUpdate
<1> HIDE DEF new
<1>3. Updated(e, sch, en, t) = [new EXCEPT !.next = n]
  BY DEF Updated, new
<1> HIDE DEF n
<1>4. /\ Updated(e, sch, en, t) \in Rec
      /\ Updated(e, sch, en, t).enabled = en /\ Updated(e, sch, en, t).schedule = sch
      /\ Updated(e, sch, en, t).active = e.active
      /\ Updated(e, sch, en, t).enqueued = e.enqueued
      /\ Updated(e, sch, en, t).pending = Never
      /\ Updated(e, sch, en, t).next = n
  BY <1>1, <1>2, <1>3 DEF Rec
<1> QED
  BY <1>2, <1>4 DEF Armed

LEMMA ReconciledFacts ==
  ASSUME NEW e \in Rec, NEW t \in Nat \ {0}, e.pending <= t, e.active # Never => e.enqueued
  PROVE  /\ Reconciled(e, t) \in Rec
         /\ Reconciled(e, t).active = Never /\ Reconciled(e, t).pending <= t
         /\ Armed(e, t) => Armed(Reconciled(e, t), t)
<1> DEFINE idle == IF e.active = Never THEN e ELSE [ClearPending(e) EXCEPT !.active = Never]
<1>1. /\ idle \in Rec /\ idle.active = Never /\ idle.pending <= t
      /\ idle.enabled = e.enabled /\ idle.schedule = e.schedule
      /\ idle.enqueued = e.enqueued /\ idle.next = e.next
      /\ e.active = Never => idle = e
      /\ e.active # Never => e.enqueued
  <2>1. CASE e.active = Never
    BY <2>1 DEF Rec
  <2>2. CASE e.active # Never
    <3> DEFINE a == ClearPending(e)
    <3>1. /\ a \in Rec /\ a.pending = Never /\ a.enabled = e.enabled
          /\ a.schedule = e.schedule /\ a.next = e.next /\ a.enqueued = e.enqueued
      BY ClearPendingFacts
    <3>2. idle = [a EXCEPT !.active = Never]
      BY <2>2
    <3> HIDE DEF a, idle
    <3> QED
      BY <2>2, <3>1, <3>2 DEF Rec, Never
  <2> QED
    BY <2>1, <2>2
<1>2. Reconciled(e, t) =
        IF ~idle.enabled THEN [ClearPending(idle) EXCEPT !.next = Never]
        ELSE IF idle.pending # Never
             THEN [idle EXCEPT !.retry = IF @ = Never THEN t ELSE @]
        ELSE IF idle.next = Never THEN [idle EXCEPT !.next = InitialNext(idle, t)]
        ELSE idle
  BY DEF Reconciled
<1>3. /\ InitialNext(idle, t) \in Nat
      /\ ~OneShot(e.schedule) => InitialNext(idle, t) > t
      /\ OneShot(e.schedule) /\ ~e.enqueued => InitialNext(idle, t) = e.schedule
  BY <1>1, InitialNextFacts
<1> HIDE DEF idle
<1>4. CASE ~idle.enabled
  <2> DEFINE a == ClearPending(idle)
  <2>1. a \in Rec /\ a.pending = Never /\ a.enabled = FALSE /\ a.active = Never
    BY <1>1, <1>4, ClearPendingFacts DEF Rec
  <2>2. Reconciled(e, t) = [a EXCEPT !.next = Never]
    BY <1>2, <1>4
  <2> HIDE DEF a
  <2> QED
    BY <2>1, <2>2 DEF Armed, Rec, Never
<1>5. CASE idle.enabled /\ idle.pending # Never
  BY <1>1, <1>2, <1>5 DEF Armed, Rec, Never
<1>6. CASE idle.enabled /\ idle.pending = Never /\ idle.next = Never
  BY <1>1, <1>2, <1>3, <1>6 DEF Armed, Rec, Never
<1>7. CASE idle.enabled /\ idle.pending = Never /\ idle.next # Never
  BY <1>1, <1>2, <1>7 DEF Armed, Rec, Never
<1> QED
  BY <1>1, <1>4, <1>5, <1>6, <1>7 DEF Rec

--------------------------------------------------------------------------------
(* A step that writes one entry of the table, under the lock, and saves it or
   fails to. *)

Fits(j, e) ==
  /\ e \in Rec /\ e.pending <= now
  /\ e.active # Never => e.enqueued
  /\ spent'["invalid"] = 0 => Armed(e, now)
  /\ Owed(j, e)
  /\ spent'["misreport"] = 0 => Exclusive(j, e)

LEMMA EntryStep ==
  ASSUME IInv, NEW j \in Jobs, NEW e,
         Grows, UNCHANGED <<now, live, winding, silent, known, events>>,
         jobs' = [jobs EXCEPT ![j] = e], disk' = disk \/ disk' = jobs',
         fresh' \subseteq fresh, resolved' \subseteq resolved, j \notin fresh' \cup resolved',
         proc' \in {Idle} \cup Busy, proc'.pc # "accepted",
         proc.pc = "accepted" => proc.job = j,
         e # Absent => Fits(j, e),
         SubmitsPending'
  PROVE  IInv'
<1>1. /\ "invalid" \in Kinds /\ "misreport" \in Kinds
      /\ \A k \in Kinds : spent'[k] = 0 => spent[k] = 0
  BY DEF Grows, Kinds
<1>2. /\ jobs' \in [Jobs -> Rec \cup {Absent}] /\ jobs'[j] = e
      /\ \A i \in Jobs : i # j => jobs'[i] = jobs[i]
  BY DEF IInv, Types, Fits
<1>3. Types'
  BY <1>2 DEF IInv, Types, Grows
<1>4. TurnsOnce'
  BY DEF IInv, TurnsOnce
<1>5. NewIsBlank'
  BY <1>2 DEF IInv, Types, NewIsBlank
<1>6. JobsSound'
  <2> SUFFICES ASSUME NEW i \in Jobs, jobs'[i] # Absent
               PROVE  /\ Sound(jobs[i])' /\ Owed(i, jobs[i])'
                      /\ spent'["misreport"] = 0 => Exclusive(i, jobs[i])'
    BY DEF JobsSound, Present
  <2>1. CASE i = j
    BY <1>1, <1>2, <2>1 DEF Sound, Fits, Owed, Exclusive
  <2>2. CASE i # j
    <3>1. /\ jobs'[i] = jobs[i]
          /\ Sound(jobs[i]) /\ Owed(i, jobs[i])
          /\ spent["misreport"] = 0 => Exclusive(i, jobs[i])
      BY <1>2, <2>2 DEF IInv, JobsSound, Present
    <3> QED
      BY <1>1, <3>1 DEF Sound, Owed, Exclusive
  <2> QED
    BY <2>1, <2>2
<1>7. DiskSound'
  <2>1. CASE disk' = disk
    BY <1>1, <2>1 DEF IInv, DiskSound, Sound
  <2>2. CASE disk' = jobs'
    BY <1>6, <2>2 DEF JobsSound, DiskSound, Present, Sound
  <2> QED
    BY <2>1, <2>2
<1> QED
  BY <1>3, <1>4, <1>5, <1>6, <1>7 DEF IInv

(* Under the lock no process_job is under way. *)
LEMMA LockFreeIdle ==
  ASSUME IInv, LockFree
  PROVE  /\ proc = Idle /\ proc.pc = "none"
         /\ proc' = proc => SubmitsPending' /\ proc' \in {Idle} \cup Busy /\ proc'.pc # "accepted"
BY DEF IInv, Types, LockFree, SubmitsPending, Busy, Idle

LEMMA PresentJob ==
  ASSUME IInv, NEW j \in Jobs, Present(j)
  PROVE  /\ Sound(jobs[j]) /\ Owed(j, jobs[j])
         /\ LockFree /\ spent["misreport"] = 0 => Exclusive(j, jobs[j])
         /\ j \notin fresh \cup resolved
BY DEF IInv, JobsSound, NewIsBlank, Present, LockFree

LEMMA CreateKeeps ==
  ASSUME IInv, NEW j \in Jobs, NEW sch \in Schedules, NEW en \in BOOLEAN, Create(j, sch, en)
  PROVE  IInv'
<1> DEFINE blank == [enabled |-> en, schedule |-> sch, next |-> Never, pending |-> Never,
                     retry |-> Never, active |-> Never, enqueued |-> FALSE,
                     late |-> Late(now)]
           e == IF en THEN [blank EXCEPT !.next = InitialNext(blank, now)] ELSE blank
<1>1. Types
  BY DEF IInv
<1>2. /\ LockFree /\ j \in resolved /\ resolved' = resolved \ {j} /\ fresh' = fresh
      /\ proc' = proc /\ UNCHANGED <<now, live, winding, silent, known, events>>
      /\ Save([jobs EXCEPT ![j] = e], {})
  BY DEF Create, turns
<1>3. Grows /\ jobs' = [jobs EXCEPT ![j] = e] /\ (disk' = disk \/ disk' = jobs')
  BY <1>1, <1>2, SaveFacts
<1>4. /\ blank \in Rec /\ blank.enabled = en /\ blank.schedule = sch /\ blank.next = Never
      /\ blank.pending = Never /\ blank.active = Never /\ blank.enqueued = FALSE
  <2>1. Late(now) \in BOOLEAN
    BY DEF Late, Fails
  <2>2. sch \in Nat
    BY CronAssumption DEF Schedules, Recurring, Ending
  <2> QED
    BY <2>1, <2>2 DEF Rec, Never
<1>5. now \in Nat \ {0}
  BY <1>1 DEF Types
<1>6. /\ InitialNext(blank, now) \in Nat
      /\ ~OneShot(sch) => InitialNext(blank, now) > now
      /\ OneShot(sch) => InitialNext(blank, now) = sch
  BY <1>4, <1>5, InitialNextFacts
<1> HIDE DEF blank
<1>7. /\ e \in Rec /\ e.schedule = sch /\ e.pending = Never /\ e.active = Never
      /\ e.enabled = en /\ e.enqueued = FALSE
      /\ e.enabled => e.next = InitialNext(blank, now)
  BY <1>4, <1>6 DEF Rec, Never
<1> HIDE DEF e
<1>8. \A t \in Nat : <<j, t>> \notin known /\ <<j, t>> \notin live
  BY <1>2 DEF IInv, NewIsBlank, TurnsOnce
<1>9. Fits(j, e)
  BY <1>5, <1>6, <1>7, <1>8 DEF Fits, Armed, Owed, Exclusive, Never
<1>10. j \notin fresh' \cup resolved'
  BY <1>2 DEF IInv, NewIsBlank
<1> QED
  BY <1>2, <1>3, <1>9, <1>10, EntryStep, LockFreeIdle

LEMMA UpdateKeeps ==
  ASSUME IInv, NEW j \in Jobs, NEW sch \in Schedules, NEW en \in BOOLEAN, Update(j, sch, en)
  PROVE  IInv'
<1> DEFINE e == Updated(jobs[j], sch, en, now)
<1>1. Types
  BY DEF IInv
<1>2. /\ LockFree /\ Present(j) /\ UNCHANGED <<fresh, resolved>>
      /\ proc' = proc /\ UNCHANGED <<now, live, winding, silent, known, events>>
      /\ Save([jobs EXCEPT ![j] = e], {"edit"})
  BY DEF Update, turns
<1>3. Grows /\ jobs' = [jobs EXCEPT ![j] = e] /\ (disk' = disk \/ disk' = jobs')
  BY <1>1, <1>2, SaveFacts
<1>4. /\ Sound(jobs[j]) /\ Owed(j, jobs[j]) /\ j \notin fresh \cup resolved
      /\ spent["misreport"] = 0 => Exclusive(j, jobs[j])
  BY <1>2, PresentJob
<1>5. jobs[j] \in Rec /\ (jobs[j].active # Never => jobs[j].enqueued) /\ now \in Nat \ {0}
  BY <1>1, <1>4 DEF Sound, Types
<1>6. sch \in Nat
  BY CronAssumption DEF Schedules, Recurring, Ending
<1>7. /\ e \in Rec /\ e.enabled = en /\ e.schedule = sch
      /\ e.active = jobs[j].active /\ e.enqueued = jobs[j].enqueued /\ e.pending = Never
      /\ e.next = Never \/ e.next > now \/ (~jobs[j].enqueued /\ jobs[j].active = Never)
      /\ Armed(e, now)
  <2> DEFINE old == jobs[j]
             t == now
  <2>1. e = Updated(old, sch, en, t)
    OBVIOUS
  <2>2. /\ old \in Rec /\ t \in Nat /\ (old.active # Never => old.enqueued)
    BY <1>5
  <2> HIDE DEF e, old, t
  <2>3. /\ e \in Rec /\ e.enabled = en /\ e.schedule = sch
        /\ e.active = old.active /\ e.enqueued = old.enqueued /\ e.pending = Never
        /\ e.next = Never \/ e.next > t \/ (~old.enqueued /\ old.active = Never)
        /\ Armed(e, t)
    BY <1>6, <2>1, <2>2, UpdatedFacts
  <2> QED
    BY <2>3 DEF old, t
<1> HIDE DEF e
<1>8. spent'["misreport"] = 0 => Exclusive(j, e)
  <2> SUFFICES ASSUME spent'["misreport"] = 0, NEW t \in Nat
               PROVE  /\ <<j, t>> \in live => e.active = t
                      /\ <<j, t>> \in known => e.enqueued /\ e.next # t /\ e.pending # t
    BY DEF Exclusive
  <2>1. Exclusive(j, jobs[j])
    BY <1>3, <1>4 DEF Grows, Kinds
  <2>2. <<j, t>> \in known => t # Never /\ t <= now
    BY DEF IInv, TurnsOnce
  <2> QED
    BY <1>5, <1>7, <2>1, <2>2 DEF Exclusive, Rec, Never
<1>9. Fits(j, e)
  BY <1>4, <1>5, <1>7, <1>8 DEF Fits, Owed, Never
<1> QED
  BY <1>2, <1>3, <1>4, <1>9, EntryStep, LockFreeIdle

LEMMA UpdateRefusedKeeps ==
  ASSUME IInv, NEW j \in Jobs, NEW sch \in Schedules \cup {Malformed}, NEW en \in BOOLEAN,
         UpdateRefused(j, sch, en)
  PROVE  IInv'
<1> DEFINE a == [jobs[j] EXCEPT !.schedule = sch]
           b == [a EXCEPT !.enabled = en]
           c == ClearPending(b)
<1>1. Types
  BY DEF IInv
<1>2. /\ LockFree /\ Present(j) /\ UNCHANGED <<fresh, resolved, disk>>
      /\ proc' = proc /\ UNCHANGED <<now, live, winding, silent, known, events>>
      /\ Spend({"invalid"})
      /\ jobs' = [jobs EXCEPT ![j] = b] \/ jobs' = [jobs EXCEPT ![j] = c]
  BY DEF UpdateRefused, turns
<1>3. Grows
  BY <1>1, <1>2, SpendGrows
<1>4. spent'["invalid"] # 0
  BY <1>1, <1>2 DEF Spend, Kinds, Types
<1>5. /\ Sound(jobs[j]) /\ Owed(j, jobs[j]) /\ j \notin fresh \cup resolved
      /\ spent["misreport"] = 0 => Exclusive(j, jobs[j])
  BY <1>2, PresentJob
<1>6. jobs[j] \in Rec /\ sch \in Nat /\ now \in Nat
  BY <1>1, <1>5, CronAssumption DEF Sound, Schedules, Recurring, Ending, Malformed, Types
<1>7. /\ a \in Rec /\ a.pending = jobs[j].pending /\ a.next = jobs[j].next
      /\ a.active = jobs[j].active /\ a.enqueued = jobs[j].enqueued
  BY <1>6 DEF Rec
<1> HIDE DEF a
<1>8. /\ b \in Rec /\ b.pending = jobs[j].pending /\ b.next = jobs[j].next
      /\ b.active = jobs[j].active /\ b.enqueued = jobs[j].enqueued
  BY <1>7 DEF Rec
<1> HIDE DEF b
<1>9. /\ c \in Rec /\ c.pending = Never /\ c.next = jobs[j].next
      /\ c.active = jobs[j].active /\ c.enqueued = jobs[j].enqueued
  BY <1>8, ClearPendingFacts
<1> HIDE DEF c
<1>10. spent'["misreport"] = 0 => spent["misreport"] = 0
  BY <1>3 DEF Grows, Kinds
<1>11. Fits(j, b)
  BY <1>4, <1>5, <1>8, <1>10 DEF Fits, Sound, Owed, Exclusive
<1>12. Fits(j, c)
  <2>1. \A t \in Nat : <<j, t>> \in known => t # Never
    BY DEF IInv, TurnsOnce
  <2>2. spent'["misreport"] = 0 => Exclusive(j, c)
    BY <1>5, <1>9, <1>10, <2>1 DEF Exclusive
  <2> QED
    BY <1>4, <1>5, <1>6, <1>9, <2>2 DEF Fits, Sound, Owed, Never
<1> QED
  BY <1>2, <1>3, <1>5, <1>11, <1>12, EntryStep, LockFreeIdle

(* A section that saves the table as it is. *)
LEMMA StartIsNotedKeeps ==
  ASSUME IInv, NEW j \in Jobs, StartIsNoted(j)
  PROVE  IInv'
<1>1. Types
  BY DEF IInv
<1>2. /\ LockFree /\ Present(j) /\ UNCHANGED <<fresh, resolved>>
      /\ proc' = proc /\ UNCHANGED <<now, live, winding, silent, known, events>>
      /\ Save(jobs, {})
  BY DEF StartIsNoted, turns
<1>3. Grows /\ jobs' = [jobs EXCEPT ![j] = jobs[j]] /\ (disk' = disk \/ disk' = jobs')
  BY <1>1, <1>2, SaveFacts DEF Types
<1>4. /\ Sound(jobs[j]) /\ Owed(j, jobs[j]) /\ j \notin fresh \cup resolved
      /\ spent["misreport"] = 0 => Exclusive(j, jobs[j])
  BY <1>2, PresentJob
<1>5. /\ spent'["invalid"] = 0 => spent["invalid"] = 0
      /\ spent'["misreport"] = 0 => spent["misreport"] = 0
  BY <1>3 DEF Grows, Kinds
<1>6. Fits(j, jobs[j])
  BY <1>4, <1>5 DEF Fits, Sound
<1> QED
  BY <1>2, <1>3, <1>4, <1>6, EntryStep, LockFreeIdle

LEMMA DeleteKeeps ==
  ASSUME IInv, NEW j \in Jobs, Delete(j)
  PROVE  IInv'
<1>1. Types
  BY DEF IInv
<1>2. /\ LockFree /\ Present(j) /\ UNCHANGED <<fresh, resolved>>
      /\ proc' = proc /\ UNCHANGED <<now, live, winding, silent, known, events>>
      /\ Save([jobs EXCEPT ![j] = Absent], {})
  BY DEF Delete, turns
<1>3. Grows /\ jobs' = [jobs EXCEPT ![j] = Absent] /\ (disk' = disk \/ disk' = jobs')
  BY <1>1, <1>2, SaveFacts
<1>4. j \notin fresh \cup resolved
  BY <1>2, PresentJob
<1> QED
  BY <1>2, <1>3, <1>4, EntryStep, LockFreeIdle

LEMMA RunNowKeeps ==
  ASSUME IInv, NEW j \in Jobs, RunNow(j)
  PROVE  IInv'
<1> DEFINE e == MarkManual(jobs[j], now)
           table == [jobs EXCEPT ![j] = e]
<1>1. Types
  BY DEF IInv
<1>2. /\ LockFree /\ Present(j) /\ UNCHANGED <<fresh, resolved>>
      /\ proc' = proc /\ UNCHANGED <<now, live, winding, silent, known, events>>
      /\ <<j, now>> \notin known
      /\ Save(table, {"manual"})
  BY DEF RunNow, turns, Save
<1>3. Grows /\ jobs' = table /\ (disk' = disk \/ disk' = jobs')
  BY <1>1, <1>2, SaveFacts
<1>4. /\ Sound(jobs[j]) /\ Owed(j, jobs[j]) /\ j \notin fresh \cup resolved
      /\ spent["misreport"] = 0 => Exclusive(j, jobs[j])
  BY <1>2, PresentJob
<1>5. jobs[j] \in Rec /\ now \in Nat \ {0}
  BY <1>1, <1>4 DEF Sound, Types
<1>6. /\ e \in Rec /\ e.pending = now
      /\ e.enabled = jobs[j].enabled /\ e.schedule = jobs[j].schedule
      /\ e.next = jobs[j].next /\ e.active = jobs[j].active
      /\ e.enqueued = jobs[j].enqueued
  BY <1>5, MarkManualFacts
<1> HIDE DEF e
<1>7. \A k \in Kinds : spent'[k] = 0 => spent[k] = 0
  BY <1>3 DEF Grows
<1>8. spent'["misreport"] = 0 => Exclusive(j, e)
  BY <1>2, <1>4, <1>6, <1>7 DEF Exclusive, Kinds
<1>9. spent'["invalid"] = 0 => Armed(e, now)
  BY <1>4, <1>5, <1>6, <1>7 DEF Kinds, Sound, Armed, Never
<1>10. Fits(j, e)
  BY <1>4, <1>5, <1>6, <1>8, <1>9 DEF Fits, Sound, Owed
<1> QED
  BY <1>2, <1>3, <1>4, <1>10, EntryStep, LockFreeIdle

--------------------------------------------------------------------------------
(* Steps that leave the table alone. *)

LEMMA TableKept ==
  ASSUME IInv, UNCHANGED <<jobs, disk, live, winding, silent, known, events, proc, spent, fresh, resolved>>,
         now' \in Nat, now' >= now
  PROVE  IInv'
<1>1. now \in Nat \ {0} /\ now' \in Nat \ {0}
  BY DEF IInv, Types
<1>2. \A e : Sound(e) => e \in Rec /\ e.pending <= now' /\ (spent["invalid"] = 0 => Armed(e, now'))
  BY <1>1 DEF Sound, Armed, Rec, Never
<1>3. Types'
  BY <1>1 DEF IInv, Types
<1>4. TurnsOnce'
  <2> SUFFICES ASSUME NEW j \in Jobs, NEW t \in Nat, <<j, t>> \in known
               PROVE  t # Never /\ t <= now'
    BY DEF IInv, TurnsOnce
  <2>1. t # Never /\ t <= now
    BY DEF IInv, TurnsOnce
  <2> QED
    BY <1>1, <2>1
<1>5. NewIsBlank'
  BY DEF IInv, NewIsBlank
<1>6. JobsSound'
  BY <1>2 DEF IInv, JobsSound, Sound, Owed, Exclusive, Present
<1>7. DiskSound'
  BY <1>2 DEF IInv, DiskSound, Sound
<1>8. SubmitsPending'
  BY <1>2 DEF IInv, SubmitsPending, Sound, Exclusive
<1> QED
  BY <1>3, <1>4, <1>5, <1>6, <1>7, <1>8 DEF IInv

LEMMA QuietKeeps ==
  ASSUME IInv,
         \/ Tick \/ LoopLooks
         \/ \E j \in Jobs : ManualReturns(j)
         \/ \E s \in Sessions : DeleteFails(s)
  PROVE  IInv'
<1>1. now \in Nat
  BY DEF IInv, Types
<1>2. /\ UNCHANGED <<jobs, disk, live, winding, silent, known, events, proc, spent, fresh, resolved>>
      /\ now' \in Nat /\ now' >= now
  BY <1>1 DEF Tick, LoopLooks, ManualReturns, DeleteFails, turns
<1> QED
  BY <1>2, TableKept

LEMMA ResolveKeeps ==
  ASSUME IInv, NEW j \in Jobs, Resolve(j)
  PROVE  IInv'
<1>1. /\ UNCHANGED <<now, jobs, disk, live, winding, silent, known, events, proc, spent>>
      /\ fresh' = fresh \ {j} /\ resolved' = resolved \cup {j} /\ j \in fresh
  BY DEF Resolve, turns
<1>2. Types' /\ TurnsOnce'
  BY <1>1 DEF IInv, Types, TurnsOnce
<1>3. NewIsBlank'
  BY <1>1 DEF IInv, NewIsBlank
<1>4. JobsSound' /\ DiskSound'
  BY <1>1 DEF IInv, JobsSound, DiskSound, Sound, Owed, Exclusive, Present
<1>5. SubmitsPending'
  BY <1>1 DEF IInv, SubmitsPending, Sound, Exclusive
<1> QED
  BY <1>2, <1>3, <1>4, <1>5 DEF IInv

(* The turns end, wind up and report, once, twice or not at all. *)
LEMMA TurnsMoveKeeps ==
  ASSUME IInv, Grows,
         live' \subseteq live, events' \subseteq known, winding' \subseteq known,
         silent' \subseteq silent \cup live,
         live \cup events \cup silent \subseteq live' \cup events' \cup silent',
         live' \cap events' = {}, live' \cap winding' = {},
         UNCHANGED <<now, jobs, disk, fresh, resolved, proc, known>>
  PROVE  IInv'
<1>1. /\ spent'["invalid"] = 0 => spent["invalid"] = 0
      /\ spent'["misreport"] = 0 => spent["misreport"] = 0
  BY DEF Grows, Kinds
<1>2. Types' /\ TurnsOnce'
  BY DEF IInv, Types, TurnsOnce, Grows
<1>3. NewIsBlank'
  BY DEF IInv, NewIsBlank
<1>4. \A e : Sound(e) => Sound(e)'
  BY <1>1 DEF Sound
<1>5. \A i \in Jobs : \A e : /\ Owed(i, e) => Owed(i, e)'
                             /\ Exclusive(i, e) => Exclusive(i, e)'
  BY DEF Owed, Exclusive
<1>6. JobsSound'
  <2> SUFFICES ASSUME NEW i \in Jobs, Present(i)
               PROVE  /\ Sound(jobs[i])' /\ Owed(i, jobs[i])'
                      /\ spent'["misreport"] = 0 =>
                           Exclusive(i, jobs[i])' \/ (proc.pc = "accepted" /\ proc.job = i)
    BY DEF JobsSound, Present
  <2> QED
    BY <1>1, <1>4, <1>5 DEF IInv, JobsSound, Sound, Owed, Exclusive
<1>7. DiskSound'
  BY <1>1 DEF IInv, DiskSound, Sound
<1>8. SubmitsPending'
  BY <1>1 DEF IInv, SubmitsPending, Sound, Exclusive
<1> QED
  BY <1>2, <1>3, <1>6, <1>7, <1>8 DEF IInv

LEMMA TurnReportsKeeps ==
  ASSUME IInv, NEW id \in live, TurnReports(id)
  PROVE  IInv'
<1>1. Grows
  BY UnspentGrows DEF IInv, TurnReports
<1> QED
  BY <1>1, TurnsMoveKeeps DEF TurnReports, IInv, TurnsOnce

LEMMA TurnIsSilentKeeps ==
  ASSUME IInv, NEW id \in live, TurnIsSilent(id)
  PROVE  IInv'
<1>1. Grows
  BY SpendGrows DEF IInv, TurnIsSilent
<1> QED
  BY <1>1, TurnsMoveKeeps DEF TurnIsSilent, IInv, TurnsOnce

(* A turn that winds up is no longer among those that are to report. *)
LEMMA ReportsAgainKeeps ==
  ASSUME IInv, NEW id \in winding, ReportsAgain(id)
  PROVE  IInv'
<1>1. Grows
  BY SpendGrows DEF IInv, ReportsAgain
<1> QED
  BY <1>1, TurnsMoveKeeps DEF ReportsAgain, IInv, TurnsOnce

LEMMA TurnLeavesKeeps ==
  ASSUME IInv, NEW id \in winding, TurnLeaves(id)
  PROVE  IInv'
<1>1. Grows
  BY UnspentGrows DEF IInv, TurnLeaves
<1> QED
  BY <1>1, TurnsMoveKeeps DEF TurnLeaves, IInv, TurnsOnce

LEMMA BeginDeleteKeeps ==
  ASSUME IInv, NEW s \in Sessions, BeginDelete(s)
  PROVE  IInv'
<1>1. Grows
  BY SpendGrows DEF IInv, BeginDelete
<1> QED
  BY <1>1, TurnsMoveKeeps DEF BeginDelete, turns, IInv, TurnsOnce

LEMMA HandleEventKeeps ==
  ASSUME IInv, NEW id \in events, HandleEvent(id)
  PROVE  IInv'
<1> DEFINE mine == {j \in Jobs : Present(j) /\ j = id[1] /\ jobs[j].active = id[2]}
           table == [j \in Jobs |->
                       IF j \in mine THEN [jobs[j] EXCEPT !.active = Never] ELSE jobs[j]]
<1>1. Types
  BY DEF IInv
<1>2. /\ LockFree /\ events' = events \ {id}
      /\ UNCHANGED <<now, fresh, resolved, proc, live, winding, silent, known>>
      /\ \/ UNCHANGED <<jobs, disk, spent>> /\ mine = {}
         \/ Save(table, {})
  BY DEF HandleEvent
<1>3. Grows
  BY <1>1, <1>2, SaveFacts, UnspentGrows
<1>4. jobs' = table /\ (disk' = disk \/ disk' = jobs')
  <2>1. CASE UNCHANGED <<jobs, disk, spent>> /\ mine = {}
    <3>1. table = [j \in Jobs |-> jobs[j]]
      BY <2>1
    <3> HIDE DEF table
    <3> QED
      BY <1>1, <2>1, <3>1 DEF Types
  <2>2. CASE Save(table, {})
    BY <1>1, <2>2, SaveFacts
  <2> QED
    BY <1>2, <2>1, <2>2
<1>5. /\ spent'["invalid"] = 0 => spent["invalid"] = 0
      /\ spent'["misreport"] = 0 => spent["misreport"] = 0
  BY <1>3 DEF Grows, Kinds
<1>6. PICK k \in Jobs, u \in Nat : id = <<k, u>>
  BY <1>1 DEF Types
<1>7. \A j \in Jobs : ~Present(j) => jobs'[j] = Absent
  BY <1>4 DEF Present
<1>8. \A t \in Nat : t = u => <<k, t>> \notin live
  BY <1>6 DEF IInv, TurnsOnce
<1>9. ASSUME NEW j \in Jobs, Present(j)
      PROVE  /\ jobs'[j] \in Rec /\ jobs'[j].pending <= now
             /\ jobs'[j].active # Never => jobs'[j].enqueued
             /\ spent'["invalid"] = 0 => Armed(jobs'[j], now)
             /\ jobs'[j].active # Never => <<j, jobs'[j].active>> \in live' \cup events' \cup silent'
             /\ spent'["misreport"] = 0 => Exclusive(j, jobs'[j])
  <2>1. /\ jobs[j] \in Rec /\ jobs[j].pending <= now
        /\ jobs[j].active # Never => jobs[j].enqueued
        /\ spent'["invalid"] = 0 => Armed(jobs[j], now)
        /\ Owed(j, jobs[j])
        /\ spent'["misreport"] = 0 => Exclusive(j, jobs[j])
    BY <1>2, <1>5, <1>9, PresentJob DEF Sound
  <2>2. CASE j \in mine
    <3>1. j = k /\ jobs[j].active = u
      BY <1>6, <2>2
    <3>2. jobs'[j] = [jobs[j] EXCEPT !.active = Never]
      BY <1>4, <2>2
    <3>3. /\ jobs'[j] \in Rec /\ jobs'[j].pending = jobs[j].pending
          /\ jobs'[j].active = Never /\ jobs'[j].enqueued = jobs[j].enqueued
          /\ jobs'[j].enabled = jobs[j].enabled /\ jobs'[j].schedule = jobs[j].schedule
          /\ jobs'[j].next = jobs[j].next
      BY <2>1, <3>2 DEF Rec, Never
    <3>4. ASSUME spent'["misreport"] = 0 PROVE Exclusive(j, jobs'[j])
      BY <1>8, <2>1, <3>1, <3>3, <3>4 DEF Exclusive
    <3>5. ASSUME spent'["invalid"] = 0 PROVE Armed(jobs'[j], now)
      BY <2>1, <3>3, <3>5 DEF Armed
    <3> QED
      BY <2>1, <3>3, <3>4, <3>5
  <2>3. CASE j \notin mine
    <3>1. jobs'[j] = jobs[j]
      BY <1>4, <2>3
    <3>2. <<j, jobs[j].active>> # id
      BY <1>6, <1>9, <2>3
    <3> QED
      BY <1>2, <2>1, <3>1, <3>2 DEF Owed
  <2> QED
    BY <2>2, <2>3
<1> HIDE DEF mine, table
<1>10. jobs' \in [Jobs -> Rec \cup {Absent}]
  <2>1. \A j \in Jobs : jobs'[j] \in Rec \cup {Absent}
    BY <1>7, <1>9
  <2> QED
    BY <1>4, <2>1 DEF table
<1>11. Types'
  BY <1>1, <1>2, <1>3, <1>4, <1>10 DEF Types, Grows
<1>12. TurnsOnce'
  BY <1>2 DEF IInv, TurnsOnce
<1>13. NewIsBlank'
  <2>1. \A j \in fresh \cup resolved : ~Present(j) /\ j \in Jobs
    BY <1>1 DEF IInv, NewIsBlank, Present, Types
  <2> QED
    BY <1>2, <1>4, <1>7, <2>1 DEF IInv, NewIsBlank
<1>14. JobsSound'
  BY <1>2, <1>7, <1>9 DEF JobsSound, Present, Sound, Owed, Exclusive
<1>15. DiskSound'
  <2>1. CASE disk' = disk
    BY <1>2, <1>5, <2>1 DEF IInv, DiskSound, Sound
  <2>2. CASE disk' = jobs'
    BY <1>14, <2>2 DEF JobsSound, DiskSound, Present, Sound
  <2> QED
    BY <1>4, <2>1, <2>2
<1>16. SubmitsPending'
  BY <1>2, LockFreeIdle
<1> QED
  BY <1>11, <1>12, <1>13, <1>14, <1>15, <1>16 DEF IInv

LEMMA DeleteJobsKeeps ==
  ASSUME IInv, NEW s \in Sessions, DeleteJobsForSession(s)
  PROVE  IInv'
<1> DEFINE bound == {j \in Jobs : Present(j) /\ SessionOf[j] = s}
           table == [j \in Jobs |-> IF j \in bound THEN Absent ELSE jobs[j]]
<1>1. Types
  BY DEF IInv
<1>2. /\ LockFree /\ UNCHANGED <<now, fresh, resolved, proc, live, winding, silent, known, events>>
      /\ UNCHANGED <<jobs, disk, spent>> \/ Save(table, {})
  BY DEF DeleteJobsForSession, turns
<1>3. Grows /\ (disk' = disk \/ disk' = jobs') /\ (jobs' = jobs \/ jobs' = table)
  BY <1>1, <1>2, SaveFacts, UnspentGrows
<1>4. \A j \in Jobs : jobs'[j] = Absent \/ jobs'[j] = jobs[j]
  BY <1>3
<1>5. jobs' \in [Jobs -> Rec \cup {Absent}]
  BY <1>1, <1>3 DEF Types
<1> HIDE DEF bound, table
<1>6. /\ spent'["invalid"] = 0 => spent["invalid"] = 0
      /\ spent'["misreport"] = 0 => spent["misreport"] = 0
  BY <1>3 DEF Grows, Kinds
<1>7. Types'
  BY <1>1, <1>2, <1>3, <1>5 DEF Types, Grows
<1>8. TurnsOnce'
  BY <1>2 DEF IInv, TurnsOnce
<1>9. NewIsBlank'
  BY <1>1, <1>2, <1>3, <1>4 DEF IInv, NewIsBlank, Types
<1>10. JobsSound'
  BY <1>2, <1>4, <1>6 DEF IInv, JobsSound, Present, Sound, Owed, Exclusive
<1>11. DiskSound'
  <2>1. CASE disk' = disk
    BY <1>2, <1>6, <2>1 DEF IInv, DiskSound, Sound
  <2>2. CASE disk' = jobs'
    BY <1>10, <2>2 DEF JobsSound, DiskSound, Present, Sound
  <2> QED
    BY <1>3, <2>1, <2>2
<1>12. SubmitsPending'
  BY <1>2, LockFreeIdle
<1> QED
  BY <1>7, <1>8, <1>9, <1>10, <1>11, <1>12 DEF IInv

--------------------------------------------------------------------------------
(* process_job: the submission, the record of its answer, and its first part. *)

LEMMA SubmitKeeps ==
  ASSUME IInv, Submit
  PROVE  IInv'
<1>1. Types
  BY DEF IInv
<1>2. /\ proc.pc = "submitting"
      /\ UNCHANGED <<now, jobs, disk, fresh, resolved, winding, silent, events>>
      /\ \/ /\ UNCHANGED <<live, known>> /\ UNCHANGED spent
            /\ \E a \in {"refused", "missing"} : proc' = [proc EXCEPT !.pc = a]
         \/ /\ UNCHANGED <<live, known>> /\ Spend({"refuse"})
            /\ \E a \in {"refused", "missing"} : proc' = [proc EXCEPT !.pc = a]
         \/ /\ <<proc.job, proc.at>> \notin known
            /\ live' = live \cup {<<proc.job, proc.at>>}
            /\ known' = known \cup {<<proc.job, proc.at>>}
            /\ \/ proc' = [proc EXCEPT !.pc = "accepted"] /\ UNCHANGED spent
               \/ proc' = [proc EXCEPT !.pc = "refused"] /\ Spend({"misreport"})
  BY DEF Submit
<1>3. Grows
  BY <1>1, <1>2, SpendGrows, UnspentGrows
<1>4. /\ spent'["invalid"] = 0 => spent["invalid"] = 0
      /\ spent'["misreport"] = 0 => spent["misreport"] = 0
  BY <1>3 DEF Grows, Kinds
<1>. PICK j \in Jobs, at \in Nat : proc.job = j /\ proc.at = at
  BY <1>1, <1>2 DEF Types, Busy, Idle
<1> DEFINE id == <<j, at>>
<1>5. proc \in Busy /\ proc' \in Busy /\ proc'.job = j /\ proc'.at = at
  BY <1>1, <1>2 DEF Types, Busy, Idle
<1>6. /\ j \notin fresh \cup resolved /\ Sound(jobs[j])
      /\ jobs[j].active = Never /\ jobs[j].pending = at
      /\ at # Never /\ jobs[j].next # at
      /\ spent["misreport"] = 0 => Exclusive(j, jobs[j])
  BY <1>2 DEF IInv, SubmitsPending
<1>7. at <= now
  BY <1>6 DEF Sound
<1>8. \/ UNCHANGED <<live, known>> /\ proc'.pc \in {"refused", "missing"}
      \/ /\ id \notin known /\ live' = live \cup {id} /\ known' = known \cup {id}
         /\ \/ proc'.pc = "accepted"
            \/ proc'.pc = "refused" /\ spent'["misreport"] # 0
  <2>1. Spend({"misreport"}) => spent'["misreport"] # 0
    BY <1>1 DEF Spend, Kinds, Types
  <2>2. \A a : proc' = [proc EXCEPT !.pc = a] => proc'.pc = a
    BY <1>5 DEF Busy
  <2> QED
    BY <1>2, <2>1, <2>2
<1>9. Types'
  BY <1>1, <1>2, <1>3, <1>5, <1>8 DEF Types, Grows
<1>10. TurnsOnce'
  BY <1>2, <1>5, <1>6, <1>7, <1>8 DEF IInv, TurnsOnce
<1>11. NewIsBlank'
  <2> SUFFICES ASSUME NEW i \in fresh \cup resolved
               PROVE  /\ jobs[i] = Absent /\ disk[i] = Absent
                      /\ \A t \in Nat : <<i, t>> \notin known'
    BY <1>2 DEF IInv, NewIsBlank
  <2> QED
    BY <1>6, <1>8 DEF IInv, NewIsBlank
<1>12. \A e : Sound(e) => Sound(e)'
  BY <1>2, <1>4 DEF Sound
<1>13. \A i \in Jobs : \A e : /\ Owed(i, e) => Owed(i, e)'
                              /\ i # j /\ Exclusive(i, e) => Exclusive(i, e)'
  BY <1>2, <1>8 DEF Owed, Exclusive
<1>14. JobsSound'
  <2> SUFFICES ASSUME NEW i \in Jobs, Present(i)
               PROVE  /\ Sound(jobs[i])' /\ Owed(i, jobs[i])'
                      /\ spent'["misreport"] = 0 =>
                           Exclusive(i, jobs[i])' \/ (proc'.pc = "accepted" /\ proc'.job = i)
    BY <1>2 DEF JobsSound, Present
  <2>1. /\ Sound(jobs[i]) /\ Owed(i, jobs[i])
        /\ spent["misreport"] = 0 => Exclusive(i, jobs[i])
    BY <1>2 DEF IInv, JobsSound
  <2>2. Sound(jobs[i])' /\ Owed(i, jobs[i])'
    BY <1>2, <1>12, <1>13, <2>1 DEF Sound, Owed
  <2>3. CASE i # j
    BY <1>2, <1>4, <1>13, <2>1, <2>2, <2>3 DEF Exclusive
  <2>4. CASE i = j
    BY <1>2, <1>4, <1>5, <1>8, <2>1, <2>2, <2>4 DEF Exclusive
  <2> QED
    BY <2>3, <2>4
<1>15. DiskSound'
  BY <1>2, <1>4 DEF IInv, DiskSound, Sound
<1>16. SubmitsPending'
  <2>1. Sound(jobs[j])'
    BY <1>2, <1>4, <1>6 DEF Sound
  <2>2. proc'.pc = "accepted" => <<j, at>> \in live'
    BY <1>8
  <2>3. ASSUME spent'["misreport"] = 0, proc'.pc = "accepted", NEW t \in Nat
        PROVE  /\ <<j, t>> \in live' => t = at
               /\ <<j, t>> \in known' => jobs[j].next # t
    <3>1. Exclusive(j, jobs[j])
      BY <1>4, <1>6, <2>3
    <3>2. <<j, t>> \notin live
      BY <1>5, <1>6, <3>1 DEF IInv, TurnsOnce, Exclusive
    <3> QED
      BY <1>6, <1>8, <2>3, <3>1, <3>2 DEF Exclusive
  <2>4. ASSUME spent'["misreport"] = 0, proc'.pc # "accepted"
        PROVE  Exclusive(j, jobs[j])'
    BY <1>2, <1>4, <1>6, <1>8, <2>4 DEF Exclusive
  <2> QED
    BY <1>2, <1>5, <1>6, <2>1, <2>2, <2>3, <2>4 DEF SubmitsPending, Exclusive, Sound
<1> QED
  BY <1>9, <1>10, <1>11, <1>14, <1>15, <1>16 DEF IInv

LEMMA RecordKeeps ==
  ASSUME IInv, Record
  PROVE  IInv'
<1> DEFINE j == proc.job
           at == proc.at
           old == jobs[j]
           t == now
           e == CASE proc.pc = "accepted" -> MarkEnqueued(old, at)
                  [] proc.pc = "refused"  -> MarkFailed(old, t)
                  [] OTHER                -> MarkMissing(old)
           table == [jobs EXCEPT ![j] = e]
<1>1. Types
  BY DEF IInv
<1>2. /\ proc.pc \in {"accepted", "refused", "missing"}
      /\ UNCHANGED <<now, fresh, resolved>> /\ proc' = Idle
      /\ UNCHANGED <<live, winding, silent, known, events>>
      /\ \/ Saved(table, {})
         \/ jobs' = table /\ Spend({"save"}) /\ disk' = disk
  BY DEF Record, turns
<1>3. Grows /\ jobs' = table /\ (disk' = disk \/ disk' = jobs')
  BY <1>1, <1>2, SpendGrows DEF Saved
<1>4. /\ spent'["invalid"] = 0 => spent["invalid"] = 0
      /\ spent'["misreport"] = 0 => spent["misreport"] = 0
  BY <1>3 DEF Grows, Kinds
<1>5. j \in Jobs /\ at \in Nat /\ t \in Nat \ {0}
  BY <1>1, <1>2 DEF Types, Busy, Idle
<1>6. /\ j \notin fresh \cup resolved
      /\ old \in Rec /\ old.pending <= t /\ (spent'["invalid"] = 0 => Armed(old, t))
      /\ old.active = Never /\ old.pending = at /\ at # Never /\ old.next # at
      /\ proc.pc = "accepted" => <<j, at>> \in live \cup events \cup silent
      /\ spent'["misreport"] = 0 =>
           IF proc.pc = "accepted"
           THEN \A u \in Nat : /\ <<j, u>> \in live => u = at
                               /\ <<j, u>> \in known => old.next # u
           ELSE Exclusive(j, old)
  BY <1>2, <1>4 DEF IInv, SubmitsPending, Sound
<1>7. \A u \in Nat : /\ <<j, u>> \in known => u # Never
                     /\ <<j, u>> \in live => <<j, u>> \in known
  BY <1>5 DEF IInv, TurnsOnce
<1>8. /\ e \in Rec /\ e.pending <= t
      /\ e.active # Never => e.enqueued
      /\ spent'["invalid"] = 0 => Armed(e, t)
      /\ e.active # Never => <<j, e.active>> \in live \cup events \cup silent
      /\ spent'["misreport"] = 0 => Exclusive(j, e)
  <2>1. CASE proc.pc = "accepted"
    <3>1. e = MarkEnqueued(old, at)
      BY <2>1
    <3> HIDE DEF e, old, at, t
    <3>2. /\ e \in Rec /\ e.active = at /\ e.enqueued = TRUE
          /\ e.pending = Never /\ e.schedule = old.schedule
          /\ OneShot(old.schedule) => e.next = Never /\ e.enabled = FALSE
          /\ ~OneShot(old.schedule) => e.next = old.next /\ e.enabled = old.enabled
      BY <1>5, <1>6, <3>1, MarkEnqueuedFacts
    <3>3. spent'["invalid"] = 0 => Armed(e, t)
      BY <1>6, <3>2 DEF Armed
    <3>4. spent'["misreport"] = 0 => Exclusive(j, e)
      BY <1>6, <1>7, <2>1, <3>2 DEF Exclusive
    <3> QED
      BY <1>5, <1>6, <2>1, <3>2, <3>3, <3>4 DEF Never
  <2>2. CASE proc.pc = "refused"
    <3>1. e = MarkFailed(old, t)
      BY <2>2
    <3> HIDE DEF e, old, at, t
    <3>2. /\ e \in Rec /\ e.pending = old.pending
          /\ e.enabled = old.enabled /\ e.schedule = old.schedule
          /\ e.next = old.next /\ e.active = old.active /\ e.enqueued = old.enqueued
      BY <1>5, <1>6, <3>1, MarkFailedFacts
    <3> QED
      BY <1>6, <2>2, <3>2 DEF Armed, Exclusive
  <2>3. CASE proc.pc = "missing"
    <3>1. e = MarkMissing(old)
      BY <2>3
    <3> HIDE DEF e, old, at, t
    <3>2. /\ e \in Rec /\ e.enabled = FALSE /\ e.active = Never /\ e.pending = Never
          /\ e.next = Never /\ e.enqueued = old.enqueued
      BY <1>6, <3>1, MarkMissingFacts
    <3>3. spent'["misreport"] = 0 => Exclusive(j, e)
      BY <1>6, <1>7, <2>3, <3>2 DEF Exclusive
    <3> QED
      BY <1>5, <3>2, <3>3 DEF Armed, Never
  <2> QED
    BY <1>2, <2>1, <2>2, <2>3
<1>9. Fits(j, e)
  <2> HIDE DEF e
  <2> QED
    BY <1>8 DEF Fits, Owed
<1>10. SubmitsPending' /\ proc' \in {Idle} \cup Busy /\ proc'.pc # "accepted"
  BY <1>2 DEF SubmitsPending, Idle
<1> HIDE DEF e, old, at, t
<1> QED
  BY <1>2, <1>3, <1>5, <1>6, <1>9, <1>10, EntryStep

LEMMA ProcessKeeps ==
  ASSUME IInv, NEW j \in Jobs, NEW loop \in BOOLEAN, Process(j, loop)
  PROVE  IInv'
<1> DEFINE old == jobs[j]
           t == now
           due == NextIsDue(jobs[j])
           e == IF due THEN ApplyDue(old, t) ELSE old
           table == IF due THEN [jobs EXCEPT ![j] = ApplyDue(@, now)] ELSE jobs
<1>1. Types
  BY DEF IInv
<1>2. /\ LockFree /\ Present(j) /\ UNCHANGED <<now, fresh, resolved, live, winding, silent, known, events>>
      /\ jobs' = table
      /\ \/ UNCHANGED spent /\ disk' = (IF due THEN table ELSE disk)
         \/ Spend({"save"}) /\ disk' = disk
      /\ \/ proc' = proc \/ proc' = Idle
         \/ /\ Runnable(table[j])
            /\ proc' = [pc |-> "submitting", job |-> j, at |-> table[j].pending, loop |-> loop]
  BY DEF Process, turns
<1>3. Grows /\ (disk' = disk \/ disk' = jobs')
  BY <1>1, <1>2, SpendGrows, UnspentGrows
<1>4. /\ spent'["invalid"] = 0 => spent["invalid"] = 0
      /\ spent'["misreport"] = 0 => spent["misreport"] = 0
  BY <1>3 DEF Grows, Kinds
<1>5. table = [jobs EXCEPT ![j] = e] /\ table[j] = e
  BY <1>1 DEF Types
<1>6. /\ old \in Rec /\ old.pending <= t /\ t \in Nat \ {0}
      /\ old.active # Never => old.enqueued
      /\ spent'["invalid"] = 0 => Armed(old, t)
      /\ old.active # Never => <<j, old.active>> \in live \cup events \cup silent
      /\ spent'["misreport"] = 0 => Exclusive(j, old)
      /\ j \notin fresh \cup resolved
  BY <1>1, <1>2, <1>4, PresentJob DEF Sound, Owed, Types
<1>7. \A u \in Nat : /\ <<j, u>> \in known => u # Never /\ u <= t
                     /\ <<j, u>> \in live => <<j, u>> \in known
  BY DEF IInv, TurnsOnce
<1>8. /\ due => old.next # Never /\ old.next <= t
      /\ ~due => old.next = Never \/ old.next > t
  BY <1>6 DEF NextIsDue, Rec, Never
<1>9. /\ e \in Rec /\ e.active = old.active /\ e.enqueued = old.enqueued
      /\ e.pending <= t /\ (e.next = Never \/ e.next > t)
      /\ e.pending \in {old.pending, old.next}
      /\ spent'["invalid"] = 0 => Armed(e, t)
  <2>1. CASE due
    <3>1. e = ApplyDue(old, t)
      BY <2>1
    <3>2. old.next # Never /\ old.next <= t
      BY <1>8, <2>1
    <3> HIDE DEF e, old, t
    <3>3. /\ e \in Rec /\ e.enabled = old.enabled /\ e.schedule = old.schedule
          /\ e.active = old.active /\ e.enqueued = old.enqueued
          /\ e.next = NextAfter(old.schedule, t)
          /\ e.pending \in {old.pending, old.next}
      BY <1>6, <3>1, ApplyDueFacts
    <3>4. old.schedule \in Nat /\ old.next \in Nat /\ old.pending \in Nat
      BY <1>6 DEF Rec
    <3>5. /\ NextAfter(old.schedule, t) \in Nat
          /\ NextAfter(old.schedule, t) # Never => NextAfter(old.schedule, t) > t
          /\ OneShot(old.schedule) /\ old.schedule > t =>
               NextAfter(old.schedule, t) = old.schedule
          /\ ~OneShot(old.schedule) => NextAfter(old.schedule, t) # Never
      BY <1>6, <3>4, NextAfterFacts
    <3> QED
      BY <1>6, <3>2, <3>3, <3>4, <3>5 DEF Armed
  <2>2. CASE ~due
    <3>1. e = old
      BY <2>2
    <3>2. old.next = Never \/ old.next > t
      BY <1>8, <2>2
    <3> HIDE DEF e, old, t
    <3> QED
      BY <1>6, <3>1, <3>2
  <2> QED
    BY <2>1, <2>2
<1>10. /\ t = now /\ (proc' # proc /\ proc' # Idle =>
          /\ e.active = Never /\ e.pending # Never
          /\ proc' = [pc |-> "submitting", job |-> j, at |-> e.pending, loop |-> loop])
  BY <1>2, <1>5 DEF Runnable, PendingIsDue
<1>11. jobs' = [jobs EXCEPT ![j] = e] /\ jobs'[j] = e
  BY <1>2, <1>5
<1> HIDE DEF e, old, t, due, table
<1>12. spent'["misreport"] = 0 => Exclusive(j, e)
  BY <1>6, <1>7, <1>8, <1>9 DEF Exclusive, Rec, Never
<1>13. Fits(j, e)
  BY <1>6, <1>9, <1>10, <1>12 DEF Fits, Owed
<1>14. SubmitsPending' /\ proc' \in {Idle} \cup Busy /\ proc'.pc # "accepted"
  <2>1. CASE proc' = proc \/ proc' = Idle
    BY <1>2, <2>1, LockFreeIdle DEF SubmitsPending, Idle
  <2>2. CASE proc' # proc /\ proc' # Idle
    <3>1. /\ e.active = Never /\ e.pending # Never
          /\ proc' = [pc |-> "submitting", job |-> j, at |-> e.pending, loop |-> loop]
      BY <1>10, <2>2
    <3>2. e.pending \in Nat /\ e.next # e.pending
      BY <1>6, <1>9, <3>1 DEF Rec, Never
    <3>3. /\ proc' \in Busy /\ proc'.pc = "submitting" /\ proc'.job = j
          /\ proc'.at = e.pending
      BY <3>1, <3>2 DEF Busy
    <3>4. Sound(jobs[j])'
      BY <1>2, <1>11, <1>13 DEF Sound, Fits
    <3> QED
      BY <1>2, <1>6, <1>11, <1>12, <3>1, <3>2, <3>3, <3>4
      DEF SubmitsPending, Sound, Exclusive
  <2> QED
    BY <2>1, <2>2
<1> QED
  BY <1>2, <1>3, <1>6, <1>11, <1>13, <1>14, EntryStep, LockFreeIdle

--------------------------------------------------------------------------------
(* The restart of the process. *)

LEMMA RestartKeeps ==
  ASSUME IInv, Restart
  PROVE  IInv'
<1> DEFINE table == [j \in Jobs |->
                       IF disk[j] = Absent THEN Absent ELSE Reconciled(disk[j], now)]
<1>1. Types
  BY DEF IInv
<1>2. /\ Spend({"restart"})
      /\ jobs' = table /\ disk' = jobs'
      /\ proc' = Idle /\ resolved' = {} /\ live' = {} /\ known' = {} /\ events' = {}
      /\ winding' = {} /\ silent' = {}
      /\ UNCHANGED <<now, fresh>>
  BY DEF Restart
<1>3. Grows
  BY <1>1, <1>2, SpendGrows
<1>4. spent'["invalid"] = 0 => spent["invalid"] = 0
  BY <1>3 DEF Grows, Kinds
<1>5. ASSUME NEW j \in Jobs, disk[j] # Absent
      PROVE  /\ jobs'[j] \in Rec /\ jobs'[j].active = Never /\ jobs'[j].pending <= now
             /\ spent'["invalid"] = 0 => Armed(jobs'[j], now)
  <2> DEFINE e == disk[j]
             t == now
  <2>1. /\ e \in Rec /\ t \in Nat \ {0} /\ e.pending <= t /\ (e.active # Never => e.enqueued)
        /\ spent'["invalid"] = 0 => Armed(e, t)
    BY <1>1, <1>4, <1>5 DEF IInv, DiskSound, Sound, Types
  <2>2. jobs'[j] = Reconciled(e, t)
    BY <1>2, <1>5
  <2> HIDE DEF e, t
  <2>3. /\ jobs'[j] \in Rec /\ jobs'[j].active = Never /\ jobs'[j].pending <= t
        /\ spent'["invalid"] = 0 => Armed(jobs'[j], t)
    BY <2>1, <2>2, ReconciledFacts
  <2> QED
    BY <2>3 DEF t
<1>6. \A j \in Jobs : disk[j] = Absent => jobs'[j] = Absent
  BY <1>2
<1>7. jobs' \in [Jobs -> Rec \cup {Absent}]
  <2>1. \A j \in Jobs : jobs'[j] \in Rec \cup {Absent}
    BY <1>5, <1>6
  <2> HIDE DEF table
  <2>2. table \in [Jobs -> {table[j] : j \in Jobs}]
    BY DEF table
  <2> QED
    BY <1>2, <2>1, <2>2 DEF table
<1> HIDE DEF table
<1>8. Types'
  BY <1>1, <1>2, <1>3, <1>7 DEF Types, Grows
<1>9. TurnsOnce'
  BY <1>2 DEF TurnsOnce
<1>10. NewIsBlank'
  BY <1>1, <1>2, <1>6 DEF IInv, NewIsBlank, Types
<1>11. JobsSound'
  BY <1>2, <1>5, <1>6 DEF JobsSound, Present, Sound, Owed, Exclusive
<1>12. DiskSound'
  BY <1>2, <1>11 DEF JobsSound, DiskSound, Present, Sound
<1>13. SubmitsPending'
  BY <1>2 DEF SubmitsPending, Idle
<1> QED
  BY <1>8, <1>9, <1>10, <1>11, <1>12, <1>13 DEF IInv

--------------------------------------------------------------------------------
LEMMA NextKeeps ==
  ASSUME IInv, [Next]_vars
  PROVE  IInv'
<1>1. CASE UNCHANGED vars
  <2>1. now \in Nat /\ now <= now
    BY DEF IInv, Types
  <2>2. /\ UNCHANGED <<jobs, disk, live, winding, silent, known, events, proc, spent, fresh, resolved>>
        /\ now' = now
    BY <1>1 DEF vars
  <2> QED
    BY <2>1, <2>2, TableKept
<1>2. CASE Tick \/ LoopLooks
  BY <1>2, QuietKeeps
<1>3. CASE Submit
  BY <1>3, SubmitKeeps
<1>4. CASE Record
  BY <1>4, RecordKeeps
<1>5. CASE Restart
  BY <1>5, RestartKeeps
<1>6. ASSUME NEW j \in Jobs,
             Resolve(j) \/ Delete(j) \/ RunNow(j) \/ ManualReturns(j) \/ StartIsNoted(j)
      PROVE  IInv'
  BY <1>6, ResolveKeeps, DeleteKeeps, RunNowKeeps, QuietKeeps, StartIsNotedKeeps
<1>7. ASSUME NEW j \in Jobs, NEW loop \in BOOLEAN, Process(j, loop)
      PROVE  IInv'
  BY <1>7, ProcessKeeps
<1>8. ASSUME NEW j \in Jobs, NEW en \in BOOLEAN, NEW sch \in Schedules \cup {Malformed},
             UpdateRefused(j, sch, en)
      PROVE  IInv'
  BY <1>8, UpdateRefusedKeeps
<1>9. ASSUME NEW j \in Jobs, NEW en \in BOOLEAN, NEW sch \in Schedules,
             Create(j, sch, en) \/ Update(j, sch, en)
      PROVE  IInv'
  BY <1>9, CreateKeeps, UpdateKeeps
<1>10. ASSUME NEW id \in live, TurnReports(id) \/ TurnIsSilent(id)
       PROVE  IInv'
  BY <1>10, TurnReportsKeeps, TurnIsSilentKeeps
<1>11. ASSUME NEW id \in events, HandleEvent(id)
       PROVE  IInv'
  BY <1>11, HandleEventKeeps
<1>12. ASSUME NEW s \in Sessions,
              BeginDelete(s) \/ DeleteFails(s) \/ DeleteJobsForSession(s)
       PROVE  IInv'
  BY <1>12, BeginDeleteKeeps, QuietKeeps, DeleteJobsKeeps
<1>13. ASSUME NEW id \in winding, ReportsAgain(id) \/ TurnLeaves(id)
       PROVE  IInv'
  BY <1>13, ReportsAgainKeeps, TurnLeavesKeeps
<1> QED
  BY <1>1, <1>2, <1>3, <1>4, <1>5, <1>6, <1>7, <1>8, <1>9, <1>10, <1>11, <1>12, <1>13
  DEF Next

(* The invariant: a trigger that was accepted became one turn and is never a
   trigger again, a job waits only for a turn it will hear of or that ends in
   silence, the table and the file keep every enabled job armed, and
   process_job's job stands still while it holds the lock. *)
THEOREM CronInvariance == Spec => []IInv
BY InitEstablishes, NextKeeps, PTL DEF Spec

(* Whatever is edited, deleted, restarted or fails to be saved, the turn a job
   waits for (active_turn_id) is still to announce its end, or its last event is
   still to be routed to handle_event, or it ended without one (a panic, a full
   event queue). *)
THEOREM ActiveJobsAreOwed == Spec => []ActiveIsOwed
<1>1. IInv => ActiveIsOwed
  BY DEF IInv, JobsSound, Owed, ActiveIsOwed
<1> QED
  BY <1>1, CronInvariance, PTL

(* As long as every answer of the scheduler is true, a job has at most one turn
   that has not announced its end: the one it waits for, or the one process_job is
   about to record.  The turn before it may still be winding up in the scheduler,
   since its last event is routed before the turn is saved and released. *)
THEOREM OneTurnIsUnreported == Spec => []OneTurnUnreported
<1>1. ASSUME IInv PROVE OneTurnUnreported
  <2> SUFFICES ASSUME spent["misreport"] = 0, NEW j \in Jobs, NEW t \in Nat,
                      <<j, t>> \in live, Present(j)
               PROVE  \/ jobs[j].active = t
                      \/ proc.pc = "accepted" /\ proc.job = j /\ proc.at = t
    BY <1>1 DEF OneTurnUnreported, IInv, Types
  <2>1. Exclusive(j, jobs[j]) \/ (proc.pc = "accepted" /\ proc.job = j)
    BY <1>1 DEF IInv, JobsSound
  <2> QED
    BY <1>1, <2>1 DEF Exclusive, IInv, SubmitsPending
<1> QED
  BY <1>1, CronInvariance, PTL

(* Under the same condition a trigger that still waits has never been accepted:
   process_job submits it again only after a refusal. *)
THEOREM TriggersRunOnce == Spec => []PendingNotYetRun
<1>1. ASSUME IInv PROVE PendingNotYetRun
  <2> SUFFICES ASSUME spent["misreport"] = 0, NEW j \in Jobs, Present(j),
                      <<j, jobs[j].pending>> \in known
               PROVE  proc.pc = "accepted" /\ proc.job = j
    BY DEF PendingNotYetRun
  <2>1. /\ Sound(jobs[j])
        /\ Exclusive(j, jobs[j]) \/ (proc.pc = "accepted" /\ proc.job = j)
    BY <1>1 DEF IInv, JobsSound
  <2> QED
    BY <2>1 DEF Exclusive, Sound, Rec
<1> QED
  BY <1>1, CronInvariance, PTL

(* Without a refused edit every enabled job keeps the run that its schedule
   still owes it: edits, coalesced and failed triggers, failed saves and
   reconcile_loaded_job included. *)
THEOREM TriggersAreKept == Spec => []NotForgotten
<1>1. IInv => NotForgotten
  BY DEF IInv, JobsSound, Sound, Armed, NotForgotten
<1> QED
  BY <1>1, CronInvariance, PTL

================================================================================
