------------------------ MODULE BackgroundOutcomesProofs ------------------------
(***************************************************************************)
(* Proofs about BackgroundOutcomes, for any tasks, waits, turns and faults: *)
(* the safety properties of the runs, and that the rows implement the      *)
(* ledger.                                                                  *)
(***************************************************************************)
EXTENDS BackgroundOutcomes, TLAPS

(* A task nobody has started is unknown, one whose submission is on its way
   has not ended, and only a spawned one can be cancelled. *)
Spawned == {"running", "finished", "checked", "won", "announcing"}

StartedInOrder ==
  \A t \in Task :
    /\ runner[t] = "idle" => status[t] = "absent" /\ live[t] = "none"
    /\ runner[t] = "registered" => status[t] \in {"running", "absent"}
    /\ canceller[t] # "none" => runner[t] \notin {"idle", "registered"}
    /\ t \in control \cup suppressed => runner[t] \in Spawned

(* The rows of earlier processes have nobody who works on them. *)
OwnedByRunner ==
  \A t \in Task :
    /\ owner[t] <= epoch
    /\ status[t] # "absent" /\ owner[t] # epoch => runner[t] = "done"

(* What a spawned task has received. *)
ResultKnown ==
  \A t \in Task :
    /\ runner[t] \in {"finished", "checked", "won", "announcing"} => result[t] # "none"
    /\ result[t] = "completed" => child[t] = "completed"

EndedWithChild ==
  /\ RowMatchesChild
  /\ \A t \in Task : status[t] \in {"completed", "interrupted"} =>
       runner[t] \notin {"idle", "registered", "running"}

(* Who has won the update of the row is about to write the result. *)
WinnerMatchesRow ==
  /\ LiveMatchesRow
  /\ \A t \in Task :
       /\ runner[t] = "won" => status[t] \in {result[t], "absent"}
       /\ canceller[t] = "won" => status[t] \in {"cancelled", "absent"}

(* A suppressed task is settled by the call that suppressed it. *)
SuppressedIsClaimed ==
  \A t \in Task :
    /\ t \in suppressed /\ status[t] = "running" /\ owner[t] = epoch
    /\ faults \cap {"db", "drop"} = {}
    => canceller[t] = "claimed"

Ownership == RunningIsOwned /\ SuppressedIsClaimed /\ AnnouncedIsSettled

DeliveredIsTerminal == \A t \in Task : delivered[t] # NoTurn => status[t] \in Terminal

TaskInv ==
  /\ StartedInOrder /\ OwnedByRunner /\ ResultKnown /\ EndedWithChild
  /\ WinnerMatchesRow /\ Ownership /\ DeliveredIsTerminal

(* The waits of one turn do not overlap, and a wait has nothing before it has
   looked. *)
WaitsInTurn ==
  /\ \A v, w \in Wait : Active(v) /\ Active(w) /\ TurnOf[v] = TurnOf[w] => v = w
  /\ \A w \in Wait : wpc[w] \in {"idle", "selecting"} =>
       \A t \in Task : outcomes[w][t] = "none"

(* What a wait has collected is what the row says. *)
CollectedMatchesRow ==
  \A w \in Wait, t \in Task : outcomes[w][t] # "none" =>
    /\ outcomes[w][t] \in Terminal
    /\ status[t] \in {outcomes[w][t], "absent"}
    /\ runner[t] # "idle"

(* What a wait is about to claim was not handed to its turn before. *)
ClaimIsFresh ==
  \A w \in Wait, t \in Task :
    wpc[w] = "claiming" /\ outcomes[w][t] # "none" => delivered[t] # TurnOf[w]

HandedOver ==
  \A w \in Wait, t \in Task :
    wpc[w] \in {"claimed", "done"} /\ outcomes[w][t] # "none" =>
      delivered[t] = TurnOf[w] \/ TurnOf[w] \in rolled \/ status[t] = "absent"

HandedOnce ==
  \A v, w \in Wait, t \in Task :
    /\ v # w /\ wpc[v] \in {"claimed", "done"} /\ wpc[w] \in {"claimed", "done"}
    /\ outcomes[v][t] # "none" /\ outcomes[w][t] # "none"
    => TurnOf[v] \in rolled \/ TurnOf[w] \in rolled

WaitInv ==
  WaitsInTurn /\ CollectedMatchesRow /\ ClaimIsFresh /\ HandedOver /\ HandedOnce

IInv == TypeOK /\ TaskInv /\ WaitInv /\ NoLostWakeup

LEMMA InitEstablishes == Init => IInv
<1> SUFFICES ASSUME Init PROVE IInv
  OBVIOUS
<1>1. TypeOK
  BY OutcomesAssumption DEF Init, TypeOK, Status, Outcome, RunnerState, WaitState, Verdict, FaultKind
<1>2. StartedInOrder /\ OwnedByRunner /\ ResultKnown /\ EndedWithChild
  BY DEF Init, StartedInOrder, OwnedByRunner, ResultKnown, EndedWithChild, RowMatchesChild, Spawned
<1>3. WinnerMatchesRow /\ Ownership /\ DeliveredIsTerminal
  BY DEF Init, WinnerMatchesRow, LiveMatchesRow, Ownership, RunningIsOwned,
     SuppressedIsClaimed, AnnouncedIsSettled, DeliveredIsTerminal
<1>4. WaitInv
  BY DEF Init, WaitInv, WaitsInTurn, Active, CollectedMatchesRow, ClaimIsFresh, HandedOver, HandedOnce
<1>5. NoLostWakeup
  BY DEF Init, NoLostWakeup
<1> QED
  BY <1>1, <1>2, <1>3, <1>4, <1>5 DEF IInv, TaskInv

--------------------------------------------------------------------------------
(* What the rows may do under a wait: a row that is there ends, is deleted, or
   stays. *)
RowsMoveOn ==
  \A t \in Task :
    /\ runner'[t] = "idle" => runner[t] = "idle"
    /\ status'[t] \in {status[t], "absent"} \/ status[t] = "running" \/ runner[t] = "idle"

LEMMA WaitInvKept ==
  ASSUME IInv, RowsMoveOn, UNCHANGED <<waits, delivered, rolled>>
  PROVE  WaitInv'
<1>1. \A w \in Wait, t \in Task : outcomes[w][t] # "none" =>
        /\ outcomes[w][t] \in Terminal /\ runner'[t] # "idle"
        /\ status[t] \in {outcomes[w][t], "absent"}
        /\ status'[t] \in {outcomes[w][t], "absent"}
        /\ status[t] = "absent" => status'[t] = "absent"
  BY DEF IInv, WaitInv, CollectedMatchesRow, RowsMoveOn, Terminal
<1>2. WaitsInTurn' /\ ClaimIsFresh' /\ HandedOnce'
  BY DEF IInv, WaitInv, WaitsInTurn, Active, ClaimIsFresh, HandedOnce, waits
<1>3. CollectedMatchesRow'
  BY <1>1 DEF CollectedMatchesRow, waits
<1>4. HandedOver'
  BY <1>1 DEF IInv, WaitInv, HandedOver, waits
<1> QED
  BY <1>2, <1>3, <1>4 DEF WaitInv

LEMMA RegisterKeeps ==
  ASSUME NEW t \in Task, IInv, Register(t)
  PROVE  IInv'
<1>1. /\ runner[t] = "idle" /\ status[t] = "absent"
      /\ status' = [status EXCEPT ![t] = "running"]
      /\ owner' = [owner EXCEPT ![t] = epoch]
      /\ runner' = [runner EXCEPT ![t] = "registered"]
      /\ woken' = Waiting
      /\ UNCHANGED <<delivered, child, result, control, suppressed, canceller, waits, live,
                     epoch, purging, rolled, faults>>
  BY DEF Register, NotifyWaiters, IInv, TaskInv, StartedInOrder
<1>2. \A u \in Task :
        /\ status'[u] = IF u = t THEN "running" ELSE status[u]
        /\ owner'[u] = IF u = t THEN epoch ELSE owner[u]
        /\ runner'[u] = IF u = t THEN "registered" ELSE runner[u]
  BY <1>1 DEF IInv, TypeOK
<1>3. TypeOK'
  BY <1>1 DEF IInv, TypeOK, waits, Waiting, Status, RunnerState
<1>4. StartedInOrder' /\ OwnedByRunner'
  BY <1>1, <1>2 DEF IInv, TypeOK, TaskInv, StartedInOrder, OwnedByRunner, Spawned
<1>5. ResultKnown' /\ EndedWithChild'
  BY <1>1, <1>2 DEF IInv, TaskInv, ResultKnown, EndedWithChild, RowMatchesChild
<1>6. WinnerMatchesRow'
  BY <1>1, <1>2 DEF IInv, TaskInv, WinnerMatchesRow, LiveMatchesRow, StartedInOrder
<1>7. Ownership'
  BY <1>1, <1>2 DEF IInv, TaskInv, Ownership, RunningIsOwned, SuppressedIsClaimed,
     AnnouncedIsSettled, StartedInOrder, Spawned
<1>8. DeliveredIsTerminal'
  BY <1>1, <1>2 DEF IInv, TaskInv, DeliveredIsTerminal, Terminal
<1>9. RowsMoveOn
  BY <1>1, <1>2 DEF RowsMoveOn
<1>10. NoLostWakeup'
  BY <1>1 DEF NoLostWakeup, Waiting, waits
<1> QED
  BY <1>1, <1>3, <1>4, <1>5, <1>6, <1>7, <1>8, <1>9, <1>10, WaitInvKept DEF IInv, TaskInv

(* Steps that only move a task on: the rows and the entries in memory stay. *)
LEMMA SubmitKeeps ==
  ASSUME NEW t \in Task, IInv, Submit(t)
  PROVE  IInv'
<1>1. /\ runner[t] = "registered"
      /\ runner' = [runner EXCEPT ![t] = "running"]
      /\ control' = control \cup {t}
      /\ UNCHANGED <<rows, child, result, suppressed, canceller, waits, woken, live,
                     epoch, purging, rolled, faults>>
  BY DEF Submit
<1>2. \A u \in Task : runner'[u] = IF u = t THEN "running" ELSE runner[u]
  BY <1>1 DEF IInv, TypeOK
<1>3. TypeOK'
  BY <1>1 DEF IInv, TypeOK, rows, waits, RunnerState
<1>4. StartedInOrder' /\ OwnedByRunner'
  BY <1>1, <1>2 DEF IInv, TaskInv, StartedInOrder, OwnedByRunner, Spawned, rows
<1>5. ResultKnown' /\ EndedWithChild'
  BY <1>1, <1>2 DEF IInv, TaskInv, ResultKnown, EndedWithChild, RowMatchesChild,
     StartedInOrder, rows
<1>6. WinnerMatchesRow'
  BY <1>1, <1>2 DEF IInv, TaskInv, WinnerMatchesRow, LiveMatchesRow, rows
<1>7. Ownership'
  BY <1>1, <1>2 DEF IInv, TaskInv, Ownership, RunningIsOwned, SuppressedIsClaimed,
     AnnouncedIsSettled, rows
<1>8. DeliveredIsTerminal'
  BY <1>1 DEF IInv, TaskInv, DeliveredIsTerminal, rows
<1>9. RowsMoveOn /\ UNCHANGED <<waits, delivered, rolled>>
  BY <1>1, <1>2 DEF RowsMoveOn, rows
<1>10. NoLostWakeup'
  BY <1>1, <1>2 DEF IInv, NoLostWakeup, Returnable, Waitable, waits, rows
<1> QED
  BY <1>3, <1>4, <1>5, <1>6, <1>7, <1>8, <1>9, <1>10, WaitInvKept DEF IInv, TaskInv

LEMMA SubmitFailsKeeps ==
  ASSUME NEW t \in Task, IInv, SubmitFails(t)
  PROVE  IInv'
<1>1. /\ runner[t] = "registered"
      /\ runner' = [runner EXCEPT ![t] = "done"]
      /\ live' = [live EXCEPT ![t] = "none"]
      /\ UNCHANGED <<owner, delivered, child, result, control, suppressed, canceller,
                     waits, epoch, purging, rolled>>
      /\ \/ /\ status' = [status EXCEPT ![t] = "absent"] /\ woken' = Waiting /\ faults' = faults
         \/ /\ faults' = faults \cup {"db"} /\ UNCHANGED <<status, woken>>
  BY DEF SubmitFails, NotifyWaiters, Fault
<1>2. /\ \A u \in Task : runner'[u] = IF u = t THEN "done" ELSE runner[u]
      /\ \A u \in Task : live'[u] = IF u = t THEN "none" ELSE live[u]
      /\ \A u \in Task : u # t => status'[u] = status[u]
      /\ status'[t] = "absent" \/ (status'[t] = status[t] /\ "db" \in faults')
      /\ faults \subseteq faults'
  BY <1>1 DEF IInv, TypeOK
<1>3. TypeOK'
  BY <1>1 DEF IInv, TypeOK, waits, RunnerState, Status, Outcome, FaultKind, Waiting
<1>4. StartedInOrder' /\ OwnedByRunner'
  BY <1>1, <1>2 DEF IInv, TaskInv, StartedInOrder, OwnedByRunner, Spawned
<1>5. ResultKnown' /\ EndedWithChild'
  BY <1>1, <1>2 DEF IInv, TaskInv, ResultKnown, EndedWithChild, RowMatchesChild,
     StartedInOrder
<1>6. WinnerMatchesRow'
  BY <1>1, <1>2 DEF IInv, TaskInv, WinnerMatchesRow, LiveMatchesRow, StartedInOrder
<1>7. Ownership'
  BY <1>1, <1>2 DEF IInv, TaskInv, Ownership, RunningIsOwned, SuppressedIsClaimed,
     AnnouncedIsSettled
<1>8. DeliveredIsTerminal'
  BY <1>1, <1>2 DEF IInv, TaskInv, DeliveredIsTerminal, StartedInOrder, Terminal
<1>9. RowsMoveOn /\ UNCHANGED <<waits, delivered, rolled>>
  BY <1>1, <1>2 DEF RowsMoveOn
<1>10. NoLostWakeup'
  <2>1. CASE woken' = Waiting
    BY <2>1, <1>1 DEF NoLostWakeup, Waiting, waits
  <2>2. CASE UNCHANGED <<status, woken>>
    BY <2>2, <1>1, <1>2 DEF IInv, NoLostWakeup, Returnable, Waitable, waits
  <2> QED
    BY <2>1, <2>2, <1>1
<1> QED
  BY <1>1, <1>3, <1>4, <1>5, <1>6, <1>7, <1>8, <1>9, <1>10, WaitInvKept DEF IInv, TaskInv

LEMMA StartDroppedKeeps ==
  ASSUME NEW t \in Task, IInv, StartDropped(t)
  PROVE  IInv'
<1>1. /\ runner[t] = "registered"
      /\ runner' = [runner EXCEPT ![t] = "done"]
      /\ faults' = faults \cup {"drop"}
      /\ UNCHANGED <<rows, child, result, control, suppressed, canceller, waits, woken,
                     live, epoch, purging, rolled>>
  BY DEF StartDropped, Fault
<1>2. \A u \in Task : runner'[u] = IF u = t THEN "done" ELSE runner[u]
  BY <1>1 DEF IInv, TypeOK
<1>3. TypeOK'
  BY <1>1 DEF IInv, TypeOK, rows, waits, RunnerState, FaultKind
<1>4. StartedInOrder' /\ OwnedByRunner'
  BY <1>1, <1>2 DEF IInv, TaskInv, StartedInOrder, OwnedByRunner, Spawned, rows
<1>5. ResultKnown' /\ EndedWithChild'
  BY <1>1, <1>2 DEF IInv, TaskInv, ResultKnown, EndedWithChild, RowMatchesChild,
     StartedInOrder, rows
<1>6. WinnerMatchesRow'
  BY <1>1, <1>2 DEF IInv, TaskInv, WinnerMatchesRow, LiveMatchesRow, rows
<1>7. Ownership'
  BY <1>1, <1>2 DEF IInv, TaskInv, Ownership, RunningIsOwned, SuppressedIsClaimed,
     AnnouncedIsSettled, rows
<1>8. DeliveredIsTerminal'
  BY <1>1 DEF IInv, TaskInv, DeliveredIsTerminal, rows
<1>9. RowsMoveOn /\ UNCHANGED <<waits, delivered, rolled>>
  BY <1>1, <1>2 DEF RowsMoveOn, rows
<1>10. NoLostWakeup'
  BY <1>1 DEF NoLostWakeup
<1> QED
  BY <1>3, <1>4, <1>5, <1>6, <1>7, <1>8, <1>9, <1>10, WaitInvKept DEF IInv, TaskInv

LEMMA FinishKeeps ==
  ASSUME NEW t \in Task, IInv, Finish(t)
  PROVE  IInv'
<1>1. PICK r \in Ending, c \in {"open", "completed", "error", "cancelled"} :
        /\ runner[t] = "running"
        /\ result' = [result EXCEPT ![t] = r]
        /\ child' = [child EXCEPT ![t] = c]
        /\ r = "completed" => c = "completed"
        /\ runner' = [runner EXCEPT ![t] = "finished"]
        /\ UNCHANGED <<rows, control, suppressed, canceller, waits, woken, live, epoch,
                       purging, rolled, faults>>
  BY OutcomesAssumption DEF Finish, Persisted
<1> HIDE DEF Persisted
<1>a. r \in {"completed", "failed", "cancelled"}
  BY OutcomesAssumption
<1>2. \A u \in Task :
        /\ runner'[u] = IF u = t THEN "finished" ELSE runner[u]
        /\ result'[u] = IF u = t THEN r ELSE result[u]
        /\ child'[u] = IF u = t THEN c ELSE child[u]
  BY <1>1 DEF IInv, TypeOK
<1>3. TypeOK'
  BY <1>1, <1>a DEF IInv, TypeOK, rows, waits, RunnerState
<1>4. StartedInOrder' /\ OwnedByRunner'
  BY <1>1, <1>2 DEF IInv, TaskInv, StartedInOrder, OwnedByRunner, Spawned, rows
<1>5. ResultKnown' /\ EndedWithChild'
  BY <1>1, <1>2, <1>a DEF IInv, TaskInv, ResultKnown, EndedWithChild, RowMatchesChild, rows
<1>6. WinnerMatchesRow'
  BY <1>1, <1>2 DEF IInv, TaskInv, WinnerMatchesRow, LiveMatchesRow, rows
<1>7. Ownership'
  <2>1. t \in suppressed /\ status[t] = "running" /\ owner[t] = epoch
          /\ faults \cap {"db", "drop"} = {} => canceller[t] = "claimed"
    BY DEF IInv, TaskInv, Ownership, SuppressedIsClaimed
  <2> QED
    BY <2>1, <1>1, <1>2 DEF IInv, TaskInv, Ownership, RunningIsOwned, SuppressedIsClaimed,
       AnnouncedIsSettled, rows
<1>8. DeliveredIsTerminal'
  BY <1>1 DEF IInv, TaskInv, DeliveredIsTerminal, rows
<1>9. RowsMoveOn /\ UNCHANGED <<waits, delivered, rolled>>
  BY <1>1, <1>2 DEF RowsMoveOn, rows
<1>10. NoLostWakeup'
  BY <1>1, <1>2 DEF IInv, NoLostWakeup, Returnable, Waitable, waits, rows
<1> QED
  BY <1>3, <1>4, <1>5, <1>6, <1>7, <1>8, <1>9, <1>10, WaitInvKept DEF IInv, TaskInv

LEMMA CheckSuppressKeeps ==
  ASSUME NEW t \in Task, IInv, CheckSuppress(t)
  PROVE  IInv'
<1>1. /\ runner[t] = "finished"
      /\ UNCHANGED <<rows, child, canceller, waits, woken, live, epoch, purging, rolled,
                     faults>>
      /\ \/ /\ t \in suppressed
            /\ runner' = [runner EXCEPT ![t] = "done"]
            /\ result' = [result EXCEPT ![t] = "none"]
            /\ control' = control \ {t} /\ suppressed' = suppressed \ {t}
         \/ /\ t \notin suppressed
            /\ runner' = [runner EXCEPT ![t] = "checked"]
            /\ UNCHANGED <<result, control, suppressed>>
  BY DEF CheckSuppress
<1>2. /\ \A u \in Task : u # t => runner'[u] = runner[u] /\ result'[u] = result[u]
      /\ \/ t \in suppressed /\ runner'[t] = "done" /\ result'[t] = "none"
            /\ t \notin control' /\ t \notin suppressed'
         \/ t \notin suppressed /\ runner'[t] = "checked" /\ result'[t] = result[t]
      /\ control' \subseteq control /\ suppressed' \subseteq suppressed
  BY <1>1 DEF IInv, TypeOK
<1>3. TypeOK'
  BY <1>1 DEF IInv, TypeOK, rows, waits, RunnerState
<1>4. StartedInOrder' /\ OwnedByRunner'
  BY <1>1, <1>2 DEF IInv, TaskInv, StartedInOrder, OwnedByRunner, Spawned, rows
<1>5. ResultKnown' /\ EndedWithChild'
  BY <1>1, <1>2 DEF IInv, TaskInv, ResultKnown, EndedWithChild, RowMatchesChild, rows
<1>6. WinnerMatchesRow'
  BY <1>1, <1>2 DEF IInv, TaskInv, WinnerMatchesRow, LiveMatchesRow, rows
<1>7. Ownership'
  BY <1>1, <1>2 DEF IInv, TaskInv, Ownership, RunningIsOwned, SuppressedIsClaimed,
     AnnouncedIsSettled, rows
<1>8. DeliveredIsTerminal'
  BY <1>1 DEF IInv, TaskInv, DeliveredIsTerminal, rows
<1>9. RowsMoveOn /\ UNCHANGED <<waits, delivered, rolled>>
  BY <1>1, <1>2 DEF RowsMoveOn, rows
<1>10. NoLostWakeup'
  <2>1. \A w \in Wait : selected[w] \subseteq Task
    BY DEF IInv, TypeOK
  <2>2. \A u \in Task : runner[u] = "won" => runner'[u] = "won"
    BY <1>1, <1>2
  <2> QED
    BY <2>1, <2>2, <1>1 DEF IInv, NoLostWakeup, Returnable, Waitable, waits, rows
<1> QED
  BY <1>3, <1>4, <1>5, <1>6, <1>7, <1>8, <1>9, <1>10, WaitInvKept DEF IInv, TaskInv

LEMMA PublishKeeps ==
  ASSUME NEW t \in Task, IInv, Publish(t)
  PROVE  IInv'
<1>1. /\ runner[t] = "won"
      /\ live' = [live EXCEPT ![t] = result[t]]
      /\ woken' = Waiting
      /\ runner' = [runner EXCEPT ![t] = "announcing"]
      /\ UNCHANGED <<rows, child, result, control, suppressed, canceller, waits, epoch,
                     purging, rolled, faults>>
  BY DEF Publish, NotifyWaiters
<1>2. /\ \A u \in Task : /\ runner'[u] = IF u = t THEN "announcing" ELSE runner[u]
                         /\ live'[u] = IF u = t THEN result[t] ELSE live[u]
      /\ result[t] # "running" /\ status[t] \in {result[t], "absent"}
  BY <1>1 DEF IInv, TypeOK, TaskInv, WinnerMatchesRow
<1>3. TypeOK'
  BY <1>1 DEF IInv, TypeOK, rows, waits, RunnerState, Outcome, Terminal, Waiting
<1>4. StartedInOrder' /\ OwnedByRunner'
  BY <1>1, <1>2 DEF IInv, TaskInv, StartedInOrder, OwnedByRunner, Spawned, rows
<1>5. ResultKnown' /\ EndedWithChild'
  BY <1>1, <1>2 DEF IInv, TaskInv, ResultKnown, EndedWithChild, RowMatchesChild, rows
<1>6. WinnerMatchesRow'
  BY <1>1, <1>2 DEF IInv, TaskInv, WinnerMatchesRow, LiveMatchesRow, rows
<1>7. Ownership'
  BY <1>1, <1>2 DEF IInv, TaskInv, Ownership, RunningIsOwned, SuppressedIsClaimed,
     AnnouncedIsSettled, rows
<1>8. DeliveredIsTerminal'
  BY <1>1 DEF IInv, TaskInv, DeliveredIsTerminal, rows
<1>9. RowsMoveOn /\ UNCHANGED <<waits, delivered, rolled>>
  BY <1>1, <1>2 DEF RowsMoveOn, rows
<1>10. NoLostWakeup'
  BY <1>1 DEF NoLostWakeup, Waiting, waits
<1> QED
  BY <1>3, <1>4, <1>5, <1>6, <1>7, <1>8, <1>9, <1>10, WaitInvKept DEF IInv, TaskInv

LEMMA AnnounceKeeps ==
  ASSUME NEW t \in Task, IInv, Announce(t)
  PROVE  IInv'
<1>1. /\ runner[t] = "announcing"
      /\ result' = [result EXCEPT ![t] = "none"]
      /\ control' = control \ {t} /\ suppressed' = suppressed \ {t}
      /\ runner' = [runner EXCEPT ![t] = "done"]
      /\ UNCHANGED <<rows, child, canceller, waits, woken, live, epoch, purging, rolled,
                     faults>>
  BY DEF Announce
<1>2. \A u \in Task : /\ runner'[u] = IF u = t THEN "done" ELSE runner[u]
                      /\ result'[u] = IF u = t THEN "none" ELSE result[u]
  BY <1>1 DEF IInv, TypeOK
<1>3. TypeOK'
  BY <1>1 DEF IInv, TypeOK, rows, waits, RunnerState
<1>4. StartedInOrder' /\ OwnedByRunner'
  BY <1>1, <1>2 DEF IInv, TaskInv, StartedInOrder, OwnedByRunner, Spawned, rows
<1>5. ResultKnown' /\ EndedWithChild'
  BY <1>1, <1>2 DEF IInv, TaskInv, ResultKnown, EndedWithChild, RowMatchesChild, rows
<1>6. WinnerMatchesRow'
  BY <1>1, <1>2 DEF IInv, TaskInv, WinnerMatchesRow, LiveMatchesRow, rows
<1>7. Ownership'
  BY <1>1, <1>2 DEF IInv, TaskInv, Ownership, RunningIsOwned, SuppressedIsClaimed,
     AnnouncedIsSettled, rows
<1>8. DeliveredIsTerminal'
  BY <1>1 DEF IInv, TaskInv, DeliveredIsTerminal, rows
<1>9. RowsMoveOn /\ UNCHANGED <<waits, delivered, rolled>>
  BY <1>1, <1>2 DEF RowsMoveOn, rows
<1>10. NoLostWakeup'
  BY <1>1, <1>2 DEF IInv, NoLostWakeup, Returnable, Waitable, waits, rows
<1> QED
  BY <1>3, <1>4, <1>5, <1>6, <1>7, <1>8, <1>9, <1>10, WaitInvKept DEF IInv, TaskInv

LEMMA CompleteKeeps ==
  ASSUME NEW t \in Task, IInv, Complete(t)
  PROVE  IInv'
<1>1. /\ runner[t] = "checked"
      /\ UNCHANGED <<owner, delivered, child, result, control, suppressed, canceller,
                     waits, woken, live, epoch, purging, rolled>>
      /\ \/ /\ status[t] = "running" /\ faults' = faults
            /\ status' = [status EXCEPT ![t] = result[t]]
            /\ runner' = [runner EXCEPT ![t] = "won"]
         \/ /\ status[t] # "running" /\ UNCHANGED <<status, faults>>
            /\ runner' = [runner EXCEPT ![t] = "announcing"]
         \/ /\ faults' = faults \cup {"db"} /\ UNCHANGED status
            /\ runner' = [runner EXCEPT ![t] = "announcing"]
  BY DEF Complete, UpdateTaskStatus, Fault
<1>a. result[t] \in {"completed", "failed", "cancelled"}
  BY <1>1 DEF IInv, TypeOK, TaskInv, ResultKnown
<1>2. /\ \A u \in Task : u # t => runner'[u] = runner[u] /\ status'[u] = status[u]
      /\ \/ status[t] = "running" /\ status'[t] = result[t] /\ runner'[t] = "won"
         \/ /\ status'[t] = status[t] /\ runner'[t] = "announcing"
            /\ status[t] # "running" \/ "db" \in faults'
      /\ faults \subseteq faults' /\ ("drop" \in faults' => "drop" \in faults)
  <2>1. \A u \in Task : u # t => runner'[u] = runner[u] /\ status'[u] = status[u]
    BY <1>1 DEF IInv, TypeOK
  <2>2. \/ status[t] = "running" /\ status'[t] = result[t] /\ runner'[t] = "won"
        \/ /\ status'[t] = status[t] /\ runner'[t] = "announcing"
           /\ status[t] # "running" \/ "db" \in faults'
    BY <1>1 DEF IInv, TypeOK
  <2>3. faults \subseteq faults' /\ ("drop" \in faults' => "drop" \in faults)
    BY <1>1
  <2> QED
    BY <2>1, <2>2, <2>3
<1>3. TypeOK'
  <2>1. status' \in [Task -> Status]
    BY <1>1, <1>a DEF IInv, TypeOK, Status, Terminal
  <2>2. runner' \in [Task -> RunnerState]
    BY <1>1 DEF IInv, TypeOK, RunnerState
  <2>3. faults' \in SUBSET FaultKind
    BY <1>1 DEF IInv, TypeOK, FaultKind
  <2> QED
    BY <2>1, <2>2, <2>3, <1>1 DEF IInv, TypeOK, waits
<1>4. StartedInOrder' /\ OwnedByRunner'
  BY <1>1, <1>2, <1>a DEF IInv, TaskInv, StartedInOrder, OwnedByRunner, Spawned
<1>5. ResultKnown' /\ EndedWithChild'
  BY <1>1, <1>2, <1>a DEF IInv, TaskInv, ResultKnown, EndedWithChild, RowMatchesChild
<1>6. WinnerMatchesRow'
  BY <1>1, <1>2, <1>a DEF IInv, TypeOK, Outcome, Terminal, TaskInv, WinnerMatchesRow,
     LiveMatchesRow
<1>7. Ownership'
  BY <1>1, <1>2, <1>a DEF IInv, TaskInv, Ownership, RunningIsOwned, SuppressedIsClaimed,
     AnnouncedIsSettled
<1>8. DeliveredIsTerminal'
  BY <1>1, <1>2 DEF IInv, TaskInv, DeliveredIsTerminal, Terminal
<1>9. RowsMoveOn /\ UNCHANGED <<waits, delivered, rolled>>
  BY <1>1, <1>2 DEF RowsMoveOn
<1>10. NoLostWakeup'
  <2>1. \A w \in Wait : selected[w] \subseteq Task
    BY DEF IInv, TypeOK
  <2>2. SUFFICES ASSUME NEW w \in Wait, wpc[w] = "sleeping", Returnable(w)', "drop" \notin faults'
                 PROVE  \/ w \in woken \/ purging # {}
                        \/ \E u \in selected[w] : runner'[u] = "won" \/ canceller[u] = "won"
    BY <1>1 DEF NoLostWakeup, waits
  <2>3. CASE runner'[t] = "won" /\ t \in selected[w]
    BY <2>3
  <2>4. CASE ~(runner'[t] = "won" /\ t \in selected[w])
    <3>1. \A u \in selected[w] : status'[u] = status[u]
      BY <2>4, <2>1, <1>2
    <3>2. Returnable(w)
      BY <2>2, <3>1, <1>1 DEF Returnable, Waitable, waits
    <3>3. \/ w \in woken \/ purging # {}
          \/ \E u \in selected[w] : runner[u] = "won" \/ canceller[u] = "won"
      BY <2>2, <3>2, <1>2 DEF IInv, NoLostWakeup
    <3>4. \A u \in selected[w] : runner[u] = "won" => runner'[u] = "won"
      BY <2>1, <1>1, <1>2
    <3> QED
      BY <3>3, <3>4
  <2> QED
    BY <2>3, <2>4
<1> QED
  BY <1>1, <1>3, <1>4, <1>5, <1>6, <1>7, <1>8, <1>9, <1>10, WaitInvKept DEF IInv, TaskInv

LEMMA ClaimControlKeeps ==
  ASSUME NEW t \in Task, IInv, ClaimControl(t)
  PROVE  IInv'
<1>1. /\ t \in control /\ canceller[t] = "none"
      /\ control' = control \ {t} /\ suppressed' = suppressed \cup {t}
      /\ canceller' = [canceller EXCEPT ![t] = "claimed"]
      /\ UNCHANGED <<rows, child, runner, result, waits, woken, live, epoch, purging,
                     rolled, faults>>
  BY DEF ClaimControl
<1>2. \A u \in Task : canceller'[u] = IF u = t THEN "claimed" ELSE canceller[u]
  BY <1>1 DEF IInv, TypeOK
<1>3. TypeOK'
  BY <1>1 DEF IInv, TypeOK, rows, waits
<1>4. StartedInOrder' /\ OwnedByRunner'
  BY <1>1, <1>2 DEF IInv, TaskInv, StartedInOrder, OwnedByRunner, Spawned, rows
<1>5. ResultKnown' /\ EndedWithChild'
  BY <1>1, <1>2 DEF IInv, TaskInv, ResultKnown, EndedWithChild, RowMatchesChild, rows
<1>6. WinnerMatchesRow'
  BY <1>1, <1>2 DEF IInv, TaskInv, WinnerMatchesRow, LiveMatchesRow, rows
<1>7. Ownership'
  BY <1>1, <1>2 DEF IInv, TaskInv, Ownership, RunningIsOwned, SuppressedIsClaimed,
     AnnouncedIsSettled, rows
<1>8. DeliveredIsTerminal'
  BY <1>1 DEF IInv, TaskInv, DeliveredIsTerminal, rows
<1>9. RowsMoveOn /\ UNCHANGED <<waits, delivered, rolled>>
  BY <1>1, <1>2 DEF RowsMoveOn, rows
<1>10. NoLostWakeup'
  <2>1. \A w \in Wait : selected[w] \subseteq Task
    BY DEF IInv, TypeOK
  <2>2. \A u \in Task : canceller[u] = "won" => canceller'[u] = "won"
    BY <1>1, <1>2
  <2> QED
    BY <2>1, <2>2, <1>1 DEF IInv, NoLostWakeup, Returnable, Waitable, waits, rows
<1> QED
  BY <1>3, <1>4, <1>5, <1>6, <1>7, <1>8, <1>9, <1>10, WaitInvKept DEF IInv, TaskInv

LEMMA CancelRowKeeps ==
  ASSUME NEW t \in Task, IInv, CancelRow(t)
  PROVE  IInv'
<1>1. /\ canceller[t] = "claimed"
      /\ UNCHANGED <<owner, delivered, child, runner, result, control, suppressed, waits,
                     live, epoch, purging, rolled>>
      /\ \/ /\ status[t] = "running" /\ UNCHANGED <<woken, faults>>
            /\ status' = [status EXCEPT ![t] = "cancelled"]
            /\ canceller' = [canceller EXCEPT ![t] = "won"]
         \/ /\ status[t] # "running" /\ UNCHANGED <<status, faults>> /\ woken' = Waiting
            /\ canceller' = [canceller EXCEPT ![t] = "none"]
         \/ /\ faults' = faults \cup {"db"} /\ UNCHANGED status /\ woken' = Waiting
            /\ canceller' = [canceller EXCEPT ![t] = "none"]
  BY DEF CancelRow, UpdateTaskStatus, Fault, NotifyWaiters
<1>2. /\ \A u \in Task : u # t => canceller'[u] = canceller[u] /\ status'[u] = status[u]
      /\ \/ status[t] = "running" /\ status'[t] = "cancelled" /\ canceller'[t] = "won"
         \/ /\ status'[t] = status[t] /\ canceller'[t] = "none"
            /\ status[t] # "running" \/ "db" \in faults'
      /\ faults \subseteq faults'
  <2>1. \A u \in Task : u # t => canceller'[u] = canceller[u] /\ status'[u] = status[u]
    BY <1>1 DEF IInv, TypeOK
  <2>2. \/ status[t] = "running" /\ status'[t] = "cancelled" /\ canceller'[t] = "won"
        \/ /\ status'[t] = status[t] /\ canceller'[t] = "none"
           /\ status[t] # "running" \/ "db" \in faults'
    BY <1>1 DEF IInv, TypeOK
  <2>3. faults \subseteq faults'
    BY <1>1
  <2> QED
    BY <2>1, <2>2, <2>3
<1>3. TypeOK'
  <2>1. status' \in [Task -> Status]
    BY <1>1 DEF IInv, TypeOK, Status, Terminal
  <2>2. canceller' \in [Task -> {"none", "claimed", "won"}]
    BY <1>1 DEF IInv, TypeOK
  <2>3. faults' \in SUBSET FaultKind
    BY <1>1 DEF IInv, TypeOK, FaultKind
  <2>4. woken' \in SUBSET Wait
    BY <1>1 DEF IInv, TypeOK, Waiting
  <2> QED
    BY <2>1, <2>2, <2>3, <2>4, <1>1 DEF IInv, TypeOK, waits
<1>4. StartedInOrder' /\ OwnedByRunner'
  BY <1>1, <1>2 DEF IInv, TaskInv, StartedInOrder, OwnedByRunner, Spawned
<1>5. ResultKnown' /\ EndedWithChild'
  BY <1>1, <1>2 DEF IInv, TaskInv, ResultKnown, EndedWithChild, RowMatchesChild
<1>6. WinnerMatchesRow'
  <2>1. runner[t] = "won" => status[t] # "running"
    BY DEF IInv, TypeOK, TaskInv, WinnerMatchesRow
  <2>2. live[t] # "running"
    BY DEF IInv, TypeOK, Outcome, Terminal
  <2> QED
    BY <2>1, <2>2, <1>1, <1>2 DEF IInv, TaskInv, WinnerMatchesRow, LiveMatchesRow
<1>7. Ownership'
  BY <1>1, <1>2 DEF IInv, TaskInv, Ownership, RunningIsOwned, SuppressedIsClaimed,
     AnnouncedIsSettled
<1>8. DeliveredIsTerminal'
  BY <1>1, <1>2 DEF IInv, TaskInv, DeliveredIsTerminal, Terminal
<1>9. RowsMoveOn /\ UNCHANGED <<waits, delivered, rolled>>
  BY <1>1, <1>2 DEF RowsMoveOn
<1>10. NoLostWakeup'
  <2>1. \A w \in Wait : selected[w] \subseteq Task
    BY DEF IInv, TypeOK
  <2>2. SUFFICES ASSUME NEW w \in Wait, wpc[w] = "sleeping", Returnable(w)', "drop" \notin faults'
                 PROVE  \/ w \in woken' \/ purging # {}
                        \/ \E u \in selected[w] : runner[u] = "won" \/ canceller'[u] = "won"
    BY <1>1 DEF NoLostWakeup, waits
  <2>3. CASE woken' = Waiting
    BY <2>2, <2>3 DEF Waiting
  <2>4. CASE canceller'[t] = "won" /\ t \in selected[w]
    BY <2>4
  <2>5. CASE canceller'[t] = "won" /\ t \notin selected[w] /\ woken' = woken
    <3>1. \A u \in selected[w] : status'[u] = status[u] /\ canceller'[u] = canceller[u]
      BY <2>5, <2>1, <1>2
    <3>2. Returnable(w)
      BY <2>2, <3>1, <1>1 DEF Returnable, Waitable, waits
    <3> QED
      BY <2>2, <2>5, <3>1, <3>2, <1>2 DEF IInv, NoLostWakeup
  <2> QED
    BY <2>3, <2>4, <2>5, <1>1, <1>2 DEF IInv, TypeOK
<1> QED
  BY <1>1, <1>3, <1>4, <1>5, <1>6, <1>7, <1>8, <1>9, <1>10, WaitInvKept DEF IInv, TaskInv

LEMMA CancelLiveKeeps ==
  ASSUME NEW t \in Task, IInv, CancelLive(t)
  PROVE  IInv'
<1>1. /\ canceller[t] = "won"
      /\ live' = [live EXCEPT ![t] = "cancelled"]
      /\ canceller' = [canceller EXCEPT ![t] = "none"]
      /\ woken' = Waiting
      /\ UNCHANGED <<rows, child, runner, result, control, suppressed, waits, epoch,
                     purging, rolled, faults>>
  BY DEF CancelLive, NotifyWaiters
<1>2. \A u \in Task : /\ canceller'[u] = IF u = t THEN "none" ELSE canceller[u]
                      /\ live'[u] = IF u = t THEN "cancelled" ELSE live[u]
  BY <1>1 DEF IInv, TypeOK
<1>3. TypeOK'
  BY <1>1 DEF IInv, TypeOK, rows, waits, Outcome, Terminal, Waiting
<1>4. StartedInOrder' /\ OwnedByRunner'
  BY <1>1, <1>2 DEF IInv, TaskInv, StartedInOrder, OwnedByRunner, Spawned, rows
<1>5. ResultKnown' /\ EndedWithChild'
  BY <1>1, <1>2 DEF IInv, TaskInv, ResultKnown, EndedWithChild, RowMatchesChild, rows
<1>6. WinnerMatchesRow'
  BY <1>1, <1>2 DEF IInv, TaskInv, WinnerMatchesRow, LiveMatchesRow, rows
<1>7. Ownership'
  BY <1>1, <1>2 DEF IInv, TaskInv, Ownership, RunningIsOwned, SuppressedIsClaimed,
     AnnouncedIsSettled, WinnerMatchesRow, rows
<1>8. DeliveredIsTerminal'
  BY <1>1 DEF IInv, TaskInv, DeliveredIsTerminal, rows
<1>9. RowsMoveOn /\ UNCHANGED <<waits, delivered, rolled>>
  BY <1>1, <1>2 DEF RowsMoveOn, rows
<1>10. NoLostWakeup'
  BY <1>1 DEF NoLostWakeup, Waiting, waits
<1> QED
  BY <1>3, <1>4, <1>5, <1>6, <1>7, <1>8, <1>9, <1>10, WaitInvKept DEF IInv, TaskInv

LEMMA CancelDroppedKeeps ==
  ASSUME NEW t \in Task, IInv, CancelDropped(t)
  PROVE  IInv'
<1>1. /\ faults' = faults \cup {"drop"}
      /\ canceller' = [canceller EXCEPT ![t] = "none"]
      /\ UNCHANGED <<rows, child, runner, result, control, suppressed, waits, woken, live,
                     epoch, purging, rolled>>
  BY DEF CancelDropped, Fault
<1>2. \A u \in Task : canceller'[u] = IF u = t THEN "none" ELSE canceller[u]
  BY <1>1 DEF IInv, TypeOK
<1>3. TypeOK'
  BY <1>1 DEF IInv, TypeOK, rows, waits, FaultKind
<1>4. StartedInOrder' /\ OwnedByRunner'
  BY <1>1, <1>2 DEF IInv, TaskInv, StartedInOrder, OwnedByRunner, Spawned, rows
<1>5. ResultKnown' /\ EndedWithChild'
  BY <1>1, <1>2 DEF IInv, TaskInv, ResultKnown, EndedWithChild, RowMatchesChild, rows
<1>6. WinnerMatchesRow'
  BY <1>1, <1>2 DEF IInv, TaskInv, WinnerMatchesRow, LiveMatchesRow, rows
<1>7. Ownership'
  BY <1>1, <1>2 DEF IInv, TaskInv, Ownership, RunningIsOwned, SuppressedIsClaimed,
     AnnouncedIsSettled, rows
<1>8. DeliveredIsTerminal'
  BY <1>1 DEF IInv, TaskInv, DeliveredIsTerminal, rows
<1>9. RowsMoveOn /\ UNCHANGED <<waits, delivered, rolled>>
  BY <1>1, <1>2 DEF RowsMoveOn, rows
<1>10. NoLostWakeup'
  BY <1>1 DEF NoLostWakeup
<1> QED
  BY <1>3, <1>4, <1>5, <1>6, <1>7, <1>8, <1>9, <1>10, WaitInvKept DEF IInv, TaskInv

(* A restart ends every call; the rows it leaves have nobody working on them. *)
LEMMA RestartKeeps ==
  ASSUME IInv, Restart
  PROVE  IInv'
<1>1. /\ epoch' = epoch + 1 /\ faults' = faults \cup {"restart"}
      /\ control' = {} /\ suppressed' = {} /\ purging' = {} /\ woken' = {}
      /\ UNCHANGED <<rows, child, rolled, selected, debounce, late>>
  BY DEF Restart, Fault
<1>2. \A t \in Task :
        /\ live'[t] = "none" /\ result'[t] = "none" /\ canceller'[t] = "none"
        /\ runner'[t] = IF runner[t] = "idle" THEN "idle" ELSE "done"
  BY DEF Restart
<1>3. \A w \in Wait :
        /\ wpc'[w] = IF wpc[w] = "idle" THEN "idle" ELSE "done"
        /\ outcomes'[w] = IF Active(w) THEN NoOutcomes ELSE outcomes[w]
  BY DEF Restart
<1>4. TypeOK'
  <2>1. /\ live' \in [Task -> Outcome] /\ runner' \in [Task -> RunnerState]
        /\ result' \in [Task -> {"none", "completed", "failed", "cancelled"}]
        /\ canceller' \in [Task -> {"none", "claimed", "won"}]
    BY DEF Restart, Outcome, RunnerState
  <2>2. wpc' \in [Wait -> WaitState]
    BY DEF Restart, WaitState
  <2>3. outcomes' \in [Wait -> [Task -> Outcome]]
    <3>1. NoOutcomes \in [Task -> Outcome]
      BY DEF NoOutcomes, Outcome
    <3> QED
      BY <3>1 DEF Restart, IInv, TypeOK
  <2>4. verdict' \in [Wait -> Verdict]
    BY DEF Restart, IInv, TypeOK, Verdict
  <2> QED
    BY <2>1, <2>2, <2>3, <2>4, <1>1 DEF IInv, TypeOK, rows, FaultKind
<1>5. StartedInOrder' /\ OwnedByRunner'
  BY <1>1, <1>2 DEF IInv, TypeOK, TaskInv, StartedInOrder, OwnedByRunner, Spawned, rows
<1>6. ResultKnown' /\ EndedWithChild'
  BY <1>1, <1>2 DEF IInv, TaskInv, ResultKnown, EndedWithChild, RowMatchesChild, rows
<1>7. WinnerMatchesRow'
  BY <1>1, <1>2 DEF WinnerMatchesRow, LiveMatchesRow
<1>8. Ownership'
  <2>1. \A t \in Task : owner[t] # epoch'
    BY <1>1 DEF IInv, TypeOK, TaskInv, OwnedByRunner
  <2> QED
    BY <2>1, <1>1, <1>2 DEF Ownership, RunningIsOwned, SuppressedIsClaimed,
       AnnouncedIsSettled, rows
<1>9. DeliveredIsTerminal'
  BY <1>1 DEF IInv, TaskInv, DeliveredIsTerminal, rows
<1>10. WaitInv'
  <2>1. \A w \in Wait, t \in Task : outcomes'[w][t] # "none" =>
          wpc[w] = "done" /\ wpc'[w] = "done" /\ outcomes'[w] = outcomes[w]
    BY <1>3 DEF Active, NoOutcomes, IInv, WaitInv, WaitsInTurn
  <2>2. WaitsInTurn' /\ ClaimIsFresh'
    BY <1>3, <2>1 DEF WaitsInTurn, Active, ClaimIsFresh
  <2>3. CollectedMatchesRow'
    BY <2>1, <1>1, <1>2 DEF IInv, WaitInv, CollectedMatchesRow, rows
  <2>4. HandedOver' /\ HandedOnce'
    BY <2>1, <1>1 DEF IInv, WaitInv, HandedOver, HandedOnce, rows
  <2> QED
    BY <2>2, <2>3, <2>4 DEF WaitInv
<1>11. NoLostWakeup'
  BY <1>3 DEF NoLostWakeup
<1> QED
  BY <1>4, <1>5, <1>6, <1>7, <1>8, <1>9, <1>10, <1>11 DEF IInv, TaskInv

LEMMA RollBackKeeps ==
  ASSUME NEW S \in SUBSET Turn, IInv, RollBack(S)
  PROVE  IInv'
<1> DEFINE deleted == {t \in Task : status[t] # "absent" /\ StartedIn[t] \in S}
<1>1. /\ faults' = faults \cup {"rollback"} /\ rolled' = rolled \cup S
      /\ UNCHANGED <<owner, tasks, waits, live, epoch>>
      /\ purging' = deleted
      /\ deleted = {} => woken' = Waiting
      /\ deleted # {} => woken' = woken
  BY DEF RollBack, Fault, NotifyWaiters
<1>2. \A t \in Task :
        /\ status'[t] = IF t \in deleted THEN "absent" ELSE status[t]
        /\ delivered'[t] = IF t \in deleted \/ delivered[t] \in S THEN NoTurn ELSE delivered[t]
  BY DEF RollBack
<1>3. TypeOK'
  <2>1. status' \in [Task -> Status]
    BY DEF RollBack, IInv, TypeOK, Status
  <2>2. delivered' \in [Task -> Turn \cup {NoTurn}]
    BY DEF RollBack, IInv, TypeOK
  <2>3. woken' \in SUBSET Wait /\ purging' \in SUBSET Task
    BY <1>1 DEF Waiting, IInv, TypeOK
  <2> QED
    BY <2>1, <2>2, <2>3, <1>1 DEF IInv, TypeOK, tasks, waits, FaultKind
<1> HIDE DEF deleted
<1>4. StartedInOrder' /\ OwnedByRunner'
  BY <1>1, <1>2 DEF IInv, TaskInv, StartedInOrder, OwnedByRunner, Spawned, tasks
<1>5. ResultKnown' /\ EndedWithChild'
  BY <1>1, <1>2 DEF IInv, TaskInv, ResultKnown, EndedWithChild, RowMatchesChild, tasks
<1>6. WinnerMatchesRow'
  BY <1>1, <1>2 DEF IInv, TaskInv, WinnerMatchesRow, LiveMatchesRow, tasks
<1>7. Ownership'
  BY <1>1, <1>2 DEF IInv, TaskInv, Ownership, RunningIsOwned, SuppressedIsClaimed,
     AnnouncedIsSettled, tasks
<1>8. DeliveredIsTerminal'
  BY <1>1, <1>2 DEF IInv, TaskInv, DeliveredIsTerminal
<1>9. WaitInv'
  <2>1. WaitsInTurn' /\ HandedOnce'
    BY <1>1 DEF IInv, WaitInv, WaitsInTurn, Active, HandedOnce, waits
  <2>2. CollectedMatchesRow'
    BY <1>1, <1>2 DEF IInv, WaitInv, CollectedMatchesRow, waits, tasks
  <2>3. ClaimIsFresh'
    BY <1>1, <1>2, OutcomesAssumption DEF IInv, WaitInv, ClaimIsFresh, waits
  <2>4. HandedOver'
    BY <1>1, <1>2 DEF IInv, WaitInv, HandedOver, waits
  <2> QED
    BY <2>1, <2>2, <2>3, <2>4 DEF WaitInv
<1>10. NoLostWakeup'
  BY <1>1 DEF NoLostWakeup, Waiting, waits
<1> QED
  BY <1>3, <1>4, <1>5, <1>6, <1>7, <1>8, <1>9, <1>10 DEF IInv, TaskInv

LEMMA PurgeLiveKeeps ==
  ASSUME IInv, PurgeLive
  PROVE  IInv'
<1>1. /\ purging' = {} /\ woken' = Waiting
      /\ UNCHANGED <<rows, tasks, waits, epoch, rolled, faults>>
      /\ \A t \in Task : live'[t] \in {"none", live[t]}
  BY DEF PurgeLive, NotifyWaiters
<1>2. live' \in [Task -> Outcome]
  BY DEF PurgeLive, IInv, TypeOK, Outcome
<1>3. TypeOK'
  BY <1>1, <1>2 DEF IInv, TypeOK, rows, tasks, waits, Waiting
<1>4. StartedInOrder' /\ OwnedByRunner'
  BY <1>1 DEF IInv, TaskInv, StartedInOrder, OwnedByRunner, Spawned, tasks, rows
<1>5. ResultKnown' /\ EndedWithChild'
  BY <1>1 DEF IInv, TaskInv, ResultKnown, EndedWithChild, RowMatchesChild, tasks, rows
<1>6. WinnerMatchesRow'
  BY <1>1 DEF IInv, TaskInv, WinnerMatchesRow, LiveMatchesRow, tasks, rows
<1>7. Ownership'
  BY <1>1 DEF IInv, TaskInv, Ownership, RunningIsOwned, SuppressedIsClaimed,
     AnnouncedIsSettled, tasks, rows
<1>8. DeliveredIsTerminal'
  BY <1>1 DEF IInv, TaskInv, DeliveredIsTerminal, rows
<1>9. RowsMoveOn /\ UNCHANGED <<waits, delivered, rolled>>
  BY <1>1 DEF RowsMoveOn, rows, tasks
<1>10. NoLostWakeup'
  BY <1>1 DEF NoLostWakeup, Waiting, waits
<1> QED
  BY <1>3, <1>4, <1>5, <1>6, <1>7, <1>8, <1>9, <1>10, WaitInvKept DEF IInv, TaskInv

--------------------------------------------------------------------------------
(* The steps of a wait leave the tasks as they are, but for a fault. *)
LEMMA TaskInvKept ==
  ASSUME IInv, UNCHANGED <<status, owner, tasks, live, epoch>>, faults \subseteq faults',
         DeliveredIsTerminal'
  PROVE  TaskInv'
<1>1. StartedInOrder' /\ OwnedByRunner'
  BY DEF IInv, TaskInv, StartedInOrder, OwnedByRunner, Spawned, tasks
<1>2. ResultKnown' /\ EndedWithChild'
  BY DEF IInv, TaskInv, ResultKnown, EndedWithChild, RowMatchesChild, tasks
<1>3. WinnerMatchesRow'
  BY DEF IInv, TaskInv, WinnerMatchesRow, LiveMatchesRow, tasks
<1>4. Ownership'
  BY DEF IInv, TaskInv, Ownership, RunningIsOwned, SuppressedIsClaimed,
     AnnouncedIsSettled, tasks
<1> QED
  BY <1>1, <1>2, <1>3, <1>4 DEF TaskInv

(* The step of wait w to x, with the outcomes o. *)
Moves(w, x, o) ==
  /\ \A v \in Wait : wpc'[v] = IF v = w THEN x ELSE wpc[v]
  /\ \A v \in Wait : outcomes'[v] = IF v = w THEN o ELSE outcomes[v]

LEMMA WaitMoves ==
  ASSUME NEW w \in Wait, NEW x, NEW o, IInv, Moves(w, x, o), RowsMoveOn,
         UNCHANGED <<delivered, rolled>>,
         x = "done" \/ \A v \in Wait : Active(v) /\ TurnOf[v] = TurnOf[w] => v = w,
         x \in {"idle", "selecting"} => \A t \in Task : o[t] = "none",
         \A t \in Task : o[t] # "none" =>
           o[t] \in Terminal /\ status'[t] \in {o[t], "absent"} /\ runner'[t] # "idle",
         x = "claiming" => \A t \in Task : o[t] # "none" => delivered[t] # TurnOf[w],
         x \in {"claimed", "done"} => \A t \in Task : 
           o[t] = "none" \/ (wpc[w] \in {"claimed", "done"} /\ o = outcomes[w])
  PROVE  WaitInv'
<1>1. \A v \in Wait, t \in Task : v # w /\ outcomes[v][t] # "none" =>
        /\ outcomes[v][t] \in Terminal /\ runner'[t] # "idle"
        /\ status'[t] \in {outcomes[v][t], "absent"}
        /\ status[t] = "absent" => status'[t] = "absent"
  BY DEF IInv, WaitInv, CollectedMatchesRow, RowsMoveOn, Terminal
<1>2. WaitsInTurn'
  BY DEF IInv, WaitInv, WaitsInTurn, Active, Moves
<1>3. CollectedMatchesRow'
  BY <1>1 DEF CollectedMatchesRow, Moves
<1>4. ClaimIsFresh'
  BY DEF IInv, WaitInv, ClaimIsFresh, Moves
<1>5. HandedOver'
  <2>1. \A t \in Task : outcomes[w][t] # "none" /\ status[t] = "absent" => status'[t] = "absent"
    BY DEF IInv, WaitInv, CollectedMatchesRow, RowsMoveOn
  <2> QED
    BY <1>1, <2>1 DEF IInv, WaitInv, HandedOver, Moves
<1>6. HandedOnce'
  BY DEF IInv, WaitInv, HandedOnce, Moves
<1> QED
  BY <1>2, <1>3, <1>4, <1>5, <1>6 DEF WaitInv

(* A step of one wait cannot keep another one asleep. *)
LEMMA SleepersKept ==
  ASSUME NEW w \in Wait, IInv, wpc'[w] # "sleeping",
         \A v \in Wait : v # w => wpc'[v] = wpc[v] /\ selected'[v] = selected[v],
         woken \ {w} \subseteq woken', faults \subseteq faults',
         \A t \in Task : Waitable(t)' => Waitable(t),
         UNCHANGED <<status, runner, canceller, purging>>
  PROVE  NoLostWakeup'
<1> SUFFICES ASSUME NEW v \in Wait, wpc'[v] = "sleeping", Returnable(v)', "drop" \notin faults'
             PROVE  \/ v \in woken' \/ purging' # {}
                    \/ \E t \in selected'[v] : runner'[t] = "won" \/ canceller'[t] = "won"
  BY DEF NoLostWakeup
<1>1. v # w /\ wpc[v] = "sleeping" /\ selected'[v] = selected[v] /\ selected[v] \subseteq Task
  BY DEF IInv, TypeOK
<1>2. Returnable(v)
  BY <1>1 DEF Returnable
<1> QED
  BY <1>1, <1>2 DEF IInv, NoLostWakeup

LEMMA StartWaitKeeps ==
  ASSUME NEW w \in Wait, IInv, StartWait(w)
  PROVE  IInv'
<1>1. /\ wpc[w] = "idle"
      /\ \A v \in Wait : TurnOf[v] = TurnOf[w] => ~Active(v)
      /\ UNCHANGED <<owner, delivered, tasks, selected, outcomes, debounce, late, live,
                     epoch, purging, rolled>>
  BY DEF StartWait
<1>2. \A t \in Task : outcomes[w][t] = "none"
  BY <1>1 DEF IInv, WaitInv, WaitsInTurn
<1>3. CASE /\ status' = [t \in Task |-> IF Stale(t) THEN Reconciled(t) ELSE status[t]]
           /\ woken' = Waiting /\ wpc' = [wpc EXCEPT ![w] = "selecting"]
           /\ UNCHANGED <<verdict, faults>>
  <2>1. \A t \in Task :
          \/ status'[t] = status[t] /\ ~Stale(t)
          \/ /\ status[t] = "running" /\ owner[t] # epoch /\ runner[t] = "done"
             /\ status'[t] \in Terminal
             /\ status'[t] = "completed" => child[t] = "completed"
             /\ status'[t] = "interrupted" => child[t] = "open"
    BY <1>3 DEF Stale, Reconciled, Terminal, IInv, TypeOK, TaskInv, OwnedByRunner
  <2>2. TypeOK'
    <3>1. status' \in [Task -> Status]
      <4>1. \A t \in Task : status'[t] \in Status
        BY <2>1 DEF Status, IInv, TypeOK
      <4> QED
        BY <4>1, <1>3
    <3>2. woken' \in SUBSET Wait /\ wpc' \in [Wait -> WaitState]
      BY <1>3 DEF Waiting, IInv, TypeOK, WaitState
    <3> QED
      BY <1>1, <1>3, <3>1, <3>2 DEF IInv, TypeOK, tasks
  <2>3. StartedInOrder' /\ OwnedByRunner'
    BY <1>1, <2>1 DEF IInv, TaskInv, StartedInOrder, OwnedByRunner, tasks, Spawned
  <2>4. ResultKnown' /\ EndedWithChild'
    BY <1>1, <2>1 DEF IInv, TaskInv, ResultKnown, EndedWithChild, RowMatchesChild, tasks
  <2>5. WinnerMatchesRow'
    <3>1. \A t \in Task : live[t] # "running" /\ result[t] # "running"
      BY DEF IInv, TypeOK, Outcome, Terminal
    <3> QED
      BY <1>1, <2>1, <3>1 DEF IInv, TaskInv, WinnerMatchesRow, LiveMatchesRow, tasks
  <2>6. Ownership'
    BY <1>1, <1>3, <2>1 DEF IInv, TaskInv, Ownership, RunningIsOwned, SuppressedIsClaimed,
       AnnouncedIsSettled, tasks, Terminal
  <2>7. DeliveredIsTerminal'
    BY <1>1, <2>1 DEF IInv, TaskInv, DeliveredIsTerminal
  <2>8. RowsMoveOn
    BY <1>1, <2>1 DEF RowsMoveOn, tasks
  <2>9. WaitInv'
    <3>1. Moves(w, "selecting", outcomes[w])
      BY <1>1, <1>3 DEF Moves, IInv, TypeOK
    <3> QED
      BY <1>1, <1>2, <2>8, <3>1, WaitMoves
  <2>10. NoLostWakeup'
    BY <1>1, <1>3 DEF NoLostWakeup, Waiting, IInv, TypeOK
  <2> QED
    BY <2>2, <2>3, <2>4, <2>5, <2>6, <2>7, <2>9, <2>10 DEF IInv, TaskInv
<1>4. CASE /\ wpc' = [wpc EXCEPT ![w] = "done"] /\ verdict' = [verdict EXCEPT ![w] = "error"]
           /\ faults' = faults \cup {"db"} /\ UNCHANGED <<status, woken>>
  <2>1. TypeOK'
    BY <1>1, <1>4 DEF IInv, TypeOK, tasks, WaitState, Verdict, FaultKind
  <2>2. TaskInv'
    BY <1>1, <1>4, TaskInvKept DEF IInv, TaskInv, DeliveredIsTerminal
  <2>3. WaitInv'
    <3>1. Moves(w, "done", outcomes[w])
      BY <1>1, <1>4 DEF Moves, IInv, TypeOK
    <3>2. RowsMoveOn
      BY <1>1, <1>4 DEF RowsMoveOn, tasks
    <3> QED
      BY <1>1, <1>2, <3>1, <3>2, WaitMoves
  <2>4. NoLostWakeup'
    BY <1>1, <1>4, SleepersKept DEF IInv, TypeOK, tasks, Waitable
  <2> QED
    BY <2>1, <2>2, <2>3, <2>4 DEF IInv
<1> QED
  BY <1>3, <1>4 DEF StartWait, NotifyWaiters, Answer, Fault

LEMMA SelectKeeps ==
  ASSUME NEW w \in Wait, IInv, Select(w)
  PROVE  IInv'
<1>1. /\ wpc[w] = "selecting"
      /\ UNCHANGED <<rows, tasks, outcomes, debounce, late, woken, live, epoch, purging,
                     rolled>>
  BY DEF Select
<1>2. /\ wpc' \in {[wpc EXCEPT ![w] = "armed"], [wpc EXCEPT ![w] = "done"]}
      /\ selected' \in {selected, [selected EXCEPT ![w] = Candidates(w)]}
      /\ faults' \in {faults, faults \cup {"db"}}
      /\ \E d \in Verdict : verdict' \in {verdict, [verdict EXCEPT ![w] = d]}
  BY DEF Select, Answer, Fault, Verdict
<1>3. TypeOK'
  <2>1. wpc' \in [Wait -> WaitState]
    BY <1>2 DEF IInv, TypeOK, WaitState
  <2>2. selected' \in [Wait -> SUBSET Task]
    BY <1>2 DEF IInv, TypeOK, Candidates
  <2>3. faults' \in SUBSET FaultKind
    BY <1>2 DEF IInv, TypeOK, FaultKind
  <2>4. verdict' \in [Wait -> Verdict]
    BY <1>2 DEF IInv, TypeOK
  <2> QED
    BY <2>1, <2>2, <2>3, <2>4, <1>1 DEF IInv, TypeOK, rows, tasks
<1>4. faults \subseteq faults'
  BY <1>2
<1>5. TaskInv'
  BY <1>1, <1>4, TaskInvKept DEF IInv, TaskInv, DeliveredIsTerminal, rows
<1>6. PICK x \in {"armed", "done"} : \A v \in Wait : wpc'[v] = IF v = w THEN x ELSE wpc[v]
  BY <1>2 DEF IInv, TypeOK
<1>7. WaitInv'
  <2>1. Moves(w, x, outcomes[w]) /\ RowsMoveOn
    BY <1>1, <1>6 DEF Moves, RowsMoveOn, rows, tasks
  <2>2. \A t \in Task : outcomes[w][t] = "none"
    BY <1>1 DEF IInv, WaitInv, WaitsInTurn
  <2>3. \A v \in Wait : Active(v) /\ TurnOf[v] = TurnOf[w] => v = w
    BY <1>1 DEF IInv, WaitInv, WaitsInTurn, Active
  <2> QED
    BY <1>1, <2>1, <2>2, <2>3, WaitMoves DEF rows
<1>8. NoLostWakeup'
  <2>1. \A v \in Wait : v # w => wpc'[v] = wpc[v] /\ selected'[v] = selected[v]
    BY <1>2, <1>6 DEF IInv, TypeOK
  <2> QED
    BY <1>1, <1>4, <1>6, <2>1, SleepersKept DEF rows, tasks, Waitable
<1> QED
  BY <1>3, <1>5, <1>7, <1>8 DEF IInv

(* A wait sleeps only when it has found nothing, or something is running. *)
LEMMA CollectKeeps ==
  ASSUME NEW w \in Wait, IInv, Collect(w)
  PROVE  IInv'
<1>1. /\ wpc[w] = "armed" /\ outcomes' = [outcomes EXCEPT ![w] = Available(w)]
      /\ UNCHANGED <<rows, tasks, selected, late, woken, live, epoch, purging, rolled,
                     faults>>
  BY DEF Collect
<1>2. PICK x \in {"claiming", "sleeping", "done"}, d \in {"none", "set", "due"}, a \in Verdict :
        /\ wpc' = [wpc EXCEPT ![w] = x]
        /\ debounce' = [debounce EXCEPT ![w] = d]
        /\ verdict' = [verdict EXCEPT ![w] = a]
        /\ x = "sleeping" => Found(Available(w)) = {} \/ Pending(w)
        /\ x = "done" => Found(Available(w)) = {}
  <2>1. /\ Debounced(w) \in {"none", "set", "due"} /\ debounce[w] \in {"none", "set", "due"}
        /\ verdict[w] \in Verdict
        /\ debounce = [debounce EXCEPT ![w] = debounce[w]]
        /\ verdict = [verdict EXCEPT ![w] = verdict[w]]
    BY DEF Debounced, IInv, TypeOK
  <2>2. CASE Found(Available(w)) # {} /\ ~Pending(w)
    <3>1. /\ wpc' = [wpc EXCEPT ![w] = "claiming"] /\ debounce' = debounce
          /\ verdict' = [verdict EXCEPT ![w] = "completed"]
      BY <2>2 DEF Collect
    <3> QED
      BY <3>1, <2>1 DEF Verdict
  <2>3. CASE Found(Available(w)) = {} \/ Pending(w)
    <3>1. debounce' = [debounce EXCEPT ![w] = Debounced(w)]
      BY <2>3 DEF Collect
    <3>2. \/ wpc' = [wpc EXCEPT ![w] = "sleeping"] /\ verdict' = verdict
          \/ /\ Found(Available(w)) = {} /\ wpc' = [wpc EXCEPT ![w] = "done"]
             /\ verdict' = [verdict EXCEPT ![w] = "timed_out"]
          \/ /\ wpc' = [wpc EXCEPT ![w] = "claiming"]
             /\ \E a \in {"completed", "timed_out"} : verdict' = [verdict EXCEPT ![w] = a]
      BY <2>3 DEF Collect, Answer
    <3> QED
      BY <3>1, <3>2, <2>1, <2>3 DEF Verdict
  <2> QED
    BY <2>2, <2>3
<1>3. \A t \in Task : Available(w)[t] # "none" =>
        /\ Available(w)[t] = status[t] /\ status[t] \in Terminal /\ delivered[t] = NoTurn
        /\ runner[t] # "idle"
  BY DEF Available, Waitable, IInv, TypeOK, TaskInv, WinnerMatchesRow, LiveMatchesRow,
     StartedInOrder, Terminal
<1>4. TypeOK'
  <2>1. Available(w) \in [Task -> Outcome]
    BY DEF Available, Waitable, IInv, TypeOK, Outcome
  <2>2. outcomes' \in [Wait -> [Task -> Outcome]]
    BY <1>1, <2>1 DEF IInv, TypeOK
  <2>3. wpc' \in [Wait -> WaitState]
    BY <1>2 DEF IInv, TypeOK, WaitState
  <2>4. debounce' \in [Wait -> {"none", "set", "due"}] /\ verdict' \in [Wait -> Verdict]
    BY <1>2 DEF IInv, TypeOK
  <2> QED
    BY <2>2, <2>3, <2>4, <1>1 DEF IInv, TypeOK, rows, tasks
<1>5. TaskInv'
  BY <1>1, TaskInvKept DEF IInv, TaskInv, DeliveredIsTerminal, rows
<1>6. WaitInv'
  <2>1. Moves(w, x, Available(w)) /\ RowsMoveOn
    BY <1>1, <1>2 DEF Moves, RowsMoveOn, rows, tasks, IInv, TypeOK
  <2>2. \A v \in Wait : Active(v) /\ TurnOf[v] = TurnOf[w] => v = w
    BY <1>1 DEF IInv, WaitInv, WaitsInTurn, Active
  <2>3. \A t \in Task : Available(w)[t] # "none" =>
          /\ Available(w)[t] \in Terminal /\ status'[t] \in {Available(w)[t], "absent"}
          /\ runner'[t] # "idle" /\ delivered[t] # TurnOf[w]
    BY <1>1, <1>3, OutcomesAssumption DEF rows, tasks
  <2>4. x = "done" => \A t \in Task : Available(w)[t] = "none"
    BY <1>2 DEF Found
  <2> QED
    BY <1>1, <2>1, <2>2, <2>3, <2>4, WaitMoves DEF rows
<1>7. NoLostWakeup'
  <2>1. ASSUME x = "sleeping" PROVE ~Returnable(w)
    <3>1. SUFFICES ASSUME NEW t \in selected[w], Waitable(t) PROVE Pending(w)
      BY DEF Returnable, Pending
    <3>2. t \in Task /\ Available(w)[t] # "none"
      BY <3>1 DEF Available, Waitable, IInv, TypeOK, Terminal
    <3> QED
      BY <3>2, <2>1, <1>2 DEF Found
  <2>2. \A v \in Wait : v # w => wpc'[v] = wpc[v]
    BY <1>2 DEF IInv, TypeOK
  <2>3. ASSUME NEW v \in Wait PROVE Returnable(v)' = Returnable(v)
    BY <1>1 DEF Returnable, Waitable, rows
  <2>4. wpc'[w] = x
    BY <1>2 DEF IInv, TypeOK
  <2> QED
    BY <2>1, <2>2, <2>3, <2>4, <1>1 DEF IInv, NoLostWakeup, rows, tasks
<1> QED
  BY <1>4, <1>5, <1>6, <1>7 DEF IInv

(* A wait that ends with nothing: a failed read, or a cancelled call. *)
LEMMA EndsEmpty ==
  ASSUME NEW w \in Wait, NEW v \in Verdict, NEW k \in FaultKind, IInv, Answer(w, v),
         outcomes' = [outcomes EXCEPT ![w] = NoOutcomes], faults' = faults \cup {k},
         UNCHANGED <<rows, tasks, selected, debounce, late, woken, live, epoch, purging,
                     rolled>>
  PROVE  IInv'
<1>1. TypeOK'
  <2>1. NoOutcomes \in [Task -> Outcome]
    BY DEF NoOutcomes, Outcome
  <2>2. outcomes' \in [Wait -> [Task -> Outcome]]
    BY <2>1 DEF IInv, TypeOK
  <2>3. wpc' \in [Wait -> WaitState] /\ verdict' \in [Wait -> Verdict]
    BY DEF IInv, TypeOK, WaitState, Answer
  <2> QED
    BY <2>2, <2>3 DEF IInv, TypeOK, rows, tasks
<1>2. TaskInv'
  BY TaskInvKept DEF IInv, TaskInv, DeliveredIsTerminal, rows
<1>3. Moves(w, "done", NoOutcomes)
  BY DEF Moves, Answer, IInv, TypeOK
<1>4. WaitInv'
  <2>1. RowsMoveOn
    BY DEF RowsMoveOn, rows, tasks
  <2> QED
    BY <1>3, <2>1, WaitMoves DEF rows, NoOutcomes
<1>5. NoLostWakeup'
  BY <1>3, SleepersKept DEF Moves, rows, tasks, Waitable
<1> QED
  BY <1>1, <1>2, <1>4, <1>5 DEF IInv

LEMMA AwakeKeeps ==
  ASSUME NEW w \in Wait, IInv, Awake(w), debounce' \in [Wait -> {"none", "set", "due"}],
         late' \in SUBSET Wait
  PROVE  IInv'
<1>1. /\ wpc[w] = "sleeping" /\ wpc' = [wpc EXCEPT ![w] = "armed"] /\ woken' = woken \ {w}
      /\ UNCHANGED <<rows, tasks, selected, outcomes, verdict, live, epoch, purging, rolled,
                     faults>>
  BY DEF Awake
<1>2. TypeOK'
  BY <1>1 DEF IInv, TypeOK, rows, tasks, WaitState
<1>3. TaskInv'
  BY <1>1, TaskInvKept DEF IInv, TaskInv, DeliveredIsTerminal, rows
<1>4. Moves(w, "armed", outcomes[w])
  BY <1>1 DEF Moves, IInv, TypeOK
<1>5. WaitInv'
  <2>1. RowsMoveOn
    BY <1>1 DEF RowsMoveOn, rows, tasks
  <2>2. \A v \in Wait : Active(v) /\ TurnOf[v] = TurnOf[w] => v = w
    BY <1>1 DEF IInv, WaitInv, WaitsInTurn, Active
  <2>3. \A t \in Task : outcomes[w][t] # "none" =>
          /\ outcomes[w][t] \in Terminal /\ status'[t] \in {outcomes[w][t], "absent"}
          /\ runner'[t] # "idle"
    BY <1>1 DEF IInv, WaitInv, CollectedMatchesRow, rows, tasks
  <2> QED
    BY <1>1, <1>4, <2>1, <2>2, <2>3, WaitMoves DEF rows
<1>6. NoLostWakeup'
  BY <1>1, <1>4, SleepersKept DEF Moves, rows, tasks, Waitable
<1> QED
  BY <1>2, <1>3, <1>5, <1>6 DEF IInv

(* A claim takes only what nobody has: another wait that shows one of the
   outcomes has been rolled back. *)
LEMMA ClaimKeeps ==
  ASSUME NEW w \in Wait, IInv, Claim(w)
  PROVE  IInv'
<1>1. /\ wpc[w] = "claiming" /\ wpc' = [wpc EXCEPT ![w] = "claimed"]
      /\ UNCHANGED <<status, owner, tasks, selected, debounce, late, verdict, woken, live,
                     epoch, purging, rolled, faults>>
  BY DEF Claim
<1>2. \A t \in Task :
        delivered'[t] = IF t \in Claimable(w) THEN TurnOf[w] ELSE delivered[t]
  BY DEF Claim
<1>3. \A t \in Task : t \in Claimable(w) =>
        outcomes[w][t] # "none" /\ status[t] \in Terminal /\ delivered[t] = NoTurn
  BY DEF Claimable, Found, Waitable
<1>4. /\ \A v \in Wait : v # w => outcomes'[v] = outcomes[v] /\ wpc'[v] = wpc[v]
      /\ wpc'[w] = "claimed"
      /\ \A t \in Task : outcomes'[w][t] =
           IF delivered'[t] = TurnOf[w] THEN outcomes[w][t] ELSE "none"
  BY DEF Claim, IInv, TypeOK
<1>5. TurnOf[w] \in Turn /\ TurnOf[w] # NoTurn
  BY OutcomesAssumption
<1>6. TypeOK'
  <2>1. delivered' \in [Task -> Turn \cup {NoTurn}]
    BY <1>5 DEF Claim, IInv, TypeOK
  <2>2. outcomes' \in [Wait -> [Task -> Outcome]]
    <3>1. outcomes[w] \in [Task -> Outcome] /\ "none" \in Outcome
      BY DEF IInv, TypeOK, Outcome
    <3>2. [t \in Task |-> IF delivered'[t] = TurnOf[w] THEN outcomes[w][t] ELSE "none"]
            \in [Task -> Outcome]
      BY <3>1
    <3> QED
      BY <3>2 DEF Claim, IInv, TypeOK
  <2>3. wpc' \in [Wait -> WaitState]
    BY <1>1 DEF IInv, TypeOK, WaitState
  <2> QED
    BY <2>1, <2>2, <2>3, <1>1 DEF IInv, TypeOK, tasks
<1>7. TaskInv'
  BY <1>1, <1>2, <1>3, TaskInvKept DEF IInv, TaskInv, DeliveredIsTerminal
<1>8. WaitInv'
  <2>1. WaitsInTurn'
    BY <1>1, <1>4 DEF IInv, WaitInv, WaitsInTurn, Active
  <2>2. CollectedMatchesRow'
    BY <1>1, <1>4 DEF IInv, WaitInv, CollectedMatchesRow, tasks
  <2>3. \A v \in Wait : v # w /\ wpc[v] = "claiming" => TurnOf[v] # TurnOf[w]
    BY <1>1 DEF IInv, WaitInv, WaitsInTurn, Active
  <2>4. ClaimIsFresh'
    BY <1>2, <1>4, <2>3 DEF IInv, WaitInv, ClaimIsFresh
  <2>5. HandedOver'
    <3>1. \A v \in Wait : TurnOf[v] # NoTurn
      BY OutcomesAssumption
    <3> QED
      BY <1>1, <1>2, <1>3, <1>4, <3>1 DEF IInv, WaitInv, HandedOver
  <2>6. \A v \in Wait, t \in Task :
          v # w /\ wpc[v] \in {"claimed", "done"} /\ outcomes[v][t] # "none"
          /\ outcomes'[w][t] # "none" => TurnOf[v] \in rolled
    <3> SUFFICES ASSUME NEW v \in Wait, NEW t \in Task, v # w, wpc[v] \in {"claimed", "done"},
                        outcomes[v][t] # "none", outcomes'[w][t] # "none"
                 PROVE  TurnOf[v] \in rolled
      OBVIOUS
    <3>1. outcomes[w][t] # "none" /\ delivered'[t] = TurnOf[w]
      BY <1>4
    <3>2. delivered[t] # TurnOf[w]
      BY <1>1, <3>1 DEF IInv, WaitInv, ClaimIsFresh
    <3>3. delivered[t] = NoTurn /\ status[t] \in Terminal
      BY <1>2, <1>3, <3>1, <3>2
    <3> QED
      BY <3>3, OutcomesAssumption DEF IInv, WaitInv, HandedOver, Terminal
  <2>7. HandedOnce'
    BY <1>1, <1>4, <2>6 DEF IInv, WaitInv, HandedOnce
  <2> QED
    BY <2>1, <2>2, <2>4, <2>5, <2>7 DEF WaitInv
<1>9. NoLostWakeup'
  <2>1. \A t \in Task : Waitable(t)' => Waitable(t)
    BY <1>1, <1>2, <1>5 DEF Waitable
  <2> QED
    BY <1>1, <1>4, <2>1, SleepersKept DEF tasks
<1> QED
  BY <1>6, <1>7, <1>8, <1>9 DEF IInv

LEMMA ReturnKeeps ==
  ASSUME NEW w \in Wait, IInv, Return(w)
  PROVE  IInv'
<1>1. /\ wpc[w] = "claimed"
      /\ UNCHANGED <<rows, tasks, selected, outcomes, late, woken, live, epoch, purging,
                     rolled, faults>>
      /\ \/ wpc' = [wpc EXCEPT ![w] = "done"] /\ UNCHANGED <<debounce, verdict>>
         \/ /\ wpc' = [wpc EXCEPT ![w] = "armed"]
            /\ debounce' = [debounce EXCEPT ![w] = "none"]
            /\ verdict' = [verdict EXCEPT ![w] = "none"]
  BY DEF Return
<1>2. TypeOK'
  <2>1. wpc' \in [Wait -> WaitState]
    BY <1>1 DEF IInv, TypeOK, WaitState
  <2>2. debounce' \in [Wait -> {"none", "set", "due"}] /\ verdict' \in [Wait -> Verdict]
    BY <1>1 DEF IInv, TypeOK, Verdict
  <2> QED
    BY <2>1, <2>2, <1>1 DEF IInv, TypeOK, rows, tasks
<1>3. TaskInv'
  BY <1>1, TaskInvKept DEF IInv, TaskInv, DeliveredIsTerminal, rows
<1>4. PICK x \in {"done", "armed"} : Moves(w, x, outcomes[w])
  BY <1>1 DEF Moves, IInv, TypeOK
<1>5. WaitInv'
  <2>1. RowsMoveOn
    BY <1>1 DEF RowsMoveOn, rows, tasks
  <2>2. \A v \in Wait : Active(v) /\ TurnOf[v] = TurnOf[w] => v = w
    BY <1>1 DEF IInv, WaitInv, WaitsInTurn, Active
  <2>3. \A t \in Task : outcomes[w][t] # "none" =>
          /\ outcomes[w][t] \in Terminal /\ status'[t] \in {outcomes[w][t], "absent"}
          /\ runner'[t] # "idle"
    BY <1>1 DEF IInv, WaitInv, CollectedMatchesRow, rows, tasks
  <2> QED
    BY <1>1, <1>4, <2>1, <2>2, <2>3, WaitMoves DEF rows
<1>6. NoLostWakeup'
  BY <1>1, <1>4, SleepersKept DEF Moves, rows, tasks, Waitable
<1> QED
  BY <1>2, <1>3, <1>5, <1>6 DEF IInv

LEMMA StepKeeps ==
  ASSUME IInv, [Next]_vars
  PROVE  IInv'
<1>1. ASSUME NEW t \in Task, TaskStep(t) PROVE IInv'
  BY <1>1, RegisterKeeps, SubmitKeeps, SubmitFailsKeeps, StartDroppedKeeps, FinishKeeps,
     CheckSuppressKeeps, CompleteKeeps, PublishKeeps, AnnounceKeeps, ClaimControlKeeps,
     CancelRowKeeps, CancelLiveKeeps, CancelDroppedKeeps DEF TaskStep
<1>2. ASSUME NEW w \in Wait, WaitStep(w) PROVE IInv'
  <2>1. CASE CollectFails(w)
    BY <2>1, EndsEmpty DEF CollectFails, Fault, Verdict, FaultKind
  <2>2. CASE CancelWait(w)
    BY <2>2, EndsEmpty DEF CancelWait, Fault, Verdict, FaultKind
  <2>3. CASE Wake(w) \/ Deadline(w) \/ DebounceElapses(w)
    <3>1. Awake(w)
      BY <2>3 DEF Wake, Deadline, DebounceElapses
    <3>2. debounce' \in [Wait -> {"none", "set", "due"}]
      BY <2>3 DEF Wake, Deadline, DebounceElapses, IInv, TypeOK
    <3>3. late' \in SUBSET Wait
      BY <2>3 DEF Wake, Deadline, DebounceElapses, IInv, TypeOK
    <3> QED
      BY <3>1, <3>2, <3>3, AwakeKeeps
  <2> QED
    BY <1>2, <2>1, <2>2, <2>3, StartWaitKeeps, SelectKeeps, CollectKeeps, ClaimKeeps,
       ReturnKeeps DEF WaitStep
<1>3. ASSUME NEW k \in Turn, RollBack(TurnsFrom(k)) PROVE IInv'
  BY <1>3, RollBackKeeps DEF TurnsFrom
<1>4. CASE UNCHANGED vars
  <2>1. TypeOK' /\ NoLostWakeup'
    BY <1>4 DEF IInv, TypeOK, NoLostWakeup, Returnable, Waitable, vars, rows, tasks, waits
  <2>2. TaskInv'
    BY <1>4, TaskInvKept DEF IInv, TaskInv, DeliveredIsTerminal, vars, rows
  <2>3. WaitInv'
    BY <1>4, WaitInvKept DEF RowsMoveOn, vars, rows, tasks
  <2> QED
    BY <2>1, <2>2, <2>3 DEF IInv
<1> QED
  BY <1>1, <1>2, <1>3, <1>4, RestartKeeps, PurgeLiveKeeps DEF Next

(* The inductive invariant: types, what the progress of each task says of its
   row, and what each wait holds of the rows. *)
THEOREM OutcomesInvariant == Spec => []IInv
  BY InitEstablishes, StepKeeps, PTL DEF Spec

(* A task this process runs and whose row is "running" has somebody left to
   settle it (complete and cancel of BackgroundOutcomeStore), unless an update
   failed or a call was dropped. *)
THEOREM RunningTasksHaveOwner == Spec => []RunningIsOwned
<1>1. IInv => RunningIsOwned
  BY DEF IInv, TaskInv, Ownership
<1> QED
  BY <1>1, OutcomesInvariant, PTL

(* wait_for arms its notification before it reads the rows, so a wait that
   could return is not left asleep. *)
THEOREM WaitsAreWoken == Spec => []NoLostWakeup
<1>1. IInv => NoLostWakeup
  BY DEF IInv
<1> QED
  BY <1>1, OutcomesInvariant, PTL

(* claim_terminal_tasks hands an outcome to one wait only. *)
THEOREM OutcomesAreDeliveredOnce == Spec => []DeliveredOnce
<1>1. IInv => DeliveredOnce
  BY DEF IInv, WaitInv, HandedOnce, DeliveredOnce, Returned
<1> QED
  BY <1>1, OutcomesInvariant, PTL

(* What wait_for returned of a task is what its row says afterwards, and the row
   names the turn it was returned to. *)
THEOREM ReportsStayTrue == Spec => []ReportIsRecorded
<1>1. IInv => ReportIsRecorded
  BY DEF IInv, WaitInv, CollectedMatchesRow, HandedOver, ReportIsRecorded, Returned
<1> QED
  BY <1>1, OutcomesInvariant, PTL

(* A row settled by complete or by reconcile_stale_running_tasks agrees with the
   persisted child turn. *)
THEOREM RowsFollowChildren == Spec => []RowMatchesChild
<1>1. IInv => RowMatchesChild
  BY DEF IInv, TaskInv, EndedWithChild
<1> QED
  BY <1>1, OutcomesInvariant, PTL

(* live_results never contradicts the rows, and the turn that announces a result
   finds the task settled. *)
THEOREM MemoryFollowsRows == Spec => [](LiveMatchesRow /\ AnnouncedIsSettled)
<1>1. IInv => LiveMatchesRow /\ AnnouncedIsSettled
  BY DEF IInv, TaskInv, WinnerMatchesRow, Ownership
<1> QED
  BY <1>1, OutcomesInvariant, PTL

--------------------------------------------------------------------------------
(* What one step does to the ledger. *)
LedgerStep == Ledger!Next \/ UNCHANGED <<LedgerOutcome, delivered>>

LEMMA LedgerStutters ==
  ASSUME UNCHANGED <<status, delivered>>,
         \A t \in Task : runner'[t] = "idle" <=> runner[t] = "idle"
  PROVE  LedgerStep
  BY DEF LedgerStep, LedgerOutcome

(* Some rows that were "running" now have an outcome. *)
LEMMA LedgerSettles ==
  ASSUME NEW S \in SUBSET Task, UNCHANGED delivered,
         \A t \in S : status[t] = "running" /\ status'[t] \in Terminal,
         \A t \in Task \ S : status'[t] = status[t],
         \A t \in Task : runner'[t] = "idle" <=> runner[t] = "idle"
  PROVE  LedgerStep
<1> DEFINE f == [t \in S |-> status'[t]]
<1>1. f \in [S -> Terminal]
  OBVIOUS
<1>2. \A t \in S : LedgerOutcome[t] = "running"
  BY DEF LedgerOutcome
<1>3. \A t \in Task : LedgerOutcome'[t] = IF t \in S THEN f[t] ELSE LedgerOutcome[t]
  BY DEF LedgerOutcome, Terminal
<1>4. LedgerOutcome' = [t \in Task |-> IF t \in S THEN f[t] ELSE LedgerOutcome[t]]
  BY <1>3 DEF LedgerOutcome
<1>5. Ledger!Settle(S)
  BY <1>1, <1>2, <1>4 DEF Ledger!Settle
<1> QED
  BY <1>5 DEF LedgerStep, Ledger!Next

(* Some rows are deleted, and what was handed to some turns is free again. *)
LEMMA LedgerRollsBack ==
  ASSUME NEW D \in SUBSET Task, NEW U \in SUBSET Turn,
         \A t \in D : LedgerOutcome[t] # "none" /\ status'[t] = "absent"
                      /\ runner'[t] # "idle",
         \A t \in Task \ D : status'[t] = status[t]
                             /\ (runner'[t] = "idle" <=> runner[t] = "idle"),
         delivered' = [t \in Task |->
                         IF t \in D \/ delivered[t] \in U THEN NoTurn ELSE delivered[t]]
  PROVE  LedgerStep
<1>1. \A t \in Task : LedgerOutcome'[t] = IF t \in D THEN "gone" ELSE LedgerOutcome[t]
  BY DEF LedgerOutcome
<1>2. LedgerOutcome' = [t \in Task |-> IF t \in D THEN "gone" ELSE LedgerOutcome[t]]
  BY <1>1 DEF LedgerOutcome
<1>3. Ledger!RollBack(D, U)
  BY <1>2 DEF Ledger!RollBack
<1> QED
  BY <1>3 DEF LedgerStep, Ledger!Next

LEMMA TaskStepImplements ==
  ASSUME NEW t \in Task, IInv, TaskStep(t)
  PROVE  LedgerStep
<1>1. CASE Register(t)
  <2>1. runner[t] = "idle" /\ status[t] = "absent"
    BY <1>1 DEF Register, IInv, TaskInv, StartedInOrder
  <2>2. \A u \in Task : /\ status'[u] = IF u = t THEN "running" ELSE status[u]
                        /\ runner'[u] = IF u = t THEN "registered" ELSE runner[u]
    BY <1>1 DEF Register, IInv, TypeOK
  <2>3. LedgerOutcome[t] = "none"
    BY <2>1 DEF LedgerOutcome
  <2>4. \A u \in Task : LedgerOutcome'[u] = IF u = t THEN "running" ELSE LedgerOutcome[u]
    BY <2>2 DEF LedgerOutcome
  <2>5. LedgerOutcome' = [LedgerOutcome EXCEPT ![t] = "running"]
    BY <2>4 DEF LedgerOutcome
  <2>6. Ledger!Start(t)
    BY <1>1, <2>3, <2>5 DEF Ledger!Start, Register
  <2> QED
    BY <2>6 DEF LedgerStep, Ledger!Next
<1>2. CASE SubmitFails(t)
  <2>1. runner[t] = "registered" /\ delivered[t] = NoTurn /\ delivered' = delivered
    BY <1>2 DEF SubmitFails, IInv, TaskInv, StartedInOrder, DeliveredIsTerminal, Terminal
  <2>2. \A u \in Task : runner'[u] = IF u = t THEN "done" ELSE runner[u]
    BY <1>2 DEF SubmitFails, IInv, TypeOK
  <2>3. CASE status' = [status EXCEPT ![t] = "absent"]
    <3>1. \A u \in Task : status'[u] = IF u = t THEN "absent" ELSE status[u]
      BY <2>3 DEF IInv, TypeOK
    <3>2. LedgerOutcome[t] # "none"
      BY <2>1 DEF LedgerOutcome, IInv, TypeOK, Status, Terminal
    <3>3. delivered' = [u \in Task |->
                          IF u \in {t} \/ delivered[u] \in {} THEN NoTurn ELSE delivered[u]]
      BY <2>1 DEF IInv, TypeOK
    <3>4. /\ \A u \in {t} : LedgerOutcome[u] # "none" /\ status'[u] = "absent"
                           /\ runner'[u] # "idle"
          /\ \A u \in Task \ {t} : status'[u] = status[u]
                                  /\ (runner'[u] = "idle" <=> runner[u] = "idle")
      BY <2>2, <3>1, <3>2
    <3>5. {t} \in SUBSET Task /\ {} \in SUBSET Turn
      OBVIOUS
    <3> QED
      BY <3>3, <3>4, <3>5, LedgerRollsBack
  <2>4. CASE status' = status
    BY <2>1, <2>2, <2>4, LedgerStutters
  <2> QED
    BY <1>2, <2>3, <2>4 DEF SubmitFails
<1>3. CASE Complete(t)
  <2>1. runner[t] = "checked" /\ delivered' = delivered
    BY <1>3 DEF Complete
  <2>2. \A u \in Task : runner'[u] = "idle" <=> runner[u] = "idle"
    BY <1>3 DEF Complete, IInv, TypeOK
  <2>3. CASE status[t] = "running" /\ status' = [status EXCEPT ![t] = result[t]]
    <3>1. result[t] \in Terminal
      BY <2>1 DEF Terminal, IInv, TypeOK, TaskInv, ResultKnown
    <3>2. \A u \in Task : status'[u] = IF u = t THEN result[t] ELSE status[u]
      BY <2>3 DEF IInv, TypeOK
    <3>3. /\ {t} \in SUBSET Task
          /\ \A u \in {t} : status[u] = "running" /\ status'[u] \in Terminal
          /\ \A u \in Task \ {t} : status'[u] = status[u]
      BY <2>3, <3>1, <3>2
    <3> QED
      BY <2>1, <2>2, <3>3, LedgerSettles
  <2>4. CASE status' = status
    BY <2>1, <2>2, <2>4, LedgerStutters
  <2> QED
    BY <1>3, <2>3, <2>4 DEF Complete, UpdateTaskStatus
<1>4. CASE CancelRow(t)
  <2>1. delivered' = delivered /\ runner' = runner
    BY <1>4 DEF CancelRow
  <2>2. CASE status[t] = "running" /\ status' = [status EXCEPT ![t] = "cancelled"]
    <3>1. \A u \in Task : status'[u] = IF u = t THEN "cancelled" ELSE status[u]
      BY <2>2 DEF IInv, TypeOK
    <3>2. /\ {t} \in SUBSET Task
          /\ \A u \in {t} : status[u] = "running" /\ status'[u] \in Terminal
          /\ \A u \in Task \ {t} : status'[u] = status[u]
      BY <2>2, <3>1 DEF Terminal
    <3> QED
      BY <2>1, <3>2, LedgerSettles
  <2>3. CASE status' = status
    BY <2>1, <2>3, LedgerStutters
  <2> QED
    BY <1>4, <2>2, <2>3 DEF CancelRow, UpdateTaskStatus
<1>5. CASE Submit(t) \/ StartDropped(t) \/ Finish(t) \/ CheckSuppress(t)
  <2>1. UNCHANGED <<status, delivered>> /\ runner[t] # "idle"
        /\ \E x \in RunnerState : x # "idle" /\ runner' = [runner EXCEPT ![t] = x]
    BY <1>5 DEF Submit, StartDropped, Finish, CheckSuppress, rows, RunnerState
  <2> QED
    BY <2>1, LedgerStutters DEF IInv, TypeOK
<1>6. CASE Publish(t) \/ Announce(t)
  <2>1. UNCHANGED <<status, delivered>> /\ runner[t] # "idle"
        /\ \E x \in RunnerState : x # "idle" /\ runner' = [runner EXCEPT ![t] = x]
    BY <1>6 DEF Publish, Announce, rows, RunnerState
  <2> QED
    BY <2>1, LedgerStutters DEF IInv, TypeOK
<1>7. CASE ClaimControl(t) \/ CancelLive(t) \/ CancelDropped(t)
  <2>1. UNCHANGED <<status, delivered, runner>>
    BY <1>7 DEF ClaimControl, CancelLive, CancelDropped, rows
  <2> QED
    BY <2>1, LedgerStutters
<1> QED
  BY <1>1, <1>2, <1>3, <1>4, <1>5, <1>6, <1>7 DEF TaskStep

LEMMA WaitStepImplements ==
  ASSUME NEW w \in Wait, IInv, WaitStep(w)
  PROVE  LedgerStep
<1>1. CASE StartWait(w)
  <2>1. UNCHANGED <<delivered, runner>>
    BY <1>1 DEF StartWait, tasks
  <2>2. CASE status' = [t \in Task |-> IF Stale(t) THEN Reconciled(t) ELSE status[t]]
    <3> DEFINE S == {t \in Task : Stale(t)}
    <3>1. \A t \in Task : Reconciled(t) \in Terminal
      BY DEF Reconciled, Terminal, IInv, TypeOK
    <3>2. \A t \in S : status[t] = "running" /\ status'[t] \in Terminal
      BY <2>2, <3>1 DEF Stale
    <3>3. \A t \in Task \ S : status'[t] = status[t]
      BY <2>2
    <3> QED
      BY <2>1, <3>2, <3>3, LedgerSettles
  <2>3. CASE status' = status
    BY <2>1, <2>3, LedgerStutters
  <2> QED
    BY <1>1, <2>2, <2>3 DEF StartWait
<1>2. CASE Claim(w)
  <2>1. delivered' = [t \in Task |-> IF t \in Claimable(w) THEN TurnOf[w] ELSE delivered[t]]
    BY <1>2 DEF Claim
  <2>2. \A t \in Claimable(w) :
          t \in Task /\ LedgerOutcome[t] \in Terminal /\ delivered[t] = NoTurn
    BY DEF Claimable, Found, Waitable, LedgerOutcome, Terminal
  <2>3. UNCHANGED LedgerOutcome
    BY <1>2 DEF Claim, LedgerOutcome, tasks
  <2>4. Ledger!Hand(Claimable(w), TurnOf[w])
    BY <2>1, <2>2, <2>3 DEF Ledger!Hand
  <2> QED
    BY <2>2, <2>4, OutcomesAssumption DEF LedgerStep, Ledger!Next
<1>3. CASE Select(w) \/ Collect(w) \/ CollectFails(w) \/ Return(w) \/ CancelWait(w)
  <2>1. UNCHANGED <<status, delivered, runner>>
    BY <1>3 DEF Select, Collect, CollectFails, Return, CancelWait, rows, tasks
  <2> QED
    BY <2>1, LedgerStutters
<1>4. CASE Wake(w) \/ Deadline(w) \/ DebounceElapses(w)
  <2>1. UNCHANGED <<status, delivered, runner>>
    BY <1>4 DEF Wake, Deadline, DebounceElapses, Awake, rows, tasks
  <2> QED
    BY <2>1, LedgerStutters
<1> QED
  BY <1>1, <1>2, <1>3, <1>4 DEF WaitStep

LEMMA StepImplements ==
  ASSUME IInv, [Next]_vars
  PROVE  LedgerStep
<1>1. CASE Restart
  BY <1>1, LedgerStutters DEF Restart, rows
<1>2. CASE PurgeLive \/ UNCHANGED vars
  <2>1. UNCHANGED <<status, delivered, runner>>
    BY <1>2 DEF PurgeLive, vars, rows, tasks
  <2> QED
    BY <2>1, LedgerStutters
<1>3. ASSUME NEW k \in Turn, RollBack(TurnsFrom(k)) PROVE LedgerStep
  <2> DEFINE U == TurnsFrom(k)
             D == {t \in Task : status[t] # "absent" /\ StartedIn[t] \in U}
  <2>1. /\ status' = [t \in Task |-> IF t \in D THEN "absent" ELSE status[t]]
        /\ delivered' = [t \in Task |->
             IF t \in D \/ delivered[t] \in U THEN NoTurn ELSE delivered[t]]
        /\ runner' = runner
    BY <1>3 DEF RollBack, tasks
  <2>2. U \in SUBSET Turn
    BY DEF TurnsFrom
  <2> HIDE DEF U
  <2>3. \A t \in D : LedgerOutcome[t] # "none" /\ runner[t] # "idle"
    BY DEF LedgerOutcome, IInv, TypeOK, Status, Terminal, TaskInv, StartedInOrder
  <2> QED
    BY <2>1, <2>2, <2>3, LedgerRollsBack
<1> QED
  BY <1>1, <1>2, <1>3, TaskStepImplements, WaitStepImplements DEF Next

(* The database rows implement the ledger: one outcome for a task, handed to
   one turn, whatever is cancelled, fails or is restarted. *)
THEOREM RowsImplementLedger == Spec => ImplementsLedger
<1>1. Init => Ledger!Init
  BY DEF Init, Ledger!Init, LedgerOutcome
<1>2. IInv /\ [Next]_vars => [Ledger!Next]_<<LedgerOutcome, delivered>>
  BY StepImplements DEF LedgerStep
<1> QED
  BY <1>1, <1>2, OutcomesInvariant, PTL DEF Spec, ImplementsLedger, Ledger!Spec
================================================================================
