---------------------------- MODULE TurnSettlement ----------------------------
(***************************************************************************)
(* TurnSettlementTracker (coordination/turn_settlement.rs) and its users:  *)
(* callers wait until a turn, named by session and turn id, has settled.   *)
(* A turn is tracked while registrations of it are alive.  A submission    *)
(* through the dialog port holds one itself and a clone in the queue, the  *)
(* execution task a third; the last one dropped moves the entry to a       *)
(* bounded history.                                                        *)
(*                                                                         *)
(* An entry is the allocation behind one Arc and is named after the        *)
(* submission that made it.  Drops run on any thread: the one that drops   *)
(* the last registration keeps the key's shard of `active` locked while it *)
(* updates the history, whose parts have locks of their own.               *)
(***************************************************************************)
EXTENDS Integers, FiniteSets, SequencesExt

CONSTANTS Key,     \* pairs of a session id and a turn id
          Sub,     \* submissions of turns, and the entries they may make
          Port,    \* those made through the dialog port; the others, by submit,
                   \* register only when their execution starts
          KeyOf,   \* the key of each submission
          Waiter,  \* calls of wait
          NoEntry, NoKey,
          Capacity \* COMPLETED_TURN_CAPACITY

ASSUME SettlementAssumption ==
  /\ Port \subseteq Sub
  /\ KeyOf \in [Sub -> Key]
  /\ NoEntry \notin Sub
  /\ NoKey \notin Key
  /\ Capacity \in Nat

VARIABLES
  active,     \* entry of each key that is tracked
  completed,  \* entry of each key in the history
  order,      \* entries in the order they completed, for eviction
  count,      \* registrations of each entry
  accepted,   \* entries marked accepted
  settled,    \* entries whose watch channel says true
  closing,    \* progress of the last drop: "no", "remembered" (in the history,
              \* waits for the order's mutex), "evicting" (holds it)
  victim,     \* entry the evicting drop is about to remove, or NoEntry
  ref,        \* the entry a submission's registrations refer to
  held,       \* who holds its live registrations
  past,       \* what it has gone through
  wait        \* state of each call of wait

(* Who holds a registration of a submission, and what a submission went through. *)
Holders == {"caller", "queue", "task"}
Stages == {"submitted", "queued", "started"}

tracker == <<active, completed, order, count, accepted, settled, closing, victim>>
vars == <<tracker, ref, held, past, wait>>

Init ==
  /\ active = [k \in Key |-> NoEntry]
  /\ completed = [k \in Key |-> NoEntry]
  /\ order = <<>>
  /\ count = [e \in Sub |-> 0]
  /\ accepted = {}
  /\ settled = {}
  /\ closing = [e \in Sub |-> "no"]
  /\ victim = NoEntry
  /\ ref = [u \in Sub |-> NoEntry]
  /\ held = [u \in Sub |-> {}]
  /\ past = [u \in Sub |-> {}]
  /\ wait = [w \in Waiter |-> [pc |-> "idle", key |-> NoKey, entry |-> NoEntry]]

(* No last drop keeps the shard of k locked. *)
Unlocked(k) == \A e \in Sub : KeyOf[e] = k => closing[e] = "no"

(***************************************************************************)
(* Registrations.                                                          *)
(***************************************************************************)
(* A new entry for u's key, with one registration. *)
NewEntry(u) ==
  /\ active' = [active EXCEPT ![KeyOf[u]] = u]
  /\ count' = [count EXCEPT ![u] = 1]
  /\ ref' = [ref EXCEPT ![u] = u]

(* submit_agent_dialog_turn_with_busy_policy -> try_register_pending: refused
   when the id is active or in the history. *)
SubmitPort(u) ==
  /\ u \in Port /\ past[u] = {}
  /\ Unlocked(KeyOf[u])
  /\ past' = [past EXCEPT ![u] = {"submitted"}]
  /\ IF active[KeyOf[u]] = NoEntry /\ completed[KeyOf[u]] = NoEntry
     THEN NewEntry(u) /\ held' = [held EXCEPT ![u] = {"caller"}]
     ELSE UNCHANGED <<active, count, ref, held>>
  /\ UNCHANGED <<completed, order, accepted, settled, closing, victim, wait>>

(* What the clone in the queue does to the counter.  The mutant shares the
   registration of the caller. *)
SharedClone(e) == UNCHANGED count

Clone(e) == count' = [count EXCEPT ![e] = @ + 1]

(* enqueue(queued_turn.clone()), accept_settlement: no await between them. *)
Enqueue(u) ==
  /\ held[u] = {"caller"} /\ past[u] = {"submitted"}
  /\ Clone(ref[u])
  /\ accepted' = accepted \cup {ref[u]}
  /\ held' = [held EXCEPT ![u] = @ \cup {"queue"}]
  /\ past' = [past EXCEPT ![u] = @ \cup {"queued"}]
  /\ UNCHANGED <<active, completed, order, settled, closing, victim, ref, wait>>

(* The vacant case of register_accepted takes an older entry of the key out of
   the history. *)
RemoveCompleted(k) == completed' = [completed EXCEPT ![k] = NoEntry]

(* start_dialog_turn -> register_accepted, for the execution task. *)
Start(u) ==
  LET k == KeyOf[u] IN
  /\ "started" \notin past[u]
  /\ u \in Port => held[u] # {} /\ ("queued" \in past[u] => "queue" \in held[u])
  /\ Unlocked(k)
  /\ IF active[k] # NoEntry
     THEN /\ count' = [count EXCEPT ![active[k]] = @ + 1]
          /\ accepted' = accepted \cup {active[k]}
          /\ ref' = [ref EXCEPT ![u] = active[k]]
          /\ UNCHANGED <<active, completed>>
     ELSE /\ RemoveCompleted(k)
          /\ NewEntry(u)
          /\ accepted' = accepted \cup {u}
  /\ held' = [held EXCEPT ![u] = @ \cup {"task"}]
  /\ past' = [past EXCEPT ![u] = @ \cup {"submitted", "started"}]
  /\ UNCHANGED <<order, settled, closing, victim, wait>>

(***************************************************************************)
(* TurnSettlementRegistration::drop.                                       *)
(***************************************************************************)
(* The entry goes to the history only if the turn was accepted.  The mutant
   does not look. *)
Always(e) == TRUE

Settles(e) == e \in accepted

(* First half of the last drop.  The mutant leaves the history alone. *)
SettleOnly(e) ==
  /\ settled' = settled \cup {e}
  /\ closing' = [closing EXCEPT ![e] = "remembered"]
  /\ UNCHANGED completed

Remember(e) ==
  /\ settled' = settled \cup {e}
  /\ closing' = [closing EXCEPT ![e] = "remembered"]
  /\ completed' = [completed EXCEPT ![KeyOf[e]] = e]

(* The caller's is dropped when the submission returns, the queue's when the
   turn was started, cancelled or cleared, the task's when it ends. *)
Drop(u, h) ==
  LET e == ref[u] IN
  /\ h \in held[u]
  /\ Unlocked(KeyOf[u])
  /\ held' = [held EXCEPT ![u] = @ \ {h}]
  /\ IF active[KeyOf[u]] # e
     THEN UNCHANGED <<active, completed, count, settled, closing>>
     ELSE /\ count' = [count EXCEPT ![e] = @ - 1]
          /\ IF count[e] = 1 /\ Settles(e)
             THEN Remember(e)
             ELSE UNCHANGED <<completed, settled, closing>>
          /\ active' = IF count[e] = 1 /\ ~Settles(e)
                       THEN [active EXCEPT ![KeyOf[u]] = NoEntry] ELSE active
  /\ UNCHANGED <<order, accepted, victim, ref, past, wait>>

(* remember_completed: the mutex of the order is taken, the entry appended. *)
RecordOrder(e) ==
  /\ closing[e] = "remembered"
  /\ \A f \in Sub : closing[f] # "evicting"
  /\ order' = Append(order, e)
  /\ closing' = [closing EXCEPT ![e] = "evicting"]
  /\ UNCHANGED <<active, completed, count, accepted, settled, victim, ref, held, past, wait>>

(* Over capacity the oldest entry is taken from the order; if the history
   still has this very entry (ptr_eq) it is the next to be removed.  The
   mutant takes it from the order only. *)
NeverStored(e) == FALSE

Stored(e) == completed[KeyOf[e]] = e

EvictOldest(e) ==
  /\ closing[e] = "evicting" /\ victim = NoEntry
  /\ Len(order) > Capacity
  /\ order' = Tail(order)
  /\ victim' = IF Stored(Head(order)) THEN Head(order) ELSE NoEntry
  /\ UNCHANGED <<active, completed, count, accepted, settled, closing, ref, held, past, wait>>

(* The removal goes by key and does not look again. *)
RemoveVictim ==
  /\ victim # NoEntry
  /\ completed' = [completed EXCEPT ![KeyOf[victim]] = NoEntry]
  /\ victim' = NoEntry
  /\ UNCHANGED <<active, order, count, accepted, settled, closing, ref, held, past, wait>>

(* The mutex is released and the entry removed from `active`. *)
FinishDrop(e) ==
  /\ closing[e] = "evicting" /\ victim = NoEntry
  /\ Len(order) <= Capacity
  /\ active' = [active EXCEPT ![KeyOf[e]] = NoEntry]
  /\ closing' = [closing EXCEPT ![e] = "no"]
  /\ UNCHANGED <<completed, order, count, accepted, settled, victim, ref, held, past, wait>>

(***************************************************************************)
(* wait, as wait_for_turn_settlement calls it.                             *)
(***************************************************************************)
Answers(w, answer, e) ==
  wait' = [wait EXCEPT ![w] = [pc |-> answer, key |-> wait[w].key, entry |-> e]]

(* active.get: the receiver of the entry's channel, or a look at the history. *)
WaitBegins(w, k) ==
  /\ wait[w].pc = "idle"
  /\ Unlocked(k)
  /\ wait' = [wait EXCEPT ![w] =
       [pc |-> IF active[k] = NoEntry THEN "lookup" ELSE "subscribed",
        key |-> k, entry |-> active[k]]]
  /\ UNCHANGED <<tracker, ref, held, past>>

WaitLooksUp(w) ==
  /\ wait[w].pc = "lookup"
  /\ LET e == completed[wait[w].key] IN
       Answers(w, IF e = NoEntry THEN "unknown" ELSE "settled", e)
  /\ UNCHANGED <<tracker, ref, held, past>>

(* The channel says settled; the deadline passes; or the sender is gone, with
   the last reference to an entry that was not accepted. *)
WaitEnds(w) ==
  /\ wait[w].pc = "subscribed"
  /\ LET e == wait[w].entry IN
       \/ e \in settled /\ Answers(w, "settled", e)
       \/ e \notin settled /\ Answers(w, "timedOut", e)
       \/ e \notin settled /\ active[KeyOf[e]] # e /\ Answers(w, "unknown", e)
  /\ UNCHANGED <<tracker, ref, held, past>>

--------------------------------------------------------------------------------
Next ==
  \/ \E u \in Sub : SubmitPort(u) \/ Enqueue(u) \/ Start(u)
  \/ \E u \in Sub, h \in Holders : Drop(u, h)
  \/ \E e \in Sub : RecordOrder(e) \/ EvictOldest(e) \/ FinishDrop(e)
  \/ RemoveVictim
  \/ \E w \in Waiter : (\E k \in Key : WaitBegins(w, k)) \/ WaitLooksUp(w) \/ WaitEnds(w)

Spec == Init /\ [][Next]_vars

(***************************************************************************)
(* Properties.                                                             *)
(***************************************************************************)
WaitPcs == {"idle", "lookup", "subscribed", "settled", "timedOut", "unknown"}

(* Every variable keeps its type; a wait under way has a key. *)
TypeOK ==
  /\ active \in [Key -> Sub \cup {NoEntry}]
  /\ completed \in [Key -> Sub \cup {NoEntry}]
  /\ order \in Seq(Sub)
  /\ count \in [Sub -> Int]
  /\ accepted \subseteq Sub
  /\ settled \subseteq Sub
  /\ closing \in [Sub -> {"no", "remembered", "evicting"}]
  /\ victim \in Sub \cup {NoEntry}
  /\ ref \in [Sub -> Sub \cup {NoEntry}]
  /\ held \in [Sub -> SUBSET Holders]
  /\ past \in [Sub -> SUBSET Stages]
  /\ wait \in [Waiter -> [pc : WaitPcs, key : Key \cup {NoKey}, entry : Sub \cup {NoEntry}]]
  /\ \A w \in Waiter : wait[w].pc # "idle" => wait[w].key \in Key

(* The live registrations of entry e. *)
Registered(e) ==
  {r \in Sub \X Holders : ref[r[1]] = e /\ r[2] \in held[r[1]]}

(* A turn is tracked, and not settled, as long as its submission, its place in
   the queue or its execution holds a registration, whichever of them goes
   first and whatever else was submitted under the same id. *)
TrackedWhileOwed ==
  \A u \in Sub : held[u] # {} =>
    /\ active[KeyOf[u]] = ref[u]
    /\ ref[u] \notin settled
    /\ count[ref[u]] = Cardinality(Registered(ref[u]))

(* "Settled" is answered only for a turn that was really taken on, and only
   after everyone who works for it is through. *)
SettledIsOver ==
  \A w \in Waiter : wait[w].pc = "settled" =>
    /\ Registered(wait[w].entry) = {}
    /\ \E u \in Sub : ref[u] = wait[w].entry /\ past[u] \cap {"queued", "started"} # {}

(* A turn that is tracked has no earlier completion in the history: a wait
   would be answered by the wrong one.  Only while its own last drop is under
   way is it in both. *)
CompletedNotActive ==
  \A k \in Key : active[k] # NoEntry /\ completed[k] # NoEntry =>
    active[k] = completed[k] /\ closing[active[k]] # "no"

(* The history does not leak: whatever is in it is still due for eviction. *)
CompletedIsListed ==
  \A k \in Key : completed[k] # NoEntry =>
    \/ completed[k] \in ToSet(order) \cup {victim}
    \/ closing[completed[k]] = "remembered"

(* "Unknown" is never the answer for a turn within the capacity of the
   history, unless its id was used for another execution. *)
KnownIsAnswered ==
  [][\A w \in Waiter : wait[w].pc = "lookup" /\ wait[w]'.pc = "unknown" =>
       \A e \in ToSet(order) : KeyOf[e] = wait[w].key =>
         \E f \in accepted : f # e /\ KeyOf[f] = KeyOf[e]]_vars
================================================================================
