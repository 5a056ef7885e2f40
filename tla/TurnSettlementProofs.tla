------------------------- MODULE TurnSettlementProofs -------------------------
(***************************************************************************)
(* What the settlement tracker promises about its history, for any ids,    *)
(* submissions, waits and capacity.  IInv adds to the two properties that  *)
(* entries are filed under their own key and that a last drop under way    *)
(* keeps its entry active; OInv, that the counter of an entry is the       *)
(* number of its registrations; HistInv, that an entry is recorded once    *)
(* and stays known while it is listed.                                     *)
(***************************************************************************)
EXTENDS TurnSettlement, FiniteSetTheorems, TLAPS

Filed ==
  \A k \in Key :
    /\ active[k] # NoEntry => KeyOf[active[k]] = k
    /\ completed[k] # NoEntry => KeyOf[completed[k]] = k

HeldRefers == \A u \in Sub : held[u] # {} => ref[u] \in Sub

ClosingActive == \A e \in Sub : closing[e] # "no" => active[KeyOf[e]] = e

WaitType == [pc : WaitPcs, key : Key \cup {NoKey}, entry : Sub \cup {NoEntry}]

IInv ==
  /\ TypeOK /\ Filed /\ HeldRefers /\ ClosingActive
  /\ CompletedNotActive /\ CompletedIsListed

(* What appending to the order does to the set of entries in it. *)
LEMMA AppendedSet ==
  ASSUME NEW S, NEW s \in Seq(S), NEW e \in S
  PROVE  /\ Append(s, e) \in Seq(S)
         /\ ToSet(Append(s, e)) = ToSet(s) \cup {e}
<1>. DEFINE r == Append(s, e)
<1>1. r \in Seq(S) /\ DOMAIN r = 1..(Len(s) + 1) /\ DOMAIN s = 1..Len(s) /\ Len(s) \in Nat
  OBVIOUS
<1>2. r[Len(s) + 1] = e /\ \A i \in 1..Len(s) : r[i] = s[i]
  OBVIOUS
<1>. HIDE DEF r
<1>3. ToSet(r) \subseteq ToSet(s) \cup {e}
  <2>1. ASSUME NEW i \in 1..(Len(s) + 1) PROVE r[i] \in ToSet(s) \cup {e}
    BY <1>1, <1>2 DEF ToSet
  <2>. QED
    BY <1>1, <2>1 DEF ToSet
<1>4. ToSet(s) \cup {e} \subseteq ToSet(r)
  <2>1. Len(s) + 1 \in DOMAIN r /\ \A i \in 1..Len(s) : i \in DOMAIN r
    BY <1>1
  <2>. QED
    BY <1>1, <1>2, <2>1 DEF ToSet
<1>5. QED
  BY <1>1, <1>3, <1>4 DEF r

(* Taking the oldest entry out of the order loses that one only. *)
LEMMA TailSet ==
  ASSUME NEW S, NEW s \in Seq(S), Len(s) > 0
  PROVE  /\ Tail(s) \in Seq(S)
         /\ Head(s) \in S
         /\ ToSet(s) \subseteq ToSet(Tail(s)) \cup {Head(s)}
<1>. DEFINE t == Tail(s)
<1>1. /\ t \in Seq(S) /\ Head(s) \in S /\ Head(s) = s[1]
      /\ DOMAIN s = 1..Len(s) /\ DOMAIN t = 1..(Len(s) - 1) /\ Len(s) \in Nat
  OBVIOUS
<1>2. \A i \in 1..(Len(s) - 1) : t[i] = s[i + 1]
  OBVIOUS
<1>. HIDE DEF t
<1>3. ASSUME NEW i \in DOMAIN s PROVE s[i] \in ToSet(t) \cup {Head(s)}
  <2>1. CASE i = 1
    BY <1>1, <2>1
  <2>2. CASE i # 1
    <3>1. i - 1 \in 1..(Len(s) - 1) /\ (i - 1) + 1 = i
      BY <1>1, <2>2
    <3>2. t[i - 1] = s[i] /\ i - 1 \in DOMAIN t
      BY <1>1, <1>2, <3>1
    <3>. QED
      BY <3>2 DEF ToSet
  <2>. QED
    BY <2>1, <2>2
<1>4. QED
  BY <1>1, <1>3 DEF ToSet, t

(* IInv holds initially. *)
LEMMA InitIInv == Init => IInv
<1>. SUFFICES ASSUME Init PROVE IInv
  OBVIOUS
<1>1. TypeOK
  BY DEF Init, TypeOK, WaitPcs
<1>2. Filed /\ HeldRefers /\ ClosingActive /\ CompletedNotActive /\ CompletedIsListed
  BY DEF Init, Filed, HeldRefers, ClosingActive, CompletedNotActive, CompletedIsListed
<1>. QED
  BY <1>1, <1>2 DEF IInv

(* A submission makes an entry only under an id that is neither tracked nor in
   the history. *)
LEMMA SubmitPortKeeps == ASSUME IInv, NEW u \in Sub, SubmitPort(u) PROVE IInv'
<1>. DEFINE k == KeyOf[u]
<1>1. k \in Key
  BY SettlementAssumption
<1>2. past' \in [Sub -> SUBSET Stages]
  <2>1. past' = [past EXCEPT ![u] = {"submitted"}] /\ {"submitted"} \in SUBSET Stages
    BY DEF SubmitPort, Stages
  <2>. QED
    BY <2>1 DEF IInv, TypeOK
<1>3. UNCHANGED <<completed, order, accepted, settled, closing, victim, wait>>
  BY DEF SubmitPort
<1>4. CASE active[k] = NoEntry /\ completed[k] = NoEntry
  <2>1. /\ active' = [active EXCEPT ![k] = u]
        /\ count' = [count EXCEPT ![u] = 1]
        /\ ref' = [ref EXCEPT ![u] = u]
        /\ held' = [held EXCEPT ![u] = {"caller"}]
    BY <1>4 DEF SubmitPort, NewEntry
  <2>2. held' \in [Sub -> SUBSET Holders]
    <3>1. {"caller"} \in SUBSET Holders
      BY DEF Holders
    <3>. QED
      BY <2>1, <3>1 DEF IInv, TypeOK
  <2>3. TypeOK'
    BY <1>1, <1>2, <1>3, <2>1, <2>2 DEF IInv, TypeOK
  <2>4. HeldRefers'
    BY <2>1 DEF IInv, TypeOK, HeldRefers
  <2>5. (Filed /\ CompletedNotActive /\ CompletedIsListed)'
    BY <1>1, <1>3, <1>4, <2>1
    DEF IInv, TypeOK, Filed, CompletedNotActive, CompletedIsListed
  <2>6. ClosingActive'
    BY <1>1, <1>3, <2>1 DEF IInv, TypeOK, ClosingActive, SubmitPort, Unlocked
  <2>. QED
    BY <2>3, <2>4, <2>5, <2>6 DEF IInv
<1>5. CASE ~(active[k] = NoEntry /\ completed[k] = NoEntry)
  <2>1. UNCHANGED <<active, count, ref, held>>
    BY <1>5 DEF SubmitPort
  <2>2. TypeOK'
    BY <1>2, <1>3, <2>1 DEF IInv, TypeOK
  <2>3. (Filed /\ HeldRefers /\ ClosingActive /\ CompletedNotActive /\ CompletedIsListed)'
    BY <1>3, <2>1
    DEF IInv, Filed, HeldRefers, ClosingActive, CompletedNotActive, CompletedIsListed
  <2>. QED
    BY <2>2, <2>3 DEF IInv
<1>. QED
  BY <1>4, <1>5

(* The clone in the queue leaves tracker and history as they are. *)
LEMMA EnqueueKeeps == ASSUME IInv, NEW u \in Sub, Enqueue(u) PROVE IInv'
<1>1. UNCHANGED <<active, completed, order, settled, closing, victim, ref, wait>>
  BY DEF Enqueue
<1>2. ref[u] \in Sub
  BY DEF IInv, HeldRefers, Enqueue
<1>3. /\ count' = [count EXCEPT ![ref[u]] = @ + 1]
      /\ accepted' = accepted \cup {ref[u]}
      /\ held' = [held EXCEPT ![u] = @ \cup {"queue"}]
      /\ past' = [past EXCEPT ![u] = @ \cup {"queued"}]
  BY DEF Enqueue, Clone
<1>4. held' \in [Sub -> SUBSET Holders] /\ past' \in [Sub -> SUBSET Stages]
  <2>1. held[u] \cup {"queue"} \in SUBSET Holders
    BY DEF IInv, TypeOK, Holders
  <2>2. past[u] \cup {"queued"} \in SUBSET Stages
    BY DEF IInv, TypeOK, Stages
  <2>. QED
    BY <1>3, <2>1, <2>2 DEF IInv, TypeOK
<1>5. TypeOK'
  BY <1>1, <1>2, <1>3, <1>4 DEF IInv, TypeOK
<1>6. HeldRefers'
  BY <1>1, <1>2, <1>3 DEF IInv, TypeOK, HeldRefers
<1>7. (Filed /\ ClosingActive /\ CompletedNotActive /\ CompletedIsListed)'
  BY <1>1 DEF IInv, Filed, ClosingActive, CompletedNotActive, CompletedIsListed
<1>. QED
  BY <1>5, <1>6, <1>7 DEF IInv

(* A start joins the tracked entry, or replaces the one in the history. *)
LEMMA StartKeeps == ASSUME IInv, NEW u \in Sub, Start(u) PROVE IInv'
<1>. DEFINE k == KeyOf[u]
<1>1. k \in Key
  BY SettlementAssumption
<1>2. /\ held' = [held EXCEPT ![u] = @ \cup {"task"}]
      /\ past' = [past EXCEPT ![u] = @ \cup {"submitted", "started"}]
      /\ UNCHANGED <<order, settled, closing, victim, wait>>
  BY DEF Start
<1>3. held' \in [Sub -> SUBSET Holders] /\ past' \in [Sub -> SUBSET Stages]
  <2>1. held[u] \cup {"task"} \in SUBSET Holders
    BY DEF IInv, TypeOK, Holders
  <2>2. past[u] \cup {"submitted", "started"} \in SUBSET Stages
    BY DEF IInv, TypeOK, Stages
  <2>. QED
    BY <1>2, <2>1, <2>2 DEF IInv, TypeOK
<1>4. CASE active[k] # NoEntry
  <2>1. /\ count' = [count EXCEPT ![active[k]] = @ + 1]
        /\ accepted' = accepted \cup {active[k]}
        /\ ref' = [ref EXCEPT ![u] = active[k]]
        /\ UNCHANGED <<active, completed>>
    BY <1>4 DEF Start
  <2>2. active[k] \in Sub
    BY <1>1, <1>4 DEF IInv, TypeOK
  <2>3. TypeOK'
    BY <1>2, <1>3, <2>1, <2>2 DEF IInv, TypeOK
  <2>4. HeldRefers'
    BY <1>2, <2>1, <2>2 DEF IInv, TypeOK, HeldRefers
  <2>5. (Filed /\ ClosingActive /\ CompletedNotActive /\ CompletedIsListed)'
    BY <1>2, <2>1 DEF IInv, Filed, ClosingActive, CompletedNotActive, CompletedIsListed
  <2>. QED
    BY <2>3, <2>4, <2>5 DEF IInv
<1>5. CASE active[k] = NoEntry
  <2>1. /\ active' = [active EXCEPT ![k] = u]
        /\ completed' = [completed EXCEPT ![k] = NoEntry]
        /\ count' = [count EXCEPT ![u] = 1]
        /\ ref' = [ref EXCEPT ![u] = u]
        /\ accepted' = accepted \cup {u}
    BY <1>5 DEF Start, NewEntry, RemoveCompleted
  <2>2. TypeOK'
    BY <1>1, <1>2, <1>3, <2>1 DEF IInv, TypeOK
  <2>3. HeldRefers'
    BY <1>2, <2>1 DEF IInv, TypeOK, HeldRefers
  <2>4. (Filed /\ CompletedNotActive /\ CompletedIsListed)'
    BY <1>1, <1>2, <2>1, SettlementAssumption
    DEF IInv, TypeOK, Filed, CompletedNotActive, CompletedIsListed
  <2>5. ClosingActive'
    BY <1>1, <1>2, <2>1 DEF IInv, TypeOK, ClosingActive, Start, Unlocked
  <2>. QED
    BY <2>2, <2>3, <2>4, <2>5 DEF IInv
<1>. QED
  BY <1>4, <1>5

(* The last drop of an accepted turn files the entry before it stops being
   tracked; nobody else can be closing the key. *)
LEMMA DropKeeps ==
  ASSUME IInv, NEW u \in Sub, NEW h \in Holders, Drop(u, h)
  PROVE  IInv'
<1>. DEFINE e == ref[u]
            k == KeyOf[u]
<1>1. e \in Sub /\ k \in Key
  BY SettlementAssumption DEF IInv, HeldRefers, Drop
<1>2. /\ held' = [held EXCEPT ![u] = @ \ {h}]
      /\ held' \in [Sub -> SUBSET Holders]
      /\ UNCHANGED <<order, accepted, victim, ref, past, wait>>
  BY DEF Drop, IInv, TypeOK
<1>3. HeldRefers'
  BY <1>2 DEF IInv, TypeOK, HeldRefers
<1>4. CASE active[k] # e \/ count[e] # 1
  <2>1. /\ UNCHANGED <<active, completed, settled, closing>>
        /\ count' = count \/ count' = [count EXCEPT ![e] = @ - 1]
    BY <1>4 DEF Drop
  <2>2. TypeOK'
    BY <1>1, <1>2, <2>1 DEF IInv, TypeOK
  <2>3. (Filed /\ ClosingActive /\ CompletedNotActive /\ CompletedIsListed)'
    BY <1>2, <2>1 DEF IInv, Filed, ClosingActive, CompletedNotActive, CompletedIsListed
  <2>. QED
    BY <1>3, <2>2, <2>3 DEF IInv
<1>5. CASE active[k] = e /\ count[e] = 1 /\ Settles(e)
  <2>1. /\ active' = active
        /\ count' = [count EXCEPT ![e] = @ - 1]
        /\ settled' = settled \cup {e}
        /\ completed' = [completed EXCEPT ![KeyOf[e]] = e]
        /\ closing' = [closing EXCEPT ![e] = "remembered"]
    BY <1>5 DEF Drop, Remember
  <2>2. KeyOf[e] = k
    BY <1>1, <1>5, SettlementAssumption DEF IInv, Filed
  <2>3. TypeOK'
    BY <1>1, <1>2, <2>1, <2>2 DEF IInv, TypeOK
  <2>4. Filed'
    BY <1>1, <2>1, <2>2 DEF IInv, TypeOK, Filed
  <2>5. ClosingActive'
    BY <1>1, <1>5, <2>1, <2>2 DEF IInv, TypeOK, ClosingActive
  <2>6. CompletedNotActive'
    BY <1>1, <1>5, <2>1, <2>2 DEF IInv, TypeOK, CompletedNotActive
  <2>7. CompletedIsListed'
    BY <1>1, <1>2, <2>1, <2>2 DEF IInv, TypeOK, CompletedIsListed
  <2>. QED
    BY <1>3, <2>3, <2>4, <2>5, <2>6, <2>7 DEF IInv
<1>6. CASE active[k] = e /\ count[e] = 1 /\ ~Settles(e)
  <2>1. /\ active' = [active EXCEPT ![k] = NoEntry]
        /\ count' = [count EXCEPT ![e] = @ - 1]
        /\ UNCHANGED <<completed, settled, closing>>
    BY <1>6 DEF Drop
  <2>2. TypeOK'
    BY <1>1, <1>2, <2>1 DEF IInv, TypeOK
  <2>3. (Filed /\ CompletedNotActive /\ CompletedIsListed)'
    BY <1>1, <1>2, <2>1 DEF IInv, TypeOK, Filed, CompletedNotActive, CompletedIsListed
  <2>4. ClosingActive'
    BY <1>1, <2>1 DEF IInv, TypeOK, ClosingActive, Drop, Unlocked
  <2>. QED
    BY <1>3, <2>2, <2>3, <2>4 DEF IInv
<1>. QED
  BY <1>4, <1>5, <1>6

(* Appended to the order, the entry is due for eviction. *)
LEMMA RecordOrderKeeps == ASSUME IInv, NEW e \in Sub, RecordOrder(e) PROVE IInv'
<1>. USE SettlementAssumption DEF IInv, RecordOrder
<1>1. order' \in Seq(Sub) /\ ToSet(order') = ToSet(order) \cup {e}
  BY AppendedSet DEF TypeOK
<1>2. TypeOK'
  BY <1>1 DEF TypeOK
<1>3. (Filed /\ HeldRefers /\ ClosingActive /\ CompletedNotActive)'
  BY DEF TypeOK, Filed, HeldRefers, ClosingActive, CompletedNotActive
<1>4. CompletedIsListed'
  BY <1>1 DEF TypeOK, CompletedIsListed
<1>. QED
  BY <1>2, <1>3, <1>4

(* The oldest entry leaves the order; if the history still has it, it is the
   victim. *)
LEMMA EvictOldestKeeps == ASSUME IInv, NEW e \in Sub, EvictOldest(e) PROVE IInv'
<1>. USE SettlementAssumption DEF IInv, EvictOldest
<1>1. /\ order' \in Seq(Sub) /\ Head(order) \in Sub
      /\ ToSet(order) \subseteq ToSet(order') \cup {Head(order)}
  <2>1. order \in Seq(Sub) /\ Len(order) > 0
    BY DEF TypeOK
  <2>. QED
    BY <2>1, TailSet
<1>2. TypeOK'
  BY <1>1 DEF TypeOK
<1>3. (Filed /\ HeldRefers /\ ClosingActive /\ CompletedNotActive)'
  BY DEF TypeOK, Filed, HeldRefers, ClosingActive, CompletedNotActive
<1>4. CompletedIsListed'
  <2>1. ASSUME NEW k \in Key, completed[k] # NoEntry, completed[k] = Head(order)
        PROVE  victim' = completed[k]
    BY <2>1 DEF Stored, Filed
  <2>. QED
    BY <1>1, <2>1 DEF TypeOK, CompletedIsListed
<1>. QED
  BY <1>2, <1>3, <1>4

(* The removal goes by key: it takes the victim, or a later entry of its key. *)
LEMMA RemoveVictimKeeps == ASSUME IInv, RemoveVictim PROVE IInv'
<1>. USE SettlementAssumption DEF IInv, RemoveVictim
<1>1. TypeOK'
  BY DEF TypeOK
<1>2. (Filed /\ HeldRefers /\ ClosingActive /\ CompletedNotActive)'
  BY DEF TypeOK, Filed, HeldRefers, ClosingActive, CompletedNotActive
<1>3. CompletedIsListed'
  BY DEF TypeOK, CompletedIsListed, Filed
<1>. QED
  BY <1>1, <1>2, <1>3

(* The entry stops being tracked. *)
LEMMA FinishDropKeeps == ASSUME IInv, NEW e \in Sub, FinishDrop(e) PROVE IInv'
<1>. USE SettlementAssumption DEF IInv, FinishDrop
<1>1. TypeOK'
  BY DEF TypeOK
<1>2. (Filed /\ HeldRefers)'
  BY DEF TypeOK, Filed, HeldRefers
<1>3. ClosingActive'
  BY DEF TypeOK, ClosingActive
<1>4. CompletedNotActive'
  BY DEF TypeOK, CompletedNotActive, Filed
<1>5. CompletedIsListed'
  BY DEF TypeOK, CompletedIsListed
<1>. QED
  BY <1>1, <1>2, <1>3, <1>4, <1>5

(* A wait reads only. *)
LEMMA WaitKeeps ==
  ASSUME IInv, NEW w \in Waiter,
         (\E k \in Key : WaitBegins(w, k)) \/ WaitLooksUp(w) \/ WaitEnds(w)
  PROVE  IInv'
<1>1. UNCHANGED <<tracker, ref, held, past>>
  BY DEF WaitBegins, WaitLooksUp, WaitEnds
<1>2. /\ wait \in [Waiter -> WaitType]
      /\ \A v \in Waiter : wait[v].pc # "idle" => wait[v].key \in Key
  BY DEF IInv, TypeOK, WaitType
<1>3. PICK p \in WaitPcs, k \in Key, e \in Sub \cup {NoEntry} :
        wait' = [wait EXCEPT ![w] = [pc |-> p, key |-> k, entry |-> e]]
  <2>1. ASSUME NEW k \in Key, WaitBegins(w, k)
        PROVE  \E p \in WaitPcs, e \in Sub \cup {NoEntry} :
                 wait' = [wait EXCEPT ![w] = [pc |-> p, key |-> k, entry |-> e]]
    BY <2>1 DEF WaitBegins, WaitPcs, IInv, TypeOK
  <2>2. CASE WaitLooksUp(w)
    <3>1. wait[w].key \in Key
      BY <1>2, <2>2 DEF WaitLooksUp
    <3>2. completed[wait[w].key] \in Sub \cup {NoEntry}
      BY <3>1 DEF IInv, TypeOK
    <3>. QED
      BY <2>2, <3>1, <3>2 DEF WaitLooksUp, Answers, WaitPcs
  <2>3. CASE WaitEnds(w)
    <3>1. wait[w].key \in Key /\ wait[w].entry \in Sub \cup {NoEntry}
      BY <1>2, <2>3 DEF WaitEnds, WaitType
    <3>. QED
      BY <2>3, <3>1 DEF WaitEnds, Answers, WaitPcs
  <2>. QED
    BY <2>1, <2>2, <2>3
<1>4. /\ wait' \in [Waiter -> WaitType]
      /\ \A v \in Waiter : wait'[v].pc # "idle" => wait'[v].key \in Key
  BY <1>2, <1>3 DEF WaitType
<1>5. TypeOK'
  BY <1>1, <1>4 DEF IInv, TypeOK, WaitType, tracker
<1>6. (Filed /\ HeldRefers /\ ClosingActive /\ CompletedNotActive /\ CompletedIsListed)'
  BY <1>1 DEF IInv, tracker, Filed, HeldRefers, ClosingActive, CompletedNotActive,
     CompletedIsListed
<1>. QED
  BY <1>5, <1>6 DEF IInv

(* The invariant holds in every reachable state. *)
THEOREM Invariance == Spec => []IInv
<1>1. ASSUME IInv, [Next]_vars PROVE IInv'
  <2>1. CASE UNCHANGED vars
    BY <1>1, <2>1 DEF IInv, TypeOK, Filed, HeldRefers, ClosingActive, CompletedNotActive,
       CompletedIsListed, vars, tracker
  <2>2. CASE Next
    BY <1>1, <2>2, SubmitPortKeeps, EnqueueKeeps, StartKeeps, DropKeeps, RecordOrderKeeps,
       EvictOldestKeeps, RemoveVictimKeeps, FinishDropKeeps, WaitKeeps DEF Next
  <2>. QED
    BY <1>1, <2>1, <2>2
<1>. QED
  BY InitIInv, <1>1, PTL DEF Spec

(* Every variable of the tracker and its users keeps its type. *)
THEOREM SettlementTypes == Spec => []TypeOK
BY Invariance, PTL DEF IInv

(* remember_completed, register_accepted: a tracked turn never has an earlier
   completion in the history. *)
THEOREM HistoryNotActive == Spec => []CompletedNotActive
BY Invariance, PTL DEF IInv

(* remember_completed: whatever the history holds is due for eviction, so it
   does not grow beyond the capacity and the drops under way. *)
THEOREM HistoryListed == Spec => []CompletedIsListed
BY Invariance, PTL DEF IInv

--------------------------------------------------------------------------------
(* Who holds registrations: the counter of an entry is their number.  A holder
   is a stage the submission has gone through, and keeps its entry tracked. *)
HoldersMatch ==
  \A u \in Sub :
    /\ held[u] # {} => active[KeyOf[u]] = ref[u]
    /\ "task" \in held[u] => "started" \in past[u]
    /\ "queue" \in held[u] => "queued" \in past[u]
    /\ past[u] = {} => held[u] = {}
    /\ u \notin Port /\ past[u] # {} => "started" \in past[u]

(* The entry of a submission not yet made does not exist. *)
Unmade(u) ==
  /\ u \notin settled \cup accepted
  /\ \A v \in Sub : ref[v] # u
  /\ \A k \in Key : active[k] # u

Counted(e) ==
  /\ IsFiniteSet(Registered(e))
  /\ Registered(e) # {} => e \notin settled /\ count[e] = Cardinality(Registered(e))
  /\ active[KeyOf[e]] = e /\ closing[e] = "no" => Registered(e) # {}

TakenOn(e) == \E u \in Sub : ref[u] = e /\ past[u] \cap {"queued", "started"} # {}

(* Whatever counts as settled was taken on; the history and the answers hold
   nothing else. *)
SettledMatch ==
  /\ \A e \in accepted : TakenOn(e)
  /\ settled \subseteq accepted
  /\ \A e \in Sub : closing[e] # "no" => e \in settled
  /\ \A k \in Key : completed[k] # NoEntry => completed[k] \in settled
  /\ \A w \in Waiter : wait[w].pc = "settled" => wait[w].entry \in settled

OInv ==
  /\ HoldersMatch
  /\ \A u \in Sub : past[u] = {} => Unmade(u)
  /\ \A e \in Sub : Counted(e)
  /\ SettledMatch

LEMMA InitOInv == Init => OInv
<1>. SUFFICES ASSUME Init PROVE OInv
  OBVIOUS
<1>1. HoldersMatch /\ SettledMatch
  BY DEF Init, HoldersMatch, SettledMatch
<1>2. ASSUME NEW u \in Sub PROVE Unmade(u)
  BY SettlementAssumption DEF Init, Unmade
<1>3. ASSUME NEW e \in Sub PROVE Counted(e)
  <2>1. Registered(e) = {} /\ active[KeyOf[e]] # e
    BY SettlementAssumption DEF Init, Registered
  <2>. QED
    BY <2>1, FS_EmptySet DEF Counted
<1>. QED
  BY <1>1, <1>2, <1>3 DEF OInv

(* A submission that holds registrations has them of the tracked entry. *)
LEMMA HeldIsTracked ==
  ASSUME IInv, OInv, NEW u \in Sub, held[u] # {}
  PROVE  /\ ref[u] \in Sub /\ active[KeyOf[u]] = ref[u] /\ KeyOf[ref[u]] = KeyOf[u]
         /\ KeyOf[u] \in Key
<1>1. ref[u] \in Sub /\ active[KeyOf[u]] = ref[u] /\ KeyOf[u] \in Key
  BY SettlementAssumption DEF IInv, HeldRefers, OInv, HoldersMatch
<1>2. KeyOf[ref[u]] = KeyOf[u]
  BY <1>1, SettlementAssumption DEF IInv, Filed
<1>. QED
  BY <1>1, <1>2

(* Steps that leave registrations and counters alone. *)
LEMMA AsideKeeps ==
  ASSUME OInv, UNCHANGED <<active, count, accepted, settled, ref, held, past>>,
         \A e \in Sub : closing'[e] = "no" <=> closing[e] = "no",
         SettledMatch'
  PROVE  OInv'
<1>1. HoldersMatch'
  BY DEF OInv, HoldersMatch
<1>2. ASSUME NEW u \in Sub, past'[u] = {} PROVE Unmade(u)'
  BY <1>2 DEF OInv, Unmade
<1>3. ASSUME NEW e \in Sub PROVE Counted(e)'
  <2>1. Registered(e)' = Registered(e)
    BY DEF Registered
  <2>. QED
    BY <2>1 DEF OInv, Counted
<1>. QED
  BY <1>1, <1>2, <1>3 DEF OInv

(* Entries whose registrations stay. *)
LEMMA CountedKept ==
  ASSUME OInv, NEW e \in Sub, Registered(e)' = Registered(e),
         count'[e] = count[e], e \in settled' => e \in settled,
         active'[KeyOf[e]] = e /\ closing'[e] = "no" => active[KeyOf[e]] = e /\ closing[e] = "no"
  PROVE  Counted(e)'
<1>1. Counted(e)
  BY DEF OInv
<1>. QED
  BY <1>1 DEF Counted

(* Being taken on is for good, as long as no entry of another submission is
   left for a new one. *)
LEMMA TakenOnStays ==
  ASSUME \A u \in Sub : past[u] \cap {"queued", "started"} # {} =>
           ref'[u] = ref[u] /\ past[u] \subseteq past'[u],
         NEW e \in Sub, TakenOn(e)
  PROVE  TakenOn(e)'
BY DEF TakenOn

LEMMA SubmitPortCounts == ASSUME IInv, OInv, NEW u \in Sub, SubmitPort(u) PROVE OInv'
<1>. DEFINE k == KeyOf[u]
<1>1. /\ u \in Port /\ past[u] = {} /\ past' = [past EXCEPT ![u] = {"submitted"}]
      /\ UNCHANGED <<completed, order, accepted, settled, closing, victim, wait>>
      /\ Unlocked(k)
  BY DEF SubmitPort
<1>2. Unmade(u) /\ held[u] = {} /\ k \in Key
  BY <1>1, SettlementAssumption DEF OInv, HoldersMatch
<1>3. \A v \in Sub : past'[v] = IF v = u THEN {"submitted"} ELSE past[v]
  BY <1>1 DEF IInv, TypeOK
<1>4. CASE active[k] = NoEntry /\ completed[k] = NoEntry
  <2>1. /\ active' = [active EXCEPT ![k] = u]
        /\ count' = [count EXCEPT ![u] = 1]
        /\ ref' = [ref EXCEPT ![u] = u]
        /\ held' = [held EXCEPT ![u] = {"caller"}]
    BY <1>4 DEF SubmitPort, NewEntry
  <2>2. /\ \A v \in Sub : /\ count'[v] = IF v = u THEN 1 ELSE count[v]
                          /\ ref'[v] = IF v = u THEN u ELSE ref[v]
                          /\ held'[v] = IF v = u THEN {"caller"} ELSE held[v]
        /\ \A c \in Key : active'[c] = IF c = k THEN u ELSE active[c]
    BY <1>2, <2>1 DEF IInv, TypeOK
  <2>3. HoldersMatch'
    <3>1. ASSUME NEW v \in Sub, v # u, held[v] # {} PROVE active'[KeyOf[v]] = ref[v]
      <4>1. active[KeyOf[v]] = ref[v] /\ ref[v] \in Sub /\ KeyOf[v] \in Key
        BY <3>1, HeldIsTracked
      <4>. QED
        BY <1>4, <2>2, <4>1, SettlementAssumption
    <3>. QED
      BY <1>1, <1>2, <1>3, <2>2, <3>1 DEF OInv, HoldersMatch
  <2>4. ASSUME NEW v \in Sub, past'[v] = {} PROVE Unmade(v)'
    <3>1. v # u /\ Unmade(v)
      BY <1>3, <2>4 DEF OInv
    <3>. QED
      BY <1>1, <2>2, <3>1 DEF Unmade
  <2>5. ASSUME NEW e \in Sub PROVE Counted(e)'
    <3>1. CASE e = u
      <4>1. Registered(u)' = {<<u, "caller">>}
        BY <1>2, <2>2 DEF Registered, Unmade, Holders
      <4>2. IsFiniteSet({<<u, "caller">>}) /\ Cardinality({<<u, "caller">>}) = 1
        BY FS_Singleton
      <4>3. u \notin settled' /\ count'[u] = 1
        BY <1>1, <1>2, <2>2 DEF Unmade
      <4>4. Counted(u)'
        BY <4>1, <4>2, <4>3 DEF Counted
      <4>. QED
        BY <3>1, <4>4
    <3>2. CASE e # u
      <4>1. Registered(e)' = Registered(e)
        BY <1>2, <2>2, <3>2 DEF Registered
      <4>2. active'[KeyOf[e]] = e => active[KeyOf[e]] = e
        BY <2>2, <3>2, SettlementAssumption
      <4>. QED
        BY <1>1, <2>2, <3>2, <4>1, <4>2, CountedKept
    <3>. QED
      BY <3>1, <3>2
  <2>6. SettledMatch'
    <3>1. \A v \in Sub : past[v] \cap {"queued", "started"} # {} =>
            ref'[v] = ref[v] /\ past[v] \subseteq past'[v]
      BY <1>1, <1>3, <2>2
    <3>2. \A e \in accepted : TakenOn(e)'
      BY <3>1, TakenOnStays DEF OInv, SettledMatch, IInv, TypeOK
    <3>. QED
      BY <1>1, <3>2 DEF OInv, SettledMatch
  <2>. QED
    BY <2>3, <2>4, <2>5, <2>6 DEF OInv
<1>5. CASE ~(active[k] = NoEntry /\ completed[k] = NoEntry)
  <2>1. UNCHANGED <<active, count, ref, held>>
    BY <1>5 DEF SubmitPort
  <2>2. HoldersMatch'
    BY <1>1, <1>2, <1>3, <2>1 DEF OInv, HoldersMatch
  <2>3. ASSUME NEW v \in Sub, past'[v] = {} PROVE Unmade(v)'
    <3>1. v # u /\ Unmade(v)
      BY <1>3, <2>3 DEF OInv
    <3>. QED
      BY <1>1, <2>1, <3>1 DEF Unmade
  <2>4. ASSUME NEW e \in Sub PROVE Counted(e)'
    <3>1. Registered(e)' = Registered(e)
      BY <2>1 DEF Registered
    <3>. QED
      BY <1>1, <2>1, <3>1, CountedKept
  <2>5. SettledMatch'
    <3>1. \A v \in Sub : past[v] \cap {"queued", "started"} # {} =>
            ref'[v] = ref[v] /\ past[v] \subseteq past'[v]
      BY <1>1, <1>3, <2>1
    <3>2. \A e \in accepted : TakenOn(e)'
      BY <3>1, TakenOnStays DEF OInv, SettledMatch, IInv, TypeOK
    <3>. QED
      BY <1>1, <3>2 DEF OInv, SettledMatch
  <2>. QED
    BY <2>2, <2>3, <2>4, <2>5 DEF OInv
<1>. QED
  BY <1>4, <1>5

(* One more registration of a tracked entry. *)
LEMMA OneMore ==
  ASSUME OInv, NEW e \in Sub, NEW x, x \notin Registered(e),
         Registered(e)' = Registered(e) \cup {x}, Registered(e) # {},
         count'[e] = count[e] + 1, settled' = settled
  PROVE  Counted(e)'
<1>1. /\ IsFiniteSet(Registered(e)) /\ e \notin settled
      /\ count[e] = Cardinality(Registered(e))
  BY DEF OInv, Counted
<1>2. /\ IsFiniteSet(Registered(e) \cup {x})
      /\ Cardinality(Registered(e) \cup {x}) = Cardinality(Registered(e)) + 1
  BY <1>1, FS_AddElement
<1>. QED
  BY <1>1, <1>2 DEF Counted

LEMMA EnqueueCounts == ASSUME IInv, OInv, NEW u \in Sub, Enqueue(u) PROVE OInv'
<1>. DEFINE e == ref[u]
<1>1. /\ held[u] = {"caller"} /\ past[u] = {"submitted"}
      /\ UNCHANGED <<active, completed, order, settled, closing, victim, ref, wait>>
      /\ count' = [count EXCEPT ![e] = @ + 1]
      /\ accepted' = accepted \cup {e}
      /\ held' = [held EXCEPT ![u] = @ \cup {"queue"}]
      /\ past' = [past EXCEPT ![u] = @ \cup {"queued"}]
  BY DEF Enqueue, Clone
<1>2. e \in Sub /\ active[KeyOf[u]] = e /\ u \in Port
  BY <1>1, HeldIsTracked DEF OInv, HoldersMatch
<1>3. \A v \in Sub : /\ held'[v] = IF v = u THEN {"caller", "queue"} ELSE held[v]
                     /\ past'[v] = IF v = u THEN {"submitted", "queued"} ELSE past[v]
                     /\ count'[v] = IF v = e THEN count[v] + 1 ELSE count[v]
  BY <1>1, <1>2 DEF IInv, TypeOK
<1>4. HoldersMatch'
  BY <1>1, <1>2, <1>3 DEF OInv, HoldersMatch
<1>5. ASSUME NEW v \in Sub, past'[v] = {} PROVE Unmade(v)'
  <2>1. v # u /\ Unmade(v)
    BY <1>3, <1>5 DEF OInv
  <2>. QED
    BY <1>1, <2>1 DEF Unmade
<1>6. ASSUME NEW f \in Sub PROVE Counted(f)'
  <2>1. CASE f = e
    <3>1. /\ <<u, "caller">> \in Registered(e) /\ <<u, "queue">> \notin Registered(e)
          /\ Registered(e)' = Registered(e) \cup {<<u, "queue">>}
      BY <1>1, <1>3 DEF Registered, Holders
    <3>. QED
      BY <1>1, <1>3, <2>1, <3>1, OneMore
  <2>2. CASE f # e
    <3>1. Registered(f)' = Registered(f)
      BY <1>1, <1>3, <2>2 DEF Registered
    <3>. QED
      BY <1>1, <1>3, <2>2, <3>1, CountedKept
  <2>. QED
    BY <2>1, <2>2
<1>7. SettledMatch'
  <2>1. TakenOn(e)'
    BY <1>1, <1>3 DEF TakenOn
  <2>2. \A v \in Sub : past[v] \cap {"queued", "started"} # {} =>
          ref'[v] = ref[v] /\ past[v] \subseteq past'[v]
    BY <1>1, <1>3
  <2>3. \A f \in accepted : TakenOn(f)'
    BY <2>2, TakenOnStays DEF OInv, SettledMatch, IInv, TypeOK
  <2>. QED
    BY <1>1, <2>1, <2>3 DEF OInv, SettledMatch
<1>. QED
  BY <1>4, <1>5, <1>6, <1>7 DEF OInv

LEMMA StartCounts == ASSUME IInv, OInv, NEW u \in Sub, Start(u) PROVE OInv'
<1>. DEFINE k == KeyOf[u]
<1>1. /\ "started" \notin past[u] /\ Unlocked(k) /\ k \in Key
      /\ u \in Port => held[u] # {}
      /\ held' = [held EXCEPT ![u] = @ \cup {"task"}]
      /\ past' = [past EXCEPT ![u] = @ \cup {"submitted", "started"}]
      /\ UNCHANGED <<order, settled, closing, victim, wait>>
  BY SettlementAssumption DEF Start
<1>2. \A v \in Sub : /\ held'[v] = IF v = u THEN held[u] \cup {"task"} ELSE held[v]
                     /\ past'[v] = IF v = u THEN past[u] \cup {"submitted", "started"}
                                            ELSE past[v]
  BY <1>1 DEF IInv, TypeOK
<1>3. /\ u \in Port => ref[u] = active[k] /\ active[k] \in Sub
      /\ u \notin Port => past[u] = {} /\ held[u] = {} /\ Unmade(u)
      /\ "task" \notin held[u]
  BY <1>1, HeldIsTracked DEF OInv, HoldersMatch
<1>4. PICK e \in Sub :
      /\ KeyOf[e] = k /\ active'[k] = e
      /\ \A v \in Sub : ref'[v] = IF v = u THEN e ELSE ref[v]
      /\ \A c \in Key : c # k => active'[c] = active[c] /\ completed'[c] = completed[c]
      /\ \A v \in Sub : v # e => count'[v] = count[v]
      /\ completed'[k] \in {completed[k], NoEntry}
      /\ accepted' = accepted \cup {e}
      /\ \/ e = active[k] /\ count'[e] = count[e] + 1 /\ active'= active
         \/ active[k] = NoEntry /\ e = u /\ u \notin Port /\ count'[e] = 1
  <2>1. CASE active[k] # NoEntry
    <3>1. active[k] \in Sub /\ KeyOf[active[k]] = k
      BY <1>1, <2>1 DEF IInv, TypeOK, Filed
    <3>2. /\ count' = [count EXCEPT ![active[k]] = @ + 1]
          /\ accepted' = accepted \cup {active[k]}
          /\ ref' = [ref EXCEPT ![u] = active[k]]
          /\ UNCHANGED <<active, completed>>
      BY <2>1 DEF Start
    <3>3. /\ \A v \in Sub : /\ ref'[v] = IF v = u THEN active[k] ELSE ref[v]
                            /\ v # active[k] => count'[v] = count[v]
          /\ count'[active[k]] = count[active[k]] + 1
      BY <3>1, <3>2 DEF IInv, TypeOK
    <3>. QED
      BY <3>1, <3>2, <3>3
  <2>2. CASE active[k] = NoEntry
    <3>1. u \notin Port
      BY <1>3, <2>2, SettlementAssumption
    <3>2. /\ completed' = [completed EXCEPT ![k] = NoEntry]
          /\ active' = [active EXCEPT ![k] = u]
          /\ count' = [count EXCEPT ![u] = 1]
          /\ ref' = [ref EXCEPT ![u] = u]
          /\ accepted' = accepted \cup {u}
      BY <2>2 DEF Start, NewEntry, RemoveCompleted
    <3>3. /\ \A v \in Sub : /\ ref'[v] = IF v = u THEN u ELSE ref[v]
                            /\ v # u => count'[v] = count[v]
          /\ count'[u] = 1
          /\ \A c \in Key : /\ active'[c] = IF c = k THEN u ELSE active[c]
                            /\ completed'[c] = IF c = k THEN NoEntry ELSE completed[c]
      BY <1>1, <3>2 DEF IInv, TypeOK
    <3>. QED
      BY <1>1, <2>2, <3>1, <3>2, <3>3
  <2>. QED
    BY <2>1, <2>2
<1>5. HoldersMatch'
  <2>1. ASSUME NEW v \in Sub, v # u, held[v] # {} PROVE active'[KeyOf[v]] = ref'[v]
    <3>1. active[KeyOf[v]] = ref[v] /\ ref[v] \in Sub /\ KeyOf[v] \in Key
      BY <2>1, HeldIsTracked
    <3>. QED
      BY <1>4, <2>1, <3>1, SettlementAssumption
  <2>. QED
    BY <1>1, <1>2, <1>4, <2>1 DEF OInv, HoldersMatch
<1>6. ASSUME NEW v \in Sub, past'[v] = {} PROVE Unmade(v)'
  <2>1. v # u /\ Unmade(v)
    BY <1>2, <1>6 DEF OInv
  <2>2. v # e
    BY <1>1, <1>4, <2>1 DEF Unmade
  <2>. QED
    BY <1>1, <1>4, <2>1, <2>2 DEF Unmade
<1>7. ASSUME NEW f \in Sub, f # e PROVE Counted(f)'
  <2>1. Registered(f)' = Registered(f)
    <3>1. held[u] # {} => ref[u] = e
      BY <1>3, <1>4, SettlementAssumption
    <3>. QED
      BY <1>2, <1>4, <1>7, <3>1 DEF Registered
  <2>2. active'[KeyOf[f]] = f => active[KeyOf[f]] = f
    BY <1>4, <1>7, SettlementAssumption
  <2>. QED
    BY <1>1, <1>4, <1>7, <2>1, <2>2, CountedKept
<1>8. Counted(e)'
  <2>1. CASE e = active[k] /\ count'[e] = count[e] + 1
    <3>1. closing[e] = "no"
      BY <1>1, <1>4 DEF Unlocked
    <3>2. Registered(e) # {}
      BY <1>4, <2>1, <3>1 DEF OInv, Counted
    <3>3. /\ <<u, "task">> \notin Registered(e)
          /\ Registered(e)' = Registered(e) \cup {<<u, "task">>}
      <4>1. held[u] # {} => ref[u] = e
        BY <1>3, <2>1
      <4>. QED
        BY <1>2, <1>3, <1>4, <4>1 DEF Registered, Holders
    <3>. QED
      BY <1>1, <1>4, <2>1, <3>2, <3>3, OneMore
  <2>2. CASE e = u /\ u \notin Port /\ count'[e] = 1
    <3>1. Registered(e)' = {<<u, "task">>} /\ e \notin settled
      BY <1>2, <1>3, <1>4, <2>2 DEF Registered, Unmade, Holders
    <3>. QED
      BY <1>1, <2>2, <3>1, FS_Singleton DEF Counted
  <2>. QED
    BY <1>4, <2>1, <2>2
<1>9. SettledMatch'
  <2>1. TakenOn(e)'
    BY <1>2, <1>4 DEF TakenOn
  <2>2. \A v \in Sub : past[v] \cap {"queued", "started"} # {} =>
          ref'[v] = ref[v] /\ past[v] \subseteq past'[v]
    <3>1. past[u] # {} => ref[u] = e
      BY <1>3, <1>4, SettlementAssumption
    <3>. QED
      BY <1>2, <1>4, <3>1
  <2>3. \A f \in accepted : TakenOn(f)'
    BY <2>2, TakenOnStays DEF OInv, SettledMatch, IInv, TypeOK
  <2>4. \A c \in Key : completed'[c] # NoEntry => completed'[c] \in settled
    BY <1>1, <1>4 DEF OInv, SettledMatch
  <2>. QED
    BY <1>1, <1>4, <2>1, <2>3, <2>4 DEF OInv, SettledMatch
<1>. QED
  BY <1>5, <1>6, <1>7, <1>8, <1>9 DEF OInv

LEMMA DropCounts ==
  ASSUME IInv, OInv, NEW u \in Sub, NEW h \in Holders, Drop(u, h)
  PROVE  OInv'
<1>. DEFINE k == KeyOf[u]
<1>1. /\ h \in held[u] /\ Unlocked(k)
      /\ held' = [held EXCEPT ![u] = @ \ {h}]
      /\ UNCHANGED <<order, accepted, victim, ref, past, wait>>
  BY DEF Drop
<1>2. PICK e \in Sub : e = ref[u] /\ active[k] = e /\ KeyOf[e] = k /\ k \in Key
  BY <1>1, HeldIsTracked
<1>3. /\ count' = [count EXCEPT ![e] = @ - 1]
      /\ \/ count[e] # 1 /\ UNCHANGED <<active, completed, settled, closing>>
         \/ /\ count[e] = 1 /\ e \in accepted /\ active' = active /\ settled' = settled \cup {e}
            /\ closing' = [closing EXCEPT ![e] = "remembered"]
            /\ completed' = [completed EXCEPT ![k] = e]
         \/ /\ count[e] = 1 /\ active' = [active EXCEPT ![k] = NoEntry]
            /\ UNCHANGED <<completed, settled, closing>>
  BY <1>2 DEF Drop, Settles, Remember
<1>4. /\ \A v \in Sub : /\ held'[v] = IF v = u THEN held[u] \ {h} ELSE held[v]
                        /\ count'[v] = IF v = e THEN count[e] - 1 ELSE count[v]
                        /\ v # e => closing'[v] = closing[v] /\ (v \in settled' <=> v \in settled)
      /\ \A c \in Key : c # k => active'[c] = active[c] /\ completed'[c] = completed[c]
      /\ active'[k] \in {e, NoEntry} /\ completed'[k] \in {e, completed[k]}
      /\ completed'[k] # completed[k] => e \in settled'
      /\ settled \subseteq settled' /\ settled' \subseteq settled \cup {e}
      /\ closing'[e] # "no" => e \in settled' \/ closing[e] # "no"
      /\ e \in settled' => e \in settled \/ e \in accepted
  BY <1>1, <1>2, <1>3 DEF IInv, TypeOK
<1>5. /\ IsFiniteSet(Registered(e)) /\ e \notin settled /\ <<u, h>> \in Registered(e)
      /\ count[e] = Cardinality(Registered(e)) /\ count[e] \in Nat
  <2>1. <<u, h>> \in Registered(e)
    BY <1>1, <1>2 DEF Registered
  <2>. QED
    BY <1>2, <2>1, FS_CardinalityType DEF OInv, Counted
<1>6. /\ Registered(e)' = Registered(e) \ {<<u, h>>}
      /\ \A f \in Sub \ {e} : Registered(f)' = Registered(f)
  BY <1>1, <1>2, <1>4 DEF Registered
<1>7. /\ IsFiniteSet(Registered(e)') /\ Cardinality(Registered(e)') = count[e] - 1
      /\ Registered(e)' = {} <=> count[e] = 1
  <2>1. /\ IsFiniteSet(Registered(e) \ {<<u, h>>})
        /\ Cardinality(Registered(e) \ {<<u, h>>}) = Cardinality(Registered(e)) - 1
    BY <1>5, FS_RemoveElement
  <2>2. Registered(e) \ {<<u, h>>} = {} <=> Cardinality(Registered(e) \ {<<u, h>>}) = 0
    BY <2>1, FS_EmptySet
  <2>. QED
    BY <1>5, <1>6, <2>1, <2>2
<1>8. HoldersMatch'
  <2>1. ASSUME NEW v \in Sub, held'[v] # {} PROVE active'[KeyOf[v]] = ref'[v]
    <3>1. held[v] # {} /\ held'[v] \subseteq held[v] /\ held'[v] \subseteq Holders
      BY <1>4, <2>1 DEF IInv, TypeOK
    <3>2. active[KeyOf[v]] = ref[v] /\ KeyOf[v] \in Key
      BY <3>1, HeldIsTracked
    <3>3. CASE KeyOf[v] = k
      <4>1. Registered(e)' # {}
        <5>1. PICK g \in Holders : g \in held'[v]
          BY <2>1, <3>1
        <5>2. ref'[v] = e
          BY <1>1, <1>2, <3>2, <3>3
        <5>3. <<v, g>> \in Registered(e)'
          BY <5>1, <5>2 DEF Registered
        <5>. QED
          BY <5>3
      <4>2. active' = active
        BY <1>3, <1>7, <4>1
      <4>. QED
        BY <1>1, <3>2, <4>2
    <3>. QED
      BY <1>1, <1>4, <3>2, <3>3
  <2>. QED
    BY <1>1, <1>4, <2>1 DEF OInv, HoldersMatch
<1>9. ASSUME NEW v \in Sub, past'[v] = {} PROVE Unmade(v)'
  <2>1. Unmade(v) /\ v # e
    BY <1>1, <1>2, <1>9 DEF OInv, Unmade
  <2>. QED
    BY <1>1, <1>4, <2>1, SettlementAssumption DEF Unmade
<1>10. ASSUME NEW f \in Sub PROVE Counted(f)'
  <2>1. CASE f # e
    <3>1. active'[KeyOf[f]] = f => active[KeyOf[f]] = f
      BY <1>2, <1>4, <2>1, SettlementAssumption
    <3>. QED
      BY <1>4, <1>6, <2>1, <3>1, CountedKept
  <2>2. CASE f = e
    <3>1. CASE count[e] # 1
      BY <1>3, <1>4, <1>5, <1>7, <2>2, <3>1 DEF Counted
    <3>2. CASE count[e] = 1 /\ closing' = [closing EXCEPT ![e] = "remembered"]
      <4>1. closing'[e] # "no"
        BY <1>2, <3>2 DEF IInv, TypeOK
      <4>. QED
        BY <1>7, <2>2, <3>2, <4>1 DEF Counted
    <3>3. CASE count[e] = 1 /\ active' = [active EXCEPT ![k] = NoEntry]
      <4>1. active'[KeyOf[e]] # e
        BY <1>2, <3>3, SettlementAssumption DEF IInv, TypeOK
      <4>. QED
        BY <1>7, <2>2, <3>3, <4>1 DEF Counted
    <3>. QED
      BY <1>3, <3>1, <3>2, <3>3
  <2>. QED
    BY <2>1, <2>2
<1>11. SettledMatch'
  <2>1. \A f \in accepted : TakenOn(f)'
    BY <1>1 DEF OInv, SettledMatch, TakenOn
  <2>2. \A f \in Sub : closing'[f] # "no" => f \in settled'
    BY <1>4 DEF OInv, SettledMatch
  <2>3. \A c \in Key : completed'[c] # NoEntry => completed'[c] \in settled'
    BY <1>4 DEF OInv, SettledMatch
  <2>4. settled' \subseteq accepted'
    BY <1>1, <1>4 DEF OInv, SettledMatch
  <2>. QED
    BY <1>1, <1>4, <2>1, <2>2, <2>3, <2>4 DEF OInv, SettledMatch
<1>. QED
  BY <1>8, <1>9, <1>10, <1>11 DEF OInv

LEMMA FinishDropCounts == ASSUME IInv, OInv, NEW e \in Sub, FinishDrop(e) PROVE OInv'
<1>. DEFINE k == KeyOf[e]
<1>1. /\ closing[e] = "evicting" /\ active' = [active EXCEPT ![k] = NoEntry]
      /\ closing' = [closing EXCEPT ![e] = "no"] /\ k \in Key
      /\ UNCHANGED <<completed, order, count, accepted, settled, victim, ref, held, past, wait>>
  BY SettlementAssumption DEF FinishDrop
<1>2. e \in settled /\ active[k] = e /\ Registered(e) = {}
  BY <1>1 DEF OInv, SettledMatch, Counted, IInv, ClosingActive
<1>3. /\ \A c \in Key : active'[c] = IF c = k THEN NoEntry ELSE active[c]
      /\ \A f \in Sub : closing'[f] = IF f = e THEN "no" ELSE closing[f]
  BY <1>1 DEF IInv, TypeOK
<1>4. HoldersMatch'
  <2>1. ASSUME NEW v \in Sub, held[v] # {} PROVE active'[KeyOf[v]] = ref[v]
    <3>1. active[KeyOf[v]] = ref[v] /\ KeyOf[v] \in Key
      BY <2>1, HeldIsTracked
    <3>2. KeyOf[v] # k
      <4>1. PICK g \in Holders : g \in held[v]
        BY <2>1 DEF IInv, TypeOK
      <4>2. ref[v] = e => <<v, g>> \in Registered(e)
        BY <4>1 DEF Registered
      <4>. QED
        BY <1>2, <3>1, <4>2
    <3>. QED
      BY <1>3, <3>1, <3>2
  <2>. QED
    BY <1>1, <2>1 DEF OInv, HoldersMatch
<1>5. ASSUME NEW v \in Sub, past'[v] = {} PROVE Unmade(v)'
  BY <1>1, <1>3, <1>5, SettlementAssumption DEF OInv, Unmade
<1>6. ASSUME NEW f \in Sub PROVE Counted(f)'
  <2>1. Registered(f)' = Registered(f)
    BY <1>1 DEF Registered
  <2>2. /\ active'[KeyOf[f]] = f => active[KeyOf[f]] = f /\ f # e
        /\ f # e => closing'[f] = closing[f]
    BY <1>3, SettlementAssumption
  <2>. QED
    BY <1>1, <2>1, <2>2, CountedKept
<1>7. SettledMatch'
  <2>1. \A f \in accepted : TakenOn(f)'
    BY <1>1 DEF OInv, SettledMatch, TakenOn
  <2>. QED
    BY <1>1, <1>3, <2>1 DEF OInv, SettledMatch
<1>. QED
  BY <1>4, <1>5, <1>6, <1>7 DEF OInv

LEMMA HistoryCounts ==
  ASSUME IInv, OInv, (\E e \in Sub : RecordOrder(e) \/ EvictOldest(e)) \/ RemoveVictim
  PROVE  OInv'
<1>1. UNCHANGED <<active, count, accepted, settled, ref, held, past, wait>>
  BY DEF RecordOrder, EvictOldest, RemoveVictim
<1>2. /\ \A e \in Sub : closing'[e] = "no" <=> closing[e] = "no"
      /\ \A k \in Key : completed'[k] \in {completed[k], NoEntry}
  BY DEF RecordOrder, EvictOldest, RemoveVictim, IInv, TypeOK
<1>3. SettledMatch'
  <2>1. \A f \in accepted : TakenOn(f)'
    BY <1>1 DEF OInv, SettledMatch, TakenOn
  <2>. QED
    BY <1>1, <1>2, <2>1 DEF OInv, SettledMatch
<1>. QED
  BY <1>1, <1>2, <1>3, AsideKeeps

LEMMA WaitCounts ==
  ASSUME IInv, OInv, NEW w \in Waiter,
         (\E k \in Key : WaitBegins(w, k)) \/ WaitLooksUp(w) \/ WaitEnds(w)
  PROVE  OInv'
<1>1. UNCHANGED <<tracker, ref, held, past>>
  BY DEF WaitBegins, WaitLooksUp, WaitEnds
<1>2. /\ wait \in [Waiter -> WaitType]
      /\ \A v \in Waiter : wait[v].pc # "idle" => wait[v].key \in Key
  BY DEF IInv, TypeOK, WaitType
<1>3. ASSUME NEW v \in Waiter, wait'[v].pc = "settled" PROVE wait'[v].entry \in settled
  <2>1. CASE v # w
    <3>1. wait'[v] = wait[v]
      BY <1>2, <2>1 DEF WaitBegins, WaitLooksUp, WaitEnds, Answers
    <3>. QED
      BY <1>3, <3>1 DEF OInv, SettledMatch
  <2>2. CASE v = w /\ \E k \in Key : WaitBegins(w, k)
    BY <1>2, <1>3, <2>2 DEF WaitBegins
  <2>3. CASE v = w /\ WaitLooksUp(w)
    <3>1. wait[w].key \in Key /\ completed[wait[w].key] # NoEntry
          /\ wait'[w].entry = completed[wait[w].key]
      BY <1>2, <1>3, <2>3 DEF WaitLooksUp, Answers
    <3>. QED
      BY <2>3, <3>1 DEF OInv, SettledMatch
  <2>4. CASE v = w /\ WaitEnds(w)
    BY <1>2, <1>3, <2>4 DEF WaitEnds, Answers
  <2>. QED
    BY <2>1, <2>2, <2>3, <2>4
<1>4. SettledMatch'
  <2>1. \A f \in accepted : TakenOn(f)'
    BY <1>1 DEF OInv, SettledMatch, TakenOn, tracker
  <2>. QED
    BY <1>1, <1>3, <2>1 DEF OInv, SettledMatch, tracker
<1>. QED
  BY <1>1, <1>4, AsideKeeps DEF tracker

(* Registrations are counted exactly, in every reachable state. *)
THEOREM RegistrationsCounted == Spec => []OInv
<1>1. ASSUME IInv, OInv, [Next]_vars PROVE OInv'
  <2>1. CASE UNCHANGED vars
    <3>1. UNCHANGED <<active, count, accepted, settled, ref, held, past, closing, completed, wait>>
      BY <2>1 DEF vars, tracker
    <3>2. SettledMatch'
      BY <1>1, <3>1 DEF OInv, SettledMatch, TakenOn
    <3>. QED
      BY <1>1, <3>1, <3>2, AsideKeeps
  <2>2. CASE Next
    BY <1>1, <2>2, SubmitPortCounts, EnqueueCounts, StartCounts, DropCounts, FinishDropCounts,
       HistoryCounts, WaitCounts DEF Next
  <2>. QED
    BY <1>1, <2>1, <2>2
<1>. QED
  BY InitOInv, Invariance, <1>1, PTL DEF Spec

(* TurnSettlementRegistration: a turn is tracked, and does not count as
   settled, while anyone holds a registration of it. *)
THEOREM OwedIsTracked == Spec => []TrackedWhileOwed
<1>1. IInv /\ OInv => TrackedWhileOwed
  <2>. SUFFICES ASSUME IInv, OInv, NEW u \in Sub, held[u] # {}
                PROVE  /\ active[KeyOf[u]] = ref[u] /\ ref[u] \notin settled
                       /\ count[ref[u]] = Cardinality(Registered(ref[u]))
    BY DEF TrackedWhileOwed
  <2>1. PICK h \in Holders : h \in held[u]
    BY DEF IInv, TypeOK
  <2>2. ref[u] \in Sub /\ active[KeyOf[u]] = ref[u] /\ <<u, h>> \in Registered(ref[u])
    BY <2>1, HeldIsTracked DEF Registered
  <2>. QED
    BY <2>2 DEF OInv, Counted
<1>. QED
  BY Invariance, RegistrationsCounted, <1>1, PTL

(* wait: "settled" is only answered for a turn that was taken on and that
   nobody works for any more. *)
THEOREM SettledIsReallyOver == Spec => []SettledIsOver
<1>1. IInv /\ OInv => SettledIsOver
  <2>. SUFFICES ASSUME IInv, OInv, NEW w \in Waiter, wait[w].pc = "settled"
                PROVE  Registered(wait[w].entry) = {} /\ TakenOn(wait[w].entry)
    BY DEF SettledIsOver, TakenOn
  <2>1. wait[w].entry \in settled /\ wait[w].entry \in accepted /\ wait[w].entry \in Sub
    BY DEF OInv, SettledMatch, IInv, TypeOK
  <2>. QED
    BY <2>1 DEF OInv, SettledMatch, Counted
<1>. QED
  BY Invariance, RegistrationsCounted, <1>1, PTL

--------------------------------------------------------------------------------
(* The id of e was used for another execution that was accepted. *)
Reused(e) == \E f \in accepted : f # e /\ KeyOf[f] = KeyOf[e]

(* In the order of the history, or about to be recorded there. *)
Listed(e) == e \in ToSet(order) \/ closing[e] = "remembered"

(* An entry is recorded once, and none is about to be recorded again: it settles
   once, and while it is being evicted its last drop is still under way. *)
RecordedOnce ==
  /\ \A i, j \in 1..Len(order) : order[i] = order[j] => i = j
  /\ victim \notin ToSet(order)
  /\ \A e \in Sub : e \in ToSet(order) \/ e = victim =>
       e \in settled /\ (active[KeyOf[e]] = e => closing[e] = "evicting")

(* What is listed can be answered, unless its id was used again: then a later
   completion, its eviction or its registration may have removed it. *)
ListedIsKnown == \A e \in Sub : Listed(e) => completed[KeyOf[e]] = e \/ Reused(e)

HistInv == RecordedOnce /\ ListedIsKnown

(* An entry that is about to be recorded is not in the order, nor the victim. *)
LEMMA RememberedIsNew ==
  ASSUME IInv, OInv, HistInv, NEW e \in Sub, closing[e] = "remembered"
  PROVE  e \notin ToSet(order) /\ e # victim /\ e \in settled
<1>1. active[KeyOf[e]] = e
  BY DEF IInv, ClosingActive
<1>2. e \in settled
  BY DEF OInv, SettledMatch
<1>. QED
  BY <1>1, <1>2 DEF HistInv, RecordedOnce

(* Steps that record nothing: they touch the history only where the entry's id
   is used again. *)
LEMMA HistAside ==
  ASSUME IInv, OInv, HistInv, UNCHANGED order, victim' \in {victim, NoEntry},
         settled \subseteq settled', accepted \subseteq accepted',
         \A e \in Sub : e \in settled /\ active'[KeyOf[e]] = e =>
                          active[KeyOf[e]] = e /\ closing'[e] = closing[e],
         \A e \in Sub : closing'[e] = "remembered" => closing[e] = "remembered",
         \A e \in Sub : Listed(e) /\ completed[KeyOf[e]] = e =>
                          completed'[KeyOf[e]] = e \/ Reused(e)'
  PROVE  HistInv'
<1>1. \A e \in Sub : Reused(e) => Reused(e)'
  BY DEF Reused
<1>2. ListedIsKnown'
  BY <1>1 DEF HistInv, ListedIsKnown, Listed
<1>3. NoEntry \notin ToSet(order) /\ NoEntry \notin Sub
  BY SettlementAssumption DEF IInv, TypeOK, ToSet
<1>4. RecordedOnce'
  BY <1>3 DEF HistInv, RecordedOnce
<1>. QED
  BY <1>2, <1>4 DEF HistInv

LEMMA SubmitPortHist == ASSUME IInv, OInv, HistInv, NEW u \in Sub, SubmitPort(u) PROVE HistInv'
<1>1. /\ past[u] = {}
      /\ UNCHANGED <<completed, order, accepted, settled, closing, victim>>
      /\ active' = active \/ active' = [active EXCEPT ![KeyOf[u]] = u]
  BY DEF SubmitPort, NewEntry
<1>2. u \notin settled
  BY <1>1 DEF OInv, Unmade
<1>3. \A e \in Sub : e \in settled /\ active'[KeyOf[e]] = e => active[KeyOf[e]] = e
  BY <1>1, <1>2, SettlementAssumption DEF IInv, TypeOK
<1>. QED
  BY <1>1, <1>3, HistAside

LEMMA StartHist == ASSUME IInv, OInv, HistInv, NEW u \in Sub, Start(u) PROVE HistInv'
<1>. DEFINE k == KeyOf[u]
<1>1. UNCHANGED <<order, settled, closing, victim>> /\ k \in Key
  BY SettlementAssumption DEF Start
<1>2. CASE active[k] # NoEntry
  <2>1. UNCHANGED <<active, completed>> /\ accepted \subseteq accepted'
    BY <1>2 DEF Start
  <2>. QED
    BY <1>1, <2>1, HistAside
<1>3. CASE active[k] = NoEntry
  <2>1. /\ active' = [active EXCEPT ![k] = u]
        /\ completed' = [completed EXCEPT ![k] = NoEntry]
        /\ accepted' = accepted \cup {u}
    BY <1>3 DEF Start, NewEntry, RemoveCompleted
  <2>2. past[u] = {}
    <3>1. CASE u \in Port
      <4>1. held[u] # {}
        BY <3>1 DEF Start
      <4>. QED
        BY <1>3, <4>1, HeldIsTracked, SettlementAssumption
    <3>2. CASE u \notin Port
      BY <3>2 DEF Start, OInv, HoldersMatch
    <3>. QED
      BY <3>1, <3>2
  <2>3. u \notin settled
    BY <2>2 DEF OInv, Unmade
  <2>4. \A e \in Sub : e \in settled /\ active'[KeyOf[e]] = e => active[KeyOf[e]] = e
    BY <1>1, <2>1, <2>3 DEF IInv, TypeOK
  <2>5. ASSUME NEW e \in Sub, Listed(e), completed[KeyOf[e]] = e
        PROVE  completed'[KeyOf[e]] = e \/ Reused(e)'
    <3>1. e \in settled
      BY <2>5, RememberedIsNew DEF Listed, HistInv, RecordedOnce
    <3>2. CASE KeyOf[e] = k
      BY <2>1, <2>3, <3>1, <3>2 DEF Reused
    <3>3. CASE KeyOf[e] # k
      BY <2>1, <2>5, <3>3 DEF IInv, TypeOK
    <3>. QED
      BY <3>2, <3>3
  <2>. QED
    BY <1>1, <2>1, <2>4, <2>5, HistAside
<1>. QED
  BY <1>2, <1>3

LEMMA DropHist ==
  ASSUME IInv, OInv, HistInv, NEW u \in Sub, NEW h \in Holders, Drop(u, h)
  PROVE  HistInv'
<1>. DEFINE e == ref[u]
            k == KeyOf[u]
<1>1. /\ e \in Sub /\ active[k] = e /\ KeyOf[e] = k /\ k \in Key
  BY HeldIsTracked DEF Drop
<1>2. UNCHANGED <<order, accepted, victim>>
  BY DEF Drop
<1>3. CASE count[e] # 1
  BY <1>1, <1>2, <1>3, HistAside DEF Drop
<1>4. CASE count[e] = 1 /\ ~Settles(e)
  <2>1. active' = [active EXCEPT ![k] = NoEntry] /\ UNCHANGED <<completed, settled, closing>>
    BY <1>1, <1>4 DEF Drop
  <2>2. \A f \in Sub : active'[KeyOf[f]] = f => active[KeyOf[f]] = f
    BY <1>1, <2>1, SettlementAssumption DEF IInv, TypeOK
  <2>. QED
    BY <1>2, <2>1, <2>2, HistAside
<1>5. CASE count[e] = 1 /\ Settles(e)
  <2>1. /\ UNCHANGED active /\ settled' = settled \cup {e} /\ e \in accepted
        /\ completed' = [completed EXCEPT ![KeyOf[e]] = e]
        /\ closing' = [closing EXCEPT ![e] = "remembered"]
    BY <1>1, <1>5 DEF Drop, Remember, Settles
  <2>2. closing[e] = "no"
    BY <1>1 DEF Drop, Unlocked
  <2>3. e \notin ToSet(order) /\ e # victim
    BY <1>1, <2>2 DEF HistInv, RecordedOnce
  <2>4. RecordedOnce'
    BY <1>1, <1>2, <2>1, <2>3 DEF HistInv, RecordedOnce, IInv, TypeOK
  <2>5. ASSUME NEW f \in Sub, Listed(f)'
        PROVE  completed'[KeyOf[f]] = f \/ Reused(f)'
    <3>1. CASE f = e
      BY <1>1, <2>1, <3>1 DEF IInv, TypeOK
    <3>2. CASE f # e /\ KeyOf[f] = k
      BY <1>1, <1>2, <2>1, <3>2 DEF Reused
    <3>3. CASE f # e /\ KeyOf[f] # k
      <4>1. Listed(f) /\ completed'[KeyOf[f]] = completed[KeyOf[f]]
        BY <1>1, <1>2, <2>1, <2>5, <3>3 DEF Listed, IInv, TypeOK
      <4>. QED
        BY <1>2, <4>1 DEF HistInv, ListedIsKnown, Reused
    <3>. QED
      BY <3>1, <3>2, <3>3
  <2>. QED
    BY <2>4, <2>5 DEF HistInv, ListedIsKnown
<1>. QED
  BY <1>3, <1>4, <1>5

LEMMA RecordOrderHist ==
  ASSUME IInv, OInv, HistInv, NEW e \in Sub, RecordOrder(e) PROVE HistInv'
<1>1. /\ closing[e] = "remembered" /\ order' = Append(order, e)
      /\ closing' = [closing EXCEPT ![e] = "evicting"]
      /\ UNCHANGED <<active, completed, accepted, settled, victim>>
  BY DEF RecordOrder
<1>2. e \notin ToSet(order) /\ e # victim /\ e \in settled
  BY <1>1, RememberedIsNew
<1>3. order \in Seq(Sub) /\ closing' \in [Sub -> {"no", "remembered", "evicting"}]
      /\ closing'[e] = "evicting" /\ \A f \in Sub : f # e => closing'[f] = closing[f]
  BY <1>1 DEF IInv, TypeOK
<1>4. ToSet(order') = ToSet(order) \cup {e}
  BY <1>1, <1>3, AppendedSet
<1>5. /\ Len(order') = Len(order) + 1 /\ order'[Len(order) + 1] = e
      /\ \A i \in 1..Len(order) : order'[i] = order[i] /\ order[i] \in ToSet(order)
  BY <1>1, <1>3 DEF ToSet
<1>6. \A i, j \in 1..Len(order') : order'[i] = order'[j] => i = j
  <2>. SUFFICES ASSUME NEW i \in 1..Len(order'), NEW j \in 1..Len(order'), order'[i] = order'[j]
                PROVE  i = j
    OBVIOUS
  <2>1. CASE i \in 1..Len(order) /\ j \in 1..Len(order)
    BY <1>5, <2>1 DEF HistInv, RecordedOnce
  <2>2. CASE i = Len(order) + 1 \/ j = Len(order) + 1
    BY <1>2, <1>3, <1>5, <2>2
  <2>. QED
    BY <1>3, <1>5, <2>1, <2>2
<1>7. RecordedOnce'
  BY <1>1, <1>2, <1>3, <1>4, <1>6 DEF HistInv, RecordedOnce
<1>8. ListedIsKnown'
  BY <1>1, <1>3, <1>4 DEF HistInv, ListedIsKnown, Listed, Reused
<1>. QED
  BY <1>7, <1>8 DEF HistInv

LEMMA EvictOldestHist ==
  ASSUME IInv, OInv, HistInv, NEW e \in Sub, EvictOldest(e) PROVE HistInv'
<1>1. /\ Len(order) > 0 /\ order' = Tail(order) /\ order \in Seq(Sub)
      /\ victim' \in {Head(order), NoEntry}
      /\ UNCHANGED <<active, completed, accepted, settled, closing>>
  BY SettlementAssumption DEF EvictOldest, IInv, TypeOK
<1>2. /\ Len(order') = Len(order) - 1 /\ Head(order) = order[1] /\ Len(order) \in Nat
      /\ \A i \in 1..Len(order') : order'[i] = order[i + 1]
      /\ DOMAIN order' = 1..Len(order') /\ DOMAIN order = 1..Len(order)
  BY <1>1
<1>3. \A i \in 1..Len(order') : i + 1 \in 1..Len(order)
  BY <1>2
<1>4. ToSet(order') \subseteq ToSet(order) /\ Head(order) \in ToSet(order)
  <2>1. 1 \in DOMAIN order
    BY <1>1, <1>2
  <2>. QED
    BY <1>2, <1>3, <2>1 DEF ToSet
<1>5. Head(order) \notin ToSet(order')
  <2>1. ASSUME NEW i \in 1..Len(order'), order'[i] = order[1] PROVE FALSE
    <3>1. order[i + 1] = order[1] /\ i + 1 # 1 /\ 1 \in 1..Len(order)
      BY <1>1, <1>2, <2>1
    <3>. QED
      BY <1>3, <3>1 DEF HistInv, RecordedOnce
  <2>. QED
    BY <1>2, <2>1 DEF ToSet
<1>6. \A i, j \in 1..Len(order') : order'[i] = order'[j] => i = j
  <2>. SUFFICES ASSUME NEW i \in 1..Len(order'), NEW j \in 1..Len(order'), order'[i] = order'[j]
                PROVE  i = j
    OBVIOUS
  <2>1. order[i + 1] = order[j + 1]
    BY <1>2
  <2>2. i + 1 = j + 1
    BY <1>3, <2>1 DEF HistInv, RecordedOnce
  <2>. QED
    BY <2>2
<1>7. NoEntry \notin ToSet(order') /\ NoEntry \notin Sub
  BY <1>1, <1>4, SettlementAssumption DEF ToSet
<1>8. RecordedOnce'
  BY <1>1, <1>4, <1>5, <1>6, <1>7 DEF HistInv, RecordedOnce
<1>9. ListedIsKnown'
  BY <1>1, <1>4 DEF HistInv, ListedIsKnown, Listed, Reused
<1>. QED
  BY <1>8, <1>9 DEF HistInv

LEMMA RemoveVictimHist == ASSUME IInv, OInv, HistInv, RemoveVictim PROVE HistInv'
<1>1. /\ victim \in Sub /\ KeyOf[victim] \in Key
      /\ completed' = [completed EXCEPT ![KeyOf[victim]] = NoEntry] /\ victim' = NoEntry
      /\ UNCHANGED <<active, order, accepted, settled, closing>>
  BY SettlementAssumption DEF RemoveVictim, IInv, TypeOK
<1>2. victim \in accepted /\ ~Listed(victim)
  BY <1>1, RememberedIsNew DEF HistInv, RecordedOnce, Listed, OInv, SettledMatch
<1>3. ASSUME NEW e \in Sub, Listed(e), completed[KeyOf[e]] = e
      PROVE  completed'[KeyOf[e]] = e \/ Reused(e)'
  <2>1. CASE KeyOf[e] = KeyOf[victim]
    BY <1>1, <1>2, <1>3, <2>1 DEF Reused
  <2>2. CASE KeyOf[e] # KeyOf[victim]
    BY <1>1, <1>3, <2>2 DEF IInv, TypeOK
  <2>. QED
    BY <2>1, <2>2
<1>. QED
  BY <1>1, <1>3, HistAside

LEMMA FinishDropHist ==
  ASSUME IInv, OInv, HistInv, NEW e \in Sub, FinishDrop(e) PROVE HistInv'
<1>1. /\ closing[e] = "evicting" /\ active' = [active EXCEPT ![KeyOf[e]] = NoEntry]
      /\ closing' = [closing EXCEPT ![e] = "no"]
      /\ UNCHANGED <<completed, order, accepted, settled, victim>>
  BY DEF FinishDrop
<1>2. \A f \in Sub : f # e => closing'[f] = closing[f]
  BY <1>1 DEF IInv, TypeOK
<1>3. closing'[e] = "no" /\ active'[KeyOf[e]] = NoEntry
  BY <1>1, SettlementAssumption DEF IInv, TypeOK
<1>4. \A f \in Sub : active'[KeyOf[f]] = f => f # e /\ active[KeyOf[f]] = f
  BY <1>1, <1>3, SettlementAssumption DEF IInv, TypeOK
<1>. QED
  BY <1>1, <1>2, <1>3, <1>4, HistAside

(* HistInv is an invariant. *)
THEOREM HistoryIsKept == Spec => []HistInv
<1>1. Init => HistInv
  BY SettlementAssumption DEF Init, HistInv, RecordedOnce, ListedIsKnown, Listed, ToSet
<1>2. ASSUME IInv, OInv, HistInv, [Next]_vars PROVE HistInv'
  <2>1. ASSUME UNCHANGED tracker PROVE HistInv'
    BY <1>2, <2>1, HistAside DEF tracker
  <2>2. CASE UNCHANGED vars
    BY <2>1, <2>2 DEF vars
  <2>3. ASSUME NEW u \in Sub, SubmitPort(u) \/ Enqueue(u) \/ Start(u) PROVE HistInv'
    <3>1. CASE Enqueue(u)
      <4>1. /\ UNCHANGED <<active, completed, order, settled, closing, victim>>
            /\ accepted \subseteq accepted'
        BY <3>1 DEF Enqueue
      <4>. QED
        BY <1>2, <4>1, HistAside
    <3>. QED
      BY <1>2, <2>3, <3>1, SubmitPortHist, StartHist
  <2>4. ASSUME NEW w \in Waiter,
               (\E k \in Key : WaitBegins(w, k)) \/ WaitLooksUp(w) \/ WaitEnds(w)
        PROVE  HistInv'
    BY <2>1, <2>4 DEF WaitBegins, WaitLooksUp, WaitEnds
  <2>. QED
    BY <1>2, <2>2, <2>3, <2>4, DropHist, RecordOrderHist, EvictOldestHist, RemoveVictimHist,
       FinishDropHist DEF Next
<1>. QED
  BY <1>1, <1>2, Invariance, RegistrationsCounted, PTL DEF Spec

(* wait_for_turn_settlement never answers "unknown" for a turn within the
   capacity of the history, whatever drops and evictions overlap, unless its id
   was accepted for another execution. *)
THEOREM HistoryAnswers == Spec => KnownIsAnswered
<1>. DEFINE Known == \A w \in Waiter : wait[w].pc = "lookup" /\ wait[w]'.pc = "unknown" =>
              \A e \in ToSet(order) : KeyOf[e] = wait[w].key =>
                \E f \in accepted : f # e /\ KeyOf[f] = KeyOf[e]
<1>1. ASSUME IInv, HistInv, Next PROVE Known
  <2>. SUFFICES ASSUME NEW w \in Waiter, wait[w].pc = "lookup", wait'[w].pc = "unknown",
                       NEW e \in ToSet(order), KeyOf[e] = wait[w].key
                PROVE  Reused(e)
    BY DEF Reused
  <2>1. wait' # wait
    OBVIOUS
  <2>2. PICK x \in Waiter : (\E k \in Key : WaitBegins(x, k)) \/ WaitLooksUp(x) \/ WaitEnds(x)
    BY <1>1, <2>1
    DEF Next, SubmitPort, Enqueue, Start, Drop, RecordOrder, EvictOldest, FinishDrop, RemoveVictim
  <2>3. \E y : wait' = [wait EXCEPT ![x] = y]
    BY <2>2 DEF WaitBegins, WaitLooksUp, WaitEnds, Answers
  <2>4. x = w
    BY <1>1, <2>3 DEF IInv, TypeOK
  <2>5. WaitLooksUp(w)
    BY <2>2, <2>4 DEF WaitBegins, WaitEnds
  <2>6. completed[wait[w].key] = NoEntry
    BY <1>1, <2>5 DEF WaitLooksUp, Answers, IInv, TypeOK
  <2>7. e \in Sub /\ Listed(e)
    BY <1>1 DEF IInv, TypeOK, ToSet, Listed
  <2>. QED
    BY <1>1, <2>6, <2>7, SettlementAssumption DEF HistInv, ListedIsKnown
<1>2. IInv /\ HistInv /\ [Next]_vars => [Known]_vars
  BY <1>1
<1>. QED
  BY <1>2, Invariance, HistoryIsKept, PTL DEF Spec, KnownIsAnswered
================================================================================
