-------------------------- MODULE DialogSchedulerProofs --------------------------
(***************************************************************************)
(* Proofs about DialogScheduler: its types, the ownership of a session by  *)
(* its running turn, the limit and the order of the queues, who may get    *)
(* ahead of whom in them, the exclusion by a maintenance permit, that a    *)
(* turn has one place and none is lost silently, that a failure spares     *)
(* what waits behind a later turn, that the outcomes which are awaited     *)
(* arrive, and that the whole implements SessionTurns; for any number of   *)
(* sessions, turns and reply routes, any limit, channel capacity and       *)
(* number of failures, panics, cancellations and maintenance requests.     *)
(***************************************************************************)
EXTENDS DialogScheduler, DialogTurnQueueProofs, FiniteSetTheorems

(* A queue that is in order, within the limit, and holds turns of s only. *)
GoodQueue(s, q) ==
  /\ q \in Seq(Turn) /\ Len(q) <= MaxDepth /\ ByPriority(q)
  /\ \A i \in 1..Len(q) : Home[q[i]] = s

(* Enqueueing below the limit keeps a queue good. *)
LEMMA GoodEnqueue ==
  ASSUME NEW s \in Session, NEW q, GoodQueue(s, q), ~Full(q),
         NEW t \in Turn, Home[t] = s
  PROVE  GoodQueue(s, Enqueue(q, t)) /\ Enqueue(q, t) # <<>>
<1>1. q \in Seq(Turn) /\ ByPriority(q) /\ Len(q) < MaxDepth
  BY QueueAssumption DEF GoodQueue, Full
<1> DEFINE r == Enqueue(q, t)
<1>2. ByPriority(r)
  BY <1>1, EnqueueByPriority
<1>3. PICK p \in 1..(Len(q) + 1) : InsertedAt(r, q, t, p)
  BY <1>1, EnqueueInserts
<1> HIDE DEF r
<1>4. /\ r \in Seq(Turn) /\ Len(r) = Len(q) + 1 /\ r[p] = t
      /\ \A j \in 1..Len(r) : j # p => r[j] = q[IF j < p THEN j ELSE j - 1]
  BY <1>3 DEF InsertedAt
<1>5. ASSUME NEW j \in 1..Len(r) PROVE Home[r[j]] = s
  <2>1. CASE j = p
    BY <1>4, <2>1
  <2>2. CASE j # p
    <3>1. (IF j < p THEN j ELSE j - 1) \in 1..Len(q)
      BY <1>4, <2>2
    <3> QED
      BY <1>4, <2>2, <3>1 DEF GoodQueue
  <2> QED
    BY <2>1, <2>2
<1>6. Len(r) <= MaxDepth /\ r # <<>>
  BY <1>1, <1>4, QueueAssumption
<1> QED
  BY <1>2, <1>4, <1>5, <1>6 DEF GoodQueue, r

(* Removing a turn keeps a queue good. *)
LEMMA GoodRemove ==
  ASSUME NEW s \in Session, NEW q, GoodQueue(s, q), NEW t \in Turn
  PROVE  GoodQueue(s, RemoveTurn(q, t))
<1>1. q \in Seq(Turn) /\ ByPriority(q) /\ Len(q) <= MaxDepth
  BY DEF GoodQueue
<1> DEFINE r == RemoveTurn(q, t)
<1>2. ByPriority(r) /\ r \in Seq(Turn) /\ Len(r) <= Len(q)
  BY <1>1, RemoveTurnByPriority, RemoveTurnKeeps
<1>3. PICK p \in Nat : \A j \in 1..Len(r) :
                         /\ (IF j < p THEN j ELSE j + 1) \in 1..Len(q)
                         /\ r[j] = q[IF j < p THEN j ELSE j + 1]
  BY <1>1, RemoveTurnKeeps
<1> HIDE DEF r
<1>4. \A j \in 1..Len(r) : Home[r[j]] = s
  BY <1>3 DEF GoodQueue
<1>5. Len(r) <= MaxDepth
  BY <1>1, <1>2, QueueAssumption
<1> QED
  BY <1>2, <1>4, <1>5 DEF GoodQueue, r

(* The empty queue is good. *)
LEMMA GoodEmpty == \A s \in Session : GoodQueue(s, <<>>)
BY QueueAssumption DEF GoodQueue, ByPriority

(* A good queue is good without its head. *)
LEMMA GoodTail ==
  ASSUME NEW s \in Session, NEW q \in Seq(Turn), NEW t \in Turn, GoodQueue(s, <<t>> \o q)
  PROVE  GoodQueue(s, q)
<1> DEFINE r == <<t>> \o q
<1>1. Len(r) = Len(q) + 1 /\ \A i \in 1..Len(q) : q[i] = r[i + 1]
  OBVIOUS
<1>2. r \in Seq(Turn) /\ Len(r) <= MaxDepth /\ ByPriority(r) /\ \A i \in 1..Len(r) : Home[r[i]] = s
  BY DEF GoodQueue
<1> HIDE DEF r
<1>3. Len(q) <= MaxDepth
  BY <1>1, <1>2, QueueAssumption
<1>4. \A i \in 1..Len(q) : Home[q[i]] = s
  BY <1>1, <1>2
<1>5. ByPriority(q)
  <2> SUFFICES ASSUME NEW i \in 1..Len(q), NEW j \in 1..Len(q), i < j
               PROVE  Priority[q[i]] >= Priority[q[j]]
    BY DEF ByPriority
  <2>1. i + 1 \in 1..Len(r) /\ j + 1 \in 1..Len(r) /\ i + 1 < j + 1
    BY <1>1
  <2>2. Priority[r[i + 1]] >= Priority[r[j + 1]]
    BY <1>2, <2>1 DEF ByPriority
  <2> QED
    BY <1>1, <2>2
<1> QED
  BY <1>3, <1>4, <1>5 DEF GoodQueue

(* The head of a good queue is a turn of the session, and head and rest make
   up the queue. *)
LEMMA GoodHead ==
  ASSUME NEW s \in Session, NEW q, GoodQueue(s, q), q # <<>>
  PROVE  /\ Head(q) \in Turn /\ Home[Head(q)] = s
         /\ Dequeue(q) \in Seq(Turn) /\ <<Head(q)>> \o Dequeue(q) = q
<1>1. q \in Seq(Turn)
  BY DEF GoodQueue
<1>2. Head(q) = q[1] /\ 1 \in 1..Len(q)
  BY <1>1
<1> QED
  BY <1>1, <1>2, RequeueDequeued DEF GoodQueue, RequeueFront

--------------------------------------------------------------------------------
(* The turns that operations, sessions and the handler refer to. *)
TurnRefs ==
  /\ \A s \in Session : op[s].kind \in {"start", "record"} =>
                          op[s].turn \in Turn /\ Home[op[s].turn] = s
  /\ \A s \in Session : state[s] = "Processing" => current[s] \in Turn
  /\ handler.pc # "idle" => handler.turn \in Turn
  /\ handler.pc = "reply" => ReplyTurn[handler.turn] \in Turn

(* What the holder of the lock of s has achieved during maintenance. *)
MaintenanceInv ==
  \A s \in Session :
    /\ op[s].kind \in {"drain", "permit"} => queue[s] = <<>> /\ state[s] # "Processing"
    /\ op[s].kind = "permit" =>
         /\ active[s] = NoTurn
         /\ \A t \in Turn : Home[t] = s => exec[t] \in {"none", "done"}

QueueInv == \A s \in Session : GoodQueue(s, Pending(s))

(* The inductive invariant.  RunningOwnsSession needs the permit part of
   MaintenanceInv (a deletion removes the session without looking at its
   state) and TurnRefs (a start makes the session Processing a turn of that
   session); the queue limit needs the turn that is being started counted. *)
IInv == TypeOK /\ TurnRefs /\ RunningOwnsSession /\ MaintenanceInv /\ QueueInv

(* IInv holds initially. *)
LEMMA InitIInv == Init => IInv
<1> SUFFICES ASSUME Init PROVE IInv
  OBVIOUS
<1>1. TypeOK
  BY SchedulerAssumption
  DEF Init, TypeOK, States, Verdicts, Budgets, NoOp, IdleHandler, OpKinds, HandlerPcs
<1>2. TurnRefs /\ RunningOwnsSession /\ MaintenanceInv
  BY DEF Init, TurnRefs, RunningOwnsSession, MaintenanceInv, NoOp, IdleHandler
<1>3. QueueInv
  BY GoodEmpty DEF Init, QueueInv, Pending, NoOp
<1> QED
  BY <1>1, <1>2, <1>3 DEF IInv

OpType == [kind : OpKinds, turn : Turn \cup {NoTurn},
           by : {"caller", "handler"}, queued : BOOLEAN]

(* What the operation o and the queue q of a session make pending. *)
PendingOf(o, q) == IF o.kind = "start" /\ o.queued THEN <<o.turn>> \o q ELSE q

(* An operation of session s outside maintenance that leaves a good queue
   keeps what IInv says about operations, queues and maintenance. *)
LEMMA OperationStep ==
  ASSUME IInv, NEW s \in Session, NEW o \in OpType, NEW q \in Seq(Turn),
         op' = [op EXCEPT ![s] = o], queue' = [queue EXCEPT ![s] = q],
         o.kind \in {"none", "start", "record"},
         o.kind # "none" => o.turn \in Turn /\ Home[o.turn] = s,
         GoodQueue(s, PendingOf(o, q)),
         \A r \in Session : r # s => state'[r] = state[r] /\ active'[r] = active[r],
         \A t \in Turn : Home[t] # s => exec'[t] = exec[t]
  PROVE  /\ op' \in [Session -> OpType] /\ queue' \in [Session -> Seq(Turn)]
         /\ \A r \in Session : op'[r].kind \in {"start", "record"} =>
                                 op'[r].turn \in Turn /\ Home[op'[r].turn] = r
         /\ MaintenanceInv' /\ QueueInv'
<1>1. op \in [Session -> OpType] /\ queue \in [Session -> Seq(Turn)]
  BY DEF IInv, TypeOK, OpType
<1>2. op' \in [Session -> OpType] /\ queue' \in [Session -> Seq(Turn)]
  BY <1>1
<1>3. op'[s] = o /\ queue'[s] = q
  BY <1>1
<1>4. \A r \in Session : r # s => op'[r] = op[r] /\ queue'[r] = queue[r]
  BY <1>1
<1>5. \A r \in Session : op'[r].kind \in {"start", "record"} =>
                           op'[r].turn \in Turn /\ Home[op'[r].turn] = r
  BY <1>3, <1>4 DEF IInv, TurnRefs
<1>6. MaintenanceInv'
  <2> SUFFICES ASSUME NEW r \in Session
               PROVE  /\ op'[r].kind \in {"drain", "permit"} =>
                           queue'[r] = <<>> /\ state'[r] # "Processing"
                      /\ op'[r].kind = "permit" =>
                           /\ active'[r] = NoTurn
                           /\ \A t \in Turn : Home[t] = r => exec'[t] \in {"none", "done"}
    BY DEF MaintenanceInv
  <2>1. CASE r = s
    BY <1>3, <2>1
  <2>2. CASE r # s
    BY <1>4, <2>2 DEF IInv, MaintenanceInv
  <2> QED
    BY <2>1, <2>2
<1>7. QueueInv'
  <2> SUFFICES ASSUME NEW r \in Session PROVE GoodQueue(r, Pending(r)')
    BY DEF QueueInv
  <2>1. CASE r = s
    <3>1. Pending(r)' = PendingOf(o, q)
      BY <1>3, <2>1 DEF Pending, PendingOf
    <3> QED
      BY <2>1, <3>1
  <2>2. CASE r # s
    <3>1. Pending(r)' = Pending(r)
      BY <1>4, <2>2 DEF Pending
    <3> QED
      BY <3>1 DEF IInv, QueueInv
  <2> QED
    BY <2>1, <2>2
<1> QED
  BY <1>2, <1>5, <1>6, <1>7

(* While nobody holds the lock of s, its queue is what is pending. *)
LEMMA FreeQueue == ASSUME IInv, NEW s \in Session, Free(s)
                   PROVE  GoodQueue(s, queue[s]) /\ queue[s] \in Seq(Turn)
<1>1. Pending(s) = queue[s]
  BY DEF Free, NoOp, Pending
<1> QED
  BY <1>1 DEF IInv, QueueInv, TypeOK

(* submit keeps what IInv says, the handler's part apart. *)
LEMMA SubmitLockedKeeps ==
  ASSUME IInv, NEW t \in Turn, NEW by \in {"caller", "handler"},
         SubmitLocked(Home[t], t, by)
  PROVE  /\ op' \in [Session -> OpType] /\ queue' \in [Session -> Seq(Turn)]
         /\ submitted' \subseteq Turn /\ accepted' \subseteq Turn
         /\ cancelEvents' \subseteq Turn
         /\ \A r \in Session : op'[r].kind \in {"start", "record"} =>
                                 op'[r].turn \in Turn /\ Home[op'[r].turn] = r
         /\ MaintenanceInv' /\ QueueInv'
<1> DEFINE s == Home[t]
<1>1. s \in Session
  BY SchedulerAssumption
<1>2. Free(s) /\ UNCHANGED <<state, current, active, exec>>
  BY DEF SubmitLocked
<1>3. GoodQueue(s, queue[s]) /\ queue[s] \in Seq(Turn)
  BY <1>1, <1>2, FreeQueue
<1>4. op \in [Session -> OpType] /\ queue \in [Session -> Seq(Turn)]
  BY DEF IInv, TypeOK, OpType
<1>5. submitted' \subseteq Turn
  BY DEF SubmitLocked, IInv, TypeOK
<1> DEFINE Shape(o, q) ==
             /\ op' = [op EXCEPT ![s] = o] /\ queue' = [queue EXCEPT ![s] = q]
             /\ o.kind \in {"none", "start", "record"}
             /\ o.kind # "none" => o.turn \in Turn /\ Home[o.turn] = s
             /\ GoodQueue(s, PendingOf(o, q))
             /\ accepted' \subseteq Turn /\ cancelEvents' \subseteq Turn
<1>6. \A u \in Turn, b \in BOOLEAN : StartOp(u, by, b) \in OpType
  BY DEF StartOp, OpType, OpKinds
<1>7. ASSUME SubmitStarts(s, t, by)
      PROVE  \E o \in OpType, q \in Seq(Turn) : Shape(o, q)
  <2>1. /\ op' = [op EXCEPT ![s] = StartOp(t, by, FALSE)]
        /\ queue' = [queue EXCEPT ![s] = queue[s]]
    BY <1>4, <1>7 DEF SubmitStarts, BeginStart
  <2>2. GoodQueue(s, PendingOf(StartOp(t, by, FALSE), queue[s]))
    BY <1>3 DEF PendingOf, StartOp
  <2>3. accepted' \subseteq Turn /\ cancelEvents' \subseteq Turn
    BY <1>7 DEF SubmitStarts, IInv, TypeOK
  <2>4. StartOp(t, by, FALSE).kind = "start" /\ StartOp(t, by, FALSE).turn = t
    BY DEF StartOp
  <2>7. Shape(StartOp(t, by, FALSE), queue[s])
    BY <1>3, <1>6, <2>1, <2>2, <2>3, <2>4
  <2> HIDE DEF Shape
  <2> QED
    BY <1>3, <1>6, <2>1, <2>2, <2>3, <2>4, <2>7
<1>8. ASSUME SubmitClearsAndStarts(s, t, by)
      PROVE  \E o \in OpType, q \in Seq(Turn) : Shape(o, q)
  <2>1. /\ op' = [op EXCEPT ![s] = StartOp(t, by, FALSE)]
        /\ queue' = [queue EXCEPT ![s] = <<>>]
    BY <1>8 DEF SubmitClearsAndStarts, ClearQueue, BeginStart
  <2>2. GoodQueue(s, PendingOf(StartOp(t, by, FALSE), <<>>)) /\ <<>> \in Seq(Turn)
    BY <1>1, GoodEmpty DEF PendingOf, StartOp
  <2>3. accepted' \subseteq Turn /\ cancelEvents' \subseteq Turn
    BY <1>3, <1>8 DEF SubmitClearsAndStarts, ClearQueue, IInv, TypeOK, ToSet
  <2>4. StartOp(t, by, FALSE).kind = "start" /\ StartOp(t, by, FALSE).turn = t
    BY DEF StartOp
  <2>7. Shape(StartOp(t, by, FALSE), <<>>)
    BY <1>6, <2>1, <2>2, <2>3, <2>4
  <2> HIDE DEF Shape
  <2> QED
    BY <1>6, <2>1, <2>2, <2>3, <2>4, <2>7
<1>9. ASSUME SubmitEnqueues(s, t)
      PROVE  \E o \in OpType, q \in Seq(Turn) : Shape(o, q)
  <2> DEFINE q == Enqueue(queue[s], t)
  <2>1. GoodQueue(s, q) /\ q \in Seq(Turn)
    BY <1>1, <1>3, <1>9, GoodEnqueue DEF SubmitEnqueues, Refused, GoodQueue
  <2>2. op' = [op EXCEPT ![s] = NoOp] /\ queue' = [queue EXCEPT ![s] = q]
    BY <1>2, <1>4, <1>9 DEF SubmitEnqueues, Free
  <2>3. NoOp \in OpType /\ NoOp.kind = "none"
    BY DEF NoOp, OpType, OpKinds
  <2>4. accepted' \subseteq Turn /\ cancelEvents' \subseteq Turn
    BY <1>9 DEF SubmitEnqueues, IInv, TypeOK
  <2>5. GoodQueue(s, PendingOf(NoOp, q))
    BY <2>1, <2>3 DEF PendingOf
  <2>7. Shape(NoOp, q)
    BY <2>1, <2>2, <2>3, <2>4, <2>5
  <2> HIDE DEF Shape
  <2> QED
    BY <2>1, <2>2, <2>3, <2>4, <2>5, <2>7
<1>10. ASSUME SubmitEnqueuesAndStartsNext(s, t, by)
      PROVE  \E o \in OpType, q \in Seq(Turn) : Shape(o, q)
  <2> DEFINE q == Enqueue(queue[s], t)
             o == StartOp(Head(q), by, TRUE)
  <2>1. GoodQueue(s, q) /\ q # <<>>
    BY <1>1, <1>3, <1>10, GoodEnqueue DEF SubmitEnqueuesAndStartsNext, Refused
  <2>2. /\ Head(q) \in Turn /\ Home[Head(q)] = s
        /\ Dequeue(q) \in Seq(Turn) /\ <<Head(q)>> \o Dequeue(q) = q
    BY <1>1, <2>1, GoodHead
  <2>3. op' = [op EXCEPT ![s] = o] /\ queue' = [queue EXCEPT ![s] = Dequeue(q)]
    BY <1>10 DEF SubmitEnqueuesAndStartsNext, BeginStart
  <2>4. accepted' \subseteq Turn /\ cancelEvents' \subseteq Turn
    BY <1>10 DEF SubmitEnqueuesAndStartsNext, IInv, TypeOK
  <2> HIDE DEF q
  <2>5. o \in OpType /\ o.kind = "start" /\ o.turn = Head(q) /\ o.queued = TRUE
    BY <1>6, <2>2 DEF StartOp
  <2>6. GoodQueue(s, PendingOf(o, Dequeue(q)))
    BY <2>1, <2>2, <2>5 DEF PendingOf
  <2>7. Shape(o, Dequeue(q))
    BY <2>2, <2>3, <2>4, <2>5, <2>6
  <2> HIDE DEF Shape
  <2> QED
    BY <2>2, <2>3, <2>4, <2>5, <2>6, <2>7
<1>11. ASSUME SubmitRefused(s, t)
      PROVE  \E o \in OpType, q \in Seq(Turn) : Shape(o, q)
  <2>1. UNCHANGED <<op, queue, accepted, cancelEvents>>
    BY <1>11 DEF SubmitRefused
  <2>2. op' = [op EXCEPT ![s] = NoOp] /\ queue' = [queue EXCEPT ![s] = queue[s]]
    BY <1>2, <1>4, <2>1 DEF Free
  <2>3. NoOp \in OpType /\ NoOp.kind = "none"
    BY DEF NoOp, OpType, OpKinds
  <2>4. accepted' \subseteq Turn /\ cancelEvents' \subseteq Turn
    BY <2>1 DEF IInv, TypeOK
  <2>5. GoodQueue(s, PendingOf(NoOp, queue[s]))
    BY <1>3, <2>3 DEF PendingOf
  <2>7. Shape(NoOp, queue[s])
    BY <1>3, <2>2, <2>3, <2>4, <2>5
  <2> HIDE DEF Shape
  <2> QED
    BY <1>3, <2>2, <2>3, <2>4, <2>5, <2>7
<1>12. \E o \in OpType, q \in Seq(Turn) : Shape(o, q)
  BY <1>7, <1>8, <1>9, <1>10, <1>11 DEF SubmitLocked
<1>13. PICK o \in OpType, q \in Seq(Turn) : Shape(o, q)
  BY <1>12
<1>14. /\ \A r \in Session : r # s => state'[r] = state[r] /\ active'[r] = active[r]
       /\ \A u \in Turn : Home[u] # s => exec'[u] = exec[u]
  BY <1>2
<1> HIDE DEF s
<1> QED
  BY <1>1, <1>5, <1>13, <1>14, OperationStep

(* The parts of TypeOK a submission leaves alone. *)
SubmitFrame == UNCHANGED <<state, current, active, exec, verdict, signalled, forsaken, outcomes,
                           retired, suppressed, used>>

(* A caller's submission preserves IInv. *)
LEMMA SubmitIInv == ASSUME IInv, NEW t \in Turn, Submit(t) PROVE IInv'
<1>1. SubmitLocked(Home[t], t, "caller") /\ UNCHANGED handler /\ SubmitFrame
  BY DEF Submit, SubmitLocked, SubmitFrame
<1>2. /\ op' \in [Session -> OpType] /\ queue' \in [Session -> Seq(Turn)]
      /\ submitted' \subseteq Turn /\ accepted' \subseteq Turn
      /\ cancelEvents' \subseteq Turn
      /\ \A r \in Session : op'[r].kind \in {"start", "record"} =>
                              op'[r].turn \in Turn /\ Home[op'[r].turn] = r
      /\ MaintenanceInv' /\ QueueInv'
  BY <1>1, SubmitLockedKeeps
<1>3. TypeOK'
  BY <1>1, <1>2 DEF IInv, TypeOK, SubmitFrame, OpType
<1>4. TurnRefs' /\ RunningOwnsSession'
  BY <1>1, <1>2 DEF IInv, TurnRefs, RunningOwnsSession, SubmitFrame
<1> QED
  BY <1>2, <1>3, <1>4 DEF IInv

--------------------------------------------------------------------------------
(* The handler's part of the invariant. *)
HandlerInv ==
  /\ handler \in [pc : HandlerPcs, turn : Turn \cup {NoTurn}, matched : BOOLEAN]
  /\ handler.pc # "idle" => handler.turn \in Turn
  /\ handler.pc = "reply" => ReplyTurn[handler.turn] \in Turn

(* The idle handler is in a proper state. *)
LEMMA IdleHandlerKeeps == handler' = IdleHandler => HandlerInv'
<1>1. /\ IdleHandler.pc = "idle"
      /\ IdleHandler \in [pc : HandlerPcs, turn : Turn \cup {NoTurn}, matched : BOOLEAN]
  BY DEF IdleHandler, HandlerPcs
<1> QED
  BY <1>1 DEF HandlerInv

(* The return of an operation leaves the handler in a proper state. *)
LEMMA ResumesKeeps == ASSUME IInv, NEW s \in Session, HandlerResumes(s)
                      PROVE  HandlerInv'
<1>1. HandlerInv
  BY DEF IInv, TypeOK, TurnRefs, HandlerInv
<1>2. CASE op[s].by # "handler"
  BY <1>1, <1>2 DEF HandlerResumes, HandlerInv
<1>3. CASE op[s].by = "handler" /\ handler.pc = "awaitReply"
  BY <1>1, <1>3 DEF HandlerResumes, HandlerInv, AfterReply, HandlerPcs
<1>4. CASE op[s].by = "handler" /\ handler.pc # "awaitReply"
  BY <1>4 DEF HandlerResumes, HandlerInv, IdleHandler, HandlerPcs
<1> QED
  BY <1>2, <1>3, <1>4

(* Spending a budget keeps the type of the counters. *)
LEMMA SpendKeeps == ASSUME IInv, NEW b \in Budgets, Spend(b) PROVE used' \in [Budgets -> Nat]
<1>1. used \in [Budgets -> Nat] /\ used' = [used EXCEPT ![b] = used[b] + 1]
  BY DEF IInv, TypeOK, Spend
<1> QED
  BY <1>1

(* A start that fails puts the pending queue back as it was. *)
LEMMA PutBackKeeps ==
  ASSUME IInv, NEW s \in Session, Starting(s), PutBack(s), ReleaseLock(s),
         \A r \in Session : r # s => state'[r] = state[r] /\ active'[r] = active[r],
         \A t \in Turn : Home[t] # s => exec'[t] = exec[t]
  PROVE  /\ op' \in [Session -> OpType] /\ queue' \in [Session -> Seq(Turn)]
         /\ \A r \in Session : op'[r].kind \in {"start", "record"} =>
                                 op'[r].turn \in Turn /\ Home[op'[r].turn] = r
         /\ MaintenanceInv' /\ QueueInv' /\ HandlerInv'
<1>1. HandlerInv'
  BY ResumesKeeps DEF ReleaseLock
<1>2. op \in [Session -> OpType] /\ queue \in [Session -> Seq(Turn)]
  BY DEF IInv, TypeOK, OpType
<1>3. GoodQueue(s, Pending(s))
  BY DEF IInv, QueueInv
<1> DEFINE q == Pending(s)
<1>4. q \in Seq(Turn) /\ queue' = [queue EXCEPT ![s] = q]
  BY <1>2, <1>3 DEF GoodQueue, PutBack, Pending, RequeueFront, Starting
<1>5. NoOp \in OpType /\ NoOp.kind = "none"
  BY DEF NoOp, OpType, OpKinds
<1>6. GoodQueue(s, PendingOf(NoOp, q))
  BY <1>3, <1>5 DEF PendingOf
<1>7. op' = [op EXCEPT ![s] = NoOp]
  BY DEF ReleaseLock
<1> HIDE DEF q
<1> QED
  BY <1>1, <1>4, <1>5, <1>6, <1>7, OperationStep

(* IInv is preserved by a start that fails before it touches the session. *)
LEMMA StartRejectedIInv == ASSUME IInv, NEW s \in Session, StartRejected(s) PROVE IInv'
<1>1. /\ Starting(s) /\ PutBack(s) /\ ReleaseLock(s)
      /\ UNCHANGED <<state, current, active, submitted, accepted, exec, verdict,
                     signalled, forsaken, outcomes, retired, suppressed, cancelEvents>>
  BY DEF StartRejected
<1>2. /\ op' \in [Session -> OpType] /\ queue' \in [Session -> Seq(Turn)]
      /\ \A r \in Session : op'[r].kind \in {"start", "record"} =>
                              op'[r].turn \in Turn /\ Home[op'[r].turn] = r
      /\ MaintenanceInv' /\ QueueInv' /\ HandlerInv'
  BY <1>1, PutBackKeeps
<1>3. used' \in [Budgets -> Nat]
  <2>1. CASE state[s] \in {"Missing", "Processing"}
    BY <2>1 DEF StartRejected, IInv, TypeOK
  <2>2. CASE state[s] \notin {"Missing", "Processing"}
    BY <2>2, SpendKeeps DEF StartRejected, Budgets
  <2> QED
    BY <2>1, <2>2
<1>4. TypeOK'
  BY <1>1, <1>2, <1>3 DEF IInv, TypeOK, OpType, HandlerInv
<1>5. TurnRefs' /\ RunningOwnsSession'
  BY <1>1, <1>2 DEF IInv, TurnRefs, RunningOwnsSession, HandlerInv
<1> QED
  BY <1>2, <1>4, <1>5 DEF IInv

(* IInv is preserved by a start that fails after it made the session
   Processing: no turn ran there without having been told to stop. *)
LEMMA StartSaveFailsIInv == ASSUME IInv, NEW s \in Session, StartSaveFails(s) PROVE IInv'
<1>1. /\ Starting(s) /\ PutBack(s) /\ ReleaseLock(s)
      /\ state[s] \in {"Idle", "Error"}
      /\ state' = [state EXCEPT ![s] = "Processing"]
      /\ current' = [current EXCEPT ![s] = op[s].turn]
      /\ UNCHANGED <<active, submitted, accepted, exec, verdict, signalled, forsaken, outcomes,
                     retired, suppressed, cancelEvents>>
  BY DEF StartSaveFails
<1>2. /\ op' \in [Session -> OpType] /\ queue' \in [Session -> Seq(Turn)]
      /\ \A r \in Session : op'[r].kind \in {"start", "record"} =>
                              op'[r].turn \in Turn /\ Home[op'[r].turn] = r
      /\ MaintenanceInv' /\ QueueInv' /\ HandlerInv'
  <2>1. \A r \in Session : r # s => state'[r] = state[r]
    BY <1>1 DEF IInv, TypeOK
  <2> QED
    BY <1>1, <2>1, PutBackKeeps
<1>3. used' \in [Budgets -> Nat]
  BY SpendKeeps DEF StartSaveFails, Budgets
<1>4. op[s].turn \in Turn
  BY <1>1 DEF IInv, TurnRefs, Starting
<1>5. state' \in [Session -> States] /\ current' \in [Session -> Turn \cup {NoTurn}]
  BY <1>1, <1>4 DEF IInv, TypeOK, States
<1>6. TypeOK'
  BY <1>1, <1>2, <1>3, <1>5 DEF IInv, TypeOK, OpType, HandlerInv
<1>7. \A r \in Session : state'[r] = "Processing" => current'[r] \in Turn
  BY <1>1, <1>4 DEF IInv, TypeOK, TurnRefs
<1>8. TurnRefs'
  BY <1>2, <1>7 DEF TurnRefs, HandlerInv
<1>9. RunningOwnsSession'
  BY <1>1, SchedulerAssumption DEF IInv, TypeOK, RunningOwnsSession
<1> QED
  BY <1>2, <1>6, <1>8, <1>9 DEF IInv

(* IInv is preserved when the session becomes Processing and the execution is
   spawned: the turn is of that session, and no other runs there unsignalled. *)
LEMMA StartSpawnsIInv == ASSUME IInv, NEW s \in Session, StartSpawns(s) PROVE IInv'
<1> DEFINE t == op[s].turn
           o == [op[s] EXCEPT !.kind = "record"]
<1>1. /\ op[s].kind = "start" /\ state[s] \in {"Idle", "Error"}
      /\ state' = [state EXCEPT ![s] = "Processing"]
      /\ current' = [current EXCEPT ![s] = t]
      /\ exec' = [exec EXCEPT ![t] = "running"]
      /\ UNCHANGED <<queue, active, submitted, accepted, verdict, signalled, forsaken, outcomes,
                     handler, retired, suppressed, cancelEvents, used>>
  BY DEF StartSpawns, Starting
<1>2. t \in Turn /\ Home[t] = s
  BY <1>1 DEF IInv, TurnRefs
<1>3. op[s] \in OpType /\ queue[s] \in Seq(Turn) /\ queue' = [queue EXCEPT ![s] = queue[s]]
  BY <1>1 DEF IInv, TypeOK, OpType
<1>4. op' = [op EXCEPT ![s] = o] /\ o \in OpType /\ o.kind = "record" /\ o.turn = t
  BY <1>3 DEF StartSpawns, OpType, OpKinds
<1>5. GoodQueue(s, PendingOf(o, queue[s]))
  <2>1. GoodQueue(s, Pending(s))
    BY DEF IInv, QueueInv
  <2>2. CASE op[s].queued
    <3>1. GoodQueue(s, <<t>> \o queue[s])
      BY <1>1, <2>1, <2>2 DEF Pending
    <3> QED
      BY <1>2, <1>3, <1>4, <3>1, GoodTail DEF PendingOf
  <2>3. CASE ~op[s].queued
    BY <1>4, <2>1, <2>3 DEF Pending, PendingOf
  <2> QED
    BY <2>2, <2>3
<1>6. /\ \A r \in Session : r # s => state'[r] = state[r] /\ active'[r] = active[r]
      /\ \A u \in Turn : Home[u] # s => exec'[u] = exec[u]
  BY <1>1, <1>2 DEF IInv, TypeOK
<1>7. state' \in [Session -> States] /\ current' \in [Session -> Turn \cup {NoTurn}]
  BY <1>1, <1>2 DEF IInv, TypeOK, States
<1>8. exec' \in [Turn -> {"none", "running", "closing", "reported", "done"}]
  BY <1>1, <1>2 DEF IInv, TypeOK
<1>9. \A r \in Session : state'[r] = "Processing" => current'[r] \in Turn
  BY <1>1, <1>2 DEF IInv, TypeOK, TurnRefs
<1>10. RunningOwnsSession'
  BY <1>1, <1>2, SchedulerAssumption DEF IInv, TypeOK, RunningOwnsSession
<1> HIDE DEF o, t
<1>11. /\ op' \in [Session -> OpType] /\ queue' \in [Session -> Seq(Turn)]
       /\ \A r \in Session : op'[r].kind \in {"start", "record"} =>
                               op'[r].turn \in Turn /\ Home[op'[r].turn] = r
       /\ MaintenanceInv' /\ QueueInv'
  BY <1>2, <1>3, <1>4, <1>5, <1>6, OperationStep
<1>12. TypeOK'
  BY <1>1, <1>7, <1>8, <1>11 DEF IInv, TypeOK, OpType
<1>13. TurnRefs'
  BY <1>1, <1>9, <1>11 DEF IInv, TurnRefs
<1> QED
  BY <1>10, <1>11, <1>12, <1>13 DEF IInv

(* IInv is preserved by the insertion into active_turns. *)
LEMMA StartRecordedIInv == ASSUME IInv, NEW s \in Session, StartRecorded(s) PROVE IInv'
<1>1. /\ op[s].kind = "record" /\ ReleaseLock(s)
      /\ active' = [active EXCEPT ![s] = op[s].turn]
      /\ accepted' = accepted \cup {op[s].turn}
      /\ UNCHANGED <<state, current, queue, submitted, exec, verdict, signalled, forsaken,
                     outcomes, retired, suppressed, cancelEvents, used>>
  BY DEF StartRecorded
<1>2. op[s].turn \in Turn
  BY <1>1 DEF IInv, TurnRefs
<1>3. HandlerInv'
  BY <1>1, ResumesKeeps DEF ReleaseLock
<1>4. NoOp \in OpType /\ NoOp.kind = "none" /\ op' = [op EXCEPT ![s] = NoOp]
  BY <1>1 DEF NoOp, OpType, OpKinds, ReleaseLock
<1>5. queue[s] \in Seq(Turn) /\ queue' = [queue EXCEPT ![s] = queue[s]]
  BY <1>1 DEF IInv, TypeOK
<1>6. GoodQueue(s, PendingOf(NoOp, queue[s]))
  <2>1. Pending(s) = queue[s]
    BY <1>1 DEF Pending
  <2> QED
    BY <1>4, <2>1 DEF IInv, QueueInv, PendingOf
<1>7. \A r \in Session : r # s => state'[r] = state[r] /\ active'[r] = active[r]
  BY <1>1 DEF IInv, TypeOK
<1>8. \A t \in Turn : Home[t] # s => exec'[t] = exec[t]
  BY <1>1
<1>9. /\ op' \in [Session -> OpType] /\ queue' \in [Session -> Seq(Turn)]
      /\ \A r \in Session : op'[r].kind \in {"start", "record"} =>
                              op'[r].turn \in Turn /\ Home[op'[r].turn] = r
      /\ MaintenanceInv' /\ QueueInv'
  BY <1>4, <1>5, <1>6, <1>7, <1>8, OperationStep
<1>10. active' \in [Session -> Turn \cup {NoTurn}] /\ accepted' \subseteq Turn
  BY <1>1, <1>2 DEF IInv, TypeOK
<1>11. TypeOK'
  BY <1>1, <1>3, <1>9, <1>10 DEF IInv, TypeOK, OpType, HandlerInv
<1>12. TurnRefs' /\ RunningOwnsSession'
  BY <1>1, <1>3, <1>9 DEF IInv, TurnRefs, RunningOwnsSession, HandlerInv
<1> QED
  BY <1>9, <1>11, <1>12 DEF IInv

--------------------------------------------------------------------------------
(* Leaving Processing: only the session of the turn that owns it changes. *)
LEMMA ReleaseSessionKeeps ==
  ASSUME IInv, NEW t \in Turn, NEW new \in {"Idle", "Error"}, ReleaseSession(t, new)
  PROVE  /\ state' \in [Session -> States]
         /\ current' \in [Session -> Turn \cup {NoTurn}]
         /\ \A r \in Session : state'[r] = "Processing" =>
                                 state[r] = "Processing" /\ current'[r] = current[r]
         /\ \A r \in Session : state[r] = "Processing" /\ current[r] # t =>
                                 state'[r] = "Processing" /\ current'[r] = current[r]
<1>1. CASE state[Home[t]] = "Processing" /\ current[Home[t]] = t
  <2>1. /\ state' = [state EXCEPT ![Home[t]] = new]
        /\ current' = [current EXCEPT ![Home[t]] = NoTurn]
    BY <1>1 DEF ReleaseSession
  <2>2. /\ state \in [Session -> States] /\ current \in [Session -> Turn \cup {NoTurn}]
        /\ new \in States /\ new # "Processing"
    BY DEF IInv, TypeOK, States
  <2> QED
    BY <1>1, <2>1, <2>2
<1>2. CASE ~(state[Home[t]] = "Processing" /\ current[Home[t]] = t)
  BY <1>2 DEF ReleaseSession, IInv, TypeOK
<1> QED
  BY <1>1, <1>2

(* A step of an execution task that is not its start keeps what IInv says
   about ownership, maintenance and queues: no permit is out while the task
   has not ended, and it never takes a session from another turn. *)
LEMMA ExecutionStep ==
  ASSUME IInv, NEW t \in Turn, exec[t] \in {"running", "closing", "reported"},
         NEW x \in {"closing", "reported", "done"}, exec' = [exec EXCEPT ![t] = x],
         UNCHANGED <<queue, active, op, signalled, forsaken, handler>>,
         \A r \in Session : state'[r] = "Processing" =>
                              state[r] = "Processing" /\ current'[r] = current[r],
         \A r \in Session : state[r] = "Processing" /\ current[r] # t =>
                              state'[r] = "Processing" /\ current'[r] = current[r]
  PROVE  TurnRefs' /\ RunningOwnsSession' /\ MaintenanceInv' /\ QueueInv'
<1>1. TurnRefs'
  BY DEF IInv, TurnRefs
<1>2. exec'[t] = x /\ \A u \in Turn : u # t => exec'[u] = exec[u]
  BY DEF IInv, TypeOK
<1>3. RunningOwnsSession'
  BY <1>2, SchedulerAssumption DEF IInv, RunningOwnsSession
<1>4. MaintenanceInv'
  BY <1>2 DEF IInv, MaintenanceInv
<1>5. QueueInv'
  BY DEF IInv, QueueInv, Pending
<1> QED
  BY <1>1, <1>3, <1>4, <1>5

(* IInv is preserved by the end of an execution. *)
LEMMA FinishIInv == ASSUME IInv, NEW t \in Turn, NEW v \in Verdicts, Finish(t, v) PROVE IInv'
<1>1. /\ exec[t] = "running" /\ exec' = [exec EXCEPT ![t] = "closing"]
      /\ verdict' = [verdict EXCEPT ![t] = v]
      /\ ReleaseSession(t, IF v = "Failed" THEN "Error" ELSE "Idle")
      /\ UNCHANGED <<queue, active, op, submitted, accepted, signalled, forsaken, outcomes,
                     handler, retired, suppressed, cancelEvents, used>>
  BY DEF Finish
<1>2. /\ state' \in [Session -> States]
      /\ current' \in [Session -> Turn \cup {NoTurn}]
      /\ \A r \in Session : state'[r] = "Processing" =>
                              state[r] = "Processing" /\ current'[r] = current[r]
      /\ \A r \in Session : state[r] = "Processing" /\ current[r] # t =>
                              state'[r] = "Processing" /\ current'[r] = current[r]
  BY <1>1, ReleaseSessionKeeps
<1>3. TypeOK'
  BY <1>1, <1>2 DEF IInv, TypeOK
<1>4. TurnRefs' /\ RunningOwnsSession' /\ MaintenanceInv' /\ QueueInv'
  BY <1>1, <1>2, ExecutionStep
<1> QED
  BY <1>3, <1>4 DEF IInv

(* IInv is preserved by the report of an outcome. *)
LEMMA ReportIInv == ASSUME IInv, NEW t \in Turn, Report(t) PROVE IInv'
<1>1. /\ exec[t] = "closing" /\ exec' = [exec EXCEPT ![t] = "reported"]
      /\ Send(t)
      /\ UNCHANGED <<state, current, queue, active, op, submitted, accepted, verdict,
                     signalled, forsaken, handler, retired, suppressed, cancelEvents, used>>
  BY DEF Report
<1>2. outcomes' \in Seq(Turn)
  BY <1>1 DEF Send, IInv, TypeOK
<1>3. TypeOK'
  BY <1>1, <1>2 DEF IInv, TypeOK
<1>4. TurnRefs' /\ RunningOwnsSession' /\ MaintenanceInv' /\ QueueInv'
  BY <1>1, ExecutionStep
<1> QED
  BY <1>3, <1>4 DEF IInv

(* IInv is preserved by the end of an execution task, also by a panic. *)
LEMMA TaskEndsIInv == ASSUME IInv, NEW t \in Turn, Drain(t) \/ Panic(t) PROVE IInv'
<1>1. /\ exec[t] \in {"running", "reported"} /\ exec' = [exec EXCEPT ![t] = "done"]
      /\ ReleaseSession(t, "Idle")
      /\ UNCHANGED <<queue, active, op, submitted, accepted, verdict, signalled, forsaken, outcomes,
                     handler, retired, suppressed, cancelEvents>>
  BY DEF Drain, Panic
<1>2. /\ state' \in [Session -> States]
      /\ current' \in [Session -> Turn \cup {NoTurn}]
      /\ \A r \in Session : state'[r] = "Processing" =>
                              state[r] = "Processing" /\ current'[r] = current[r]
      /\ \A r \in Session : state[r] = "Processing" /\ current[r] # t =>
                              state'[r] = "Processing" /\ current'[r] = current[r]
  BY <1>1, ReleaseSessionKeeps
<1>3. used' \in [Budgets -> Nat]
  <2>1. CASE Drain(t)
    BY <2>1 DEF Drain, IInv, TypeOK
  <2>2. CASE Panic(t)
    BY <2>2, SpendKeeps DEF Panic, Budgets
  <2> QED
    BY <2>1, <2>2
<1>4. TypeOK'
  BY <1>1, <1>2, <1>3 DEF IInv, TypeOK
<1>5. TurnRefs' /\ RunningOwnsSession' /\ MaintenanceInv' /\ QueueInv'
  BY <1>1, <1>2, ExecutionStep
<1> QED
  BY <1>4, <1>5 DEF IInv

--------------------------------------------------------------------------------
(* IInv is preserved when the handler receives an outcome. *)
LEMMA ReceiveIInv == ASSUME IInv, HandlerReceive PROVE IInv'
<1>1. /\ outcomes # <<>> /\ outcomes' = Tail(outcomes)
      /\ handler' = [pc |-> "take", turn |-> Head(outcomes), matched |-> FALSE]
      /\ UNCHANGED <<state, current, queue, active, op, submitted, accepted, exec, verdict,
                     signalled, forsaken, retired, suppressed, cancelEvents, used>>
  BY DEF HandlerReceive
<1>2. Head(outcomes) \in Turn /\ outcomes' \in Seq(Turn)
  BY <1>1 DEF IInv, TypeOK
<1>3. HandlerInv'
  BY <1>1, <1>2 DEF HandlerInv, HandlerPcs
<1>4. TypeOK'
  BY <1>1, <1>2, <1>3 DEF IInv, TypeOK, HandlerInv
<1>5. TurnRefs' /\ RunningOwnsSession' /\ MaintenanceInv'
  BY <1>1, <1>3 DEF IInv, TurnRefs, RunningOwnsSession, MaintenanceInv, HandlerInv
<1>6. QueueInv'
  BY <1>1 DEF IInv, QueueInv, Pending
<1> QED
  BY <1>4, <1>5, <1>6 DEF IInv

(* IInv is preserved when the handler matches an outcome with the active turn
   under the lock: it may clear the queue of a session nobody operates on. *)
LEMMA TakeIInv == ASSUME IInv, HandlerTake PROVE IInv'
<1>1. PICK t \in Turn : TakeRetired(t) \/ TakeStale(t) \/ TakeCurrent(t)
  BY DEF HandlerTake
<1>2. UNCHANGED <<state, current, op, submitted, accepted, exec, verdict, signalled, forsaken,
                  outcomes, used>>
  BY DEF HandlerTake
<1> DEFINE s == Home[t]
<1>3. s \in Session /\ Free(s)
  BY <1>1, SchedulerAssumption DEF TakeRetired, TakeStale, TakeCurrent, AtTake
<1>4. HandlerInv'
  <2>1. CASE TakeRetired(t) \/ TakeStale(t)
    BY <2>1, IdleHandlerKeeps DEF TakeRetired, TakeStale
  <2>2. CASE TakeCurrent(t)
    <3>1. handler' = [handler EXCEPT !.pc = "settle", !.matched = (active[s] = t)]
      BY <2>2 DEF TakeCurrent
    <3>2. handler \in [pc : HandlerPcs, turn : Turn \cup {NoTurn}, matched : BOOLEAN]
      BY DEF IInv, TypeOK
    <3>3. handler.turn \in Turn /\ (active[s] = t) \in BOOLEAN
      BY <2>2 DEF TakeCurrent, AtTake
    <3>4. /\ handler'.pc = "settle" /\ handler'.turn = handler.turn
          /\ handler' \in [pc : HandlerPcs, turn : Turn \cup {NoTurn}, matched : BOOLEAN]
      <4> DEFINE m == active[s] = t
      <4>1. m \in BOOLEAN /\ handler' = [handler EXCEPT !.pc = "settle", !.matched = m]
        BY <3>1
      <4> HIDE DEF m
      <4> QED
        BY <3>2, <4>1 DEF HandlerPcs
    <3> QED
      BY <3>3, <3>4 DEF HandlerInv
  <2> QED
    BY <1>1, <2>1, <2>2
<1>5. active' \in [Session -> Turn \cup {NoTurn}] /\ \A r \in Session : r # s => active'[r] = active[r]
  <2>1. CASE TakeRetired(t) \/ TakeStale(t)
    BY <2>1 DEF TakeRetired, TakeStale, IInv, TypeOK
  <2>2. CASE TakeCurrent(t)
    BY <1>3, <2>2 DEF TakeCurrent, IInv, TypeOK
  <2> QED
    BY <1>1, <2>1, <2>2
<1>6. retired' \subseteq Turn /\ suppressed' \subseteq Turn
  BY <1>1 DEF TakeRetired, TakeStale, TakeCurrent, TakeMark, IInv, TypeOK
<1>7. GoodQueue(s, queue[s]) /\ queue[s] \in Seq(Turn)
  BY <1>3, FreeQueue
<1>8. cancelEvents' \subseteq Turn
  BY <1>1, <1>3, <1>7 DEF TakeRetired, TakeStale, TakeCurrent, ClearQueue, ToSet, IInv, TypeOK
<1>9. PICK q \in {queue[s], <<>>} : queue' = [queue EXCEPT ![s] = q]
  <2>1. queue = [queue EXCEPT ![s] = queue[s]]
    BY <1>3 DEF IInv, TypeOK
  <2> QED
    BY <1>1, <2>1 DEF TakeRetired, TakeStale, TakeCurrent, ClearQueue
<1>10. NoOp \in OpType /\ NoOp.kind = "none"
  BY DEF NoOp, OpType, OpKinds
<1>11. GoodQueue(s, PendingOf(NoOp, q)) /\ q \in Seq(Turn)
  <2>1. PendingOf(NoOp, q) = q
    BY <1>10 DEF PendingOf
  <2>2. CASE q = queue[s]
    BY <1>7, <2>1, <2>2
  <2>3. CASE q = <<>>
    <3>1. GoodQueue(s, <<>>) /\ <<>> \in Seq(Turn)
      BY <1>3, GoodEmpty
    <3> QED
      BY <2>1, <2>3, <3>1
  <2> QED
    BY <1>9, <2>2, <2>3
<1>12. op' = [op EXCEPT ![s] = NoOp]
  <2>1. op' = op /\ op[s] = NoOp /\ s \in Session
    BY <1>2, <1>3 DEF Free
  <2>2. op \in [Session -> OpType]
    BY DEF IInv, TypeOK, OpType
  <2> HIDE DEF s
  <2> QED
    BY <2>1, <2>2
<1>13. /\ \A r \in Session : r # s => state'[r] = state[r] /\ active'[r] = active[r]
       /\ \A u \in Turn : Home[u] # s => exec'[u] = exec[u]
  BY <1>2, <1>5
<1> HIDE DEF s
<1>14. /\ op' \in [Session -> OpType] /\ queue' \in [Session -> Seq(Turn)]
       /\ MaintenanceInv' /\ QueueInv'
  BY <1>3, <1>9, <1>10, <1>11, <1>12, <1>13, OperationStep
<1>15. TypeOK'
  BY <1>2, <1>4, <1>5, <1>6, <1>8, <1>14 DEF IInv, TypeOK, OpType, HandlerInv
<1>16. TurnRefs' /\ RunningOwnsSession'
  BY <1>2, <1>4 DEF IInv, TurnRefs, RunningOwnsSession, HandlerInv
<1> QED
  BY <1>14, <1>15, <1>16 DEF IInv

(* What the handler does after the reply leaves it in a proper state. *)
LEMMA AfterReplyKeeps ==
  ASSUME IInv, handler.turn \in Turn, handler' = AfterReply PROVE HandlerInv'
BY DEF IInv, TypeOK, HandlerInv, AfterReply, HandlerPcs

(* IInv is preserved when the handler decides about the reply. *)
LEMMA SettleIInv == ASSUME IInv, HandlerSettle PROVE IInv'
<1>1. UNCHANGED <<state, current, queue, active, op, submitted, accepted, exec, verdict,
                  signalled, forsaken, outcomes, retired, cancelEvents, used>>
  BY DEF HandlerSettle
<1>2. handler.turn \in Turn
  BY DEF HandlerSettle, IInv, TurnRefs
<1>3. HandlerInv'
  <2>1. CASE handler' = AfterReply
    BY <1>2, <2>1, AfterReplyKeeps
  <2>2. CASE handler' # AfterReply
    <3>1. ReplyTurn[handler.turn] # NoTurn /\ handler' = [handler EXCEPT !.pc = "reply"]
      BY <2>2 DEF HandlerSettle
    <3>2. ReplyTurn[handler.turn] \in Turn
      BY <1>2, <3>1, SchedulerAssumption
    <3> QED
      BY <1>2, <3>1, <3>2 DEF IInv, TypeOK, HandlerInv, HandlerPcs
  <2> QED
    BY <2>1, <2>2
<1>4. suppressed' \subseteq Turn
  BY DEF HandlerSettle, TakeMark, IInv, TypeOK
<1>5. TypeOK'
  BY <1>1, <1>3, <1>4 DEF IInv, TypeOK, HandlerInv
<1>6. TurnRefs' /\ RunningOwnsSession' /\ MaintenanceInv'
  BY <1>1, <1>3 DEF IInv, TurnRefs, RunningOwnsSession, MaintenanceInv, HandlerInv
<1>7. QueueInv'
  BY <1>1 DEF IInv, QueueInv, Pending
<1> QED
  BY <1>5, <1>6, <1>7 DEF IInv

(* IInv is preserved when the handler submits the reply. *)
LEMMA ForwardsIInv == ASSUME IInv, HandlerForwards PROVE IInv'
<1> DEFINE r == ReplyTurn[handler.turn]
<1>1. r \in Turn /\ handler.turn \in Turn
  BY DEF HandlerForwards, IInv, TurnRefs
<1>2. SubmitLocked(Home[r], r, "handler")
  BY DEF HandlerForwards
<1>3. SubmitFrame
  BY <1>2 DEF SubmitLocked, SubmitFrame
<1>4. /\ op' \in [Session -> OpType] /\ queue' \in [Session -> Seq(Turn)]
      /\ submitted' \subseteq Turn /\ accepted' \subseteq Turn
      /\ cancelEvents' \subseteq Turn
      /\ \A s \in Session : op'[s].kind \in {"start", "record"} =>
                              op'[s].turn \in Turn /\ Home[op'[s].turn] = s
      /\ MaintenanceInv' /\ QueueInv'
  BY <1>1, <1>2, SubmitLockedKeeps
<1>5. HandlerInv'
  <2>1. CASE handler' = AfterReply
    BY <1>1, <2>1, AfterReplyKeeps
  <2>2. CASE handler' # AfterReply
    <3>1. handler' = [handler EXCEPT !.pc = "awaitReply"]
      BY <2>2 DEF HandlerForwards
    <3> QED
      BY <1>1, <3>1 DEF IInv, TypeOK, HandlerInv, HandlerPcs
  <2> QED
    BY <2>1, <2>2
<1>6. TypeOK'
  BY <1>3, <1>4, <1>5 DEF IInv, TypeOK, SubmitFrame, OpType, HandlerInv
<1>7. TurnRefs' /\ RunningOwnsSession'
  BY <1>3, <1>4, <1>5 DEF IInv, TurnRefs, RunningOwnsSession, SubmitFrame, HandlerInv
<1> QED
  BY <1>4, <1>6, <1>7 DEF IInv

(* IInv is preserved when the handler dispatches the next queued turn. *)
LEMMA DispatchesIInv == ASSUME IInv, HandlerDispatches PROVE IInv'
<1> DEFINE s == Home[handler.turn]
<1>1. handler.turn \in Turn /\ s \in Session /\ Free(s)
  BY SchedulerAssumption DEF HandlerDispatches, IInv, TurnRefs
<1>2. UNCHANGED <<state, current, active, submitted, accepted, exec, verdict, signalled, forsaken,
                  outcomes, retired, suppressed, cancelEvents, used>>
  BY DEF HandlerDispatches
<1>3. CASE handler' = IdleHandler /\ UNCHANGED <<queue, op>>
  <2>1. HandlerInv'
    BY <1>3, IdleHandlerKeeps
  <2>2. TypeOK'
    BY <1>2, <1>3, <2>1 DEF IInv, TypeOK, HandlerInv
  <2>3. TurnRefs' /\ RunningOwnsSession' /\ MaintenanceInv'
    BY <1>2, <1>3, <2>1 DEF IInv, TurnRefs, RunningOwnsSession, MaintenanceInv, HandlerInv
  <2>4. QueueInv'
    BY <1>3 DEF IInv, QueueInv, Pending
  <2> QED
    BY <2>2, <2>3, <2>4 DEF IInv
<1>4. CASE /\ queue[s] # <<>>
           /\ queue' = [queue EXCEPT ![s] = Dequeue(queue[s])]
           /\ BeginStart(s, Head(queue[s]), "handler", TRUE)
           /\ handler' = [handler EXCEPT !.pc = "awaitStart"]
  <2> DEFINE q == Dequeue(queue[s])
             o == StartOp(Head(queue[s]), "handler", TRUE)
  <2>1. GoodQueue(s, queue[s])
    BY <1>1, FreeQueue
  <2>2. /\ Head(queue[s]) \in Turn /\ Home[Head(queue[s])] = s
        /\ q \in Seq(Turn) /\ <<Head(queue[s])>> \o q = queue[s]
    BY <1>1, <1>4, <2>1, GoodHead
  <2>3. o \in OpType /\ o.kind = "start" /\ o.turn = Head(queue[s]) /\ o.queued = TRUE
    BY <2>2 DEF StartOp, OpType, OpKinds
  <2>4. op' = [op EXCEPT ![s] = o] /\ queue' = [queue EXCEPT ![s] = q]
    BY <1>4 DEF BeginStart
  <2>5. /\ \A r \in Session : r # s => state'[r] = state[r] /\ active'[r] = active[r]
        /\ \A u \in Turn : Home[u] # s => exec'[u] = exec[u]
    BY <1>2
  <2>6. HandlerInv'
    BY <1>1, <1>4 DEF IInv, TypeOK, HandlerInv, HandlerPcs
  <2> HIDE DEF o, q, s
  <2>7. GoodQueue(s, PendingOf(o, q))
    BY <2>1, <2>2, <2>3 DEF PendingOf
  <2>8. /\ op' \in [Session -> OpType] /\ queue' \in [Session -> Seq(Turn)]
        /\ \A r \in Session : op'[r].kind \in {"start", "record"} =>
                                op'[r].turn \in Turn /\ Home[op'[r].turn] = r
        /\ MaintenanceInv' /\ QueueInv'
    BY <1>1, <2>2, <2>3, <2>4, <2>5, <2>7, OperationStep
  <2>9. TypeOK'
    BY <1>2, <2>6, <2>8 DEF IInv, TypeOK, OpType, HandlerInv
  <2>10. TurnRefs' /\ RunningOwnsSession'
    BY <1>2, <2>6, <2>8 DEF IInv, TurnRefs, RunningOwnsSession, HandlerInv
  <2> QED
    BY <2>8, <2>9, <2>10 DEF IInv
<1> QED
  BY <1>3, <1>4 DEF HandlerDispatches

--------------------------------------------------------------------------------
(* A cancellation takes the session only from the turn it tells to stop. *)
LEMMA SignalCancelKeeps ==
  ASSUME IInv, NEW s \in Session, NEW t \in Turn, SignalCancel(s, t), UNCHANGED exec
  PROVE  /\ state' \in [Session -> States]
         /\ current' \in [Session -> Turn \cup {NoTurn}]
         /\ signalled' \subseteq Turn /\ forsaken' \subseteq Turn
         /\ \A r \in Session : state'[r] = "Processing" =>
                                 state[r] = "Processing" /\ current'[r] = current[r]
         /\ state[s] = "Processing" /\ current[s] = t => state'[s] # "Processing"
         /\ RunningOwnsSession'
<1>1. /\ signalled' = IF exec[t] = "running" THEN signalled \cup {t} ELSE signalled
      /\ UNCHANGED forsaken
  BY DEF SignalCancel
<1>2. signalled' \subseteq Turn /\ forsaken' \subseteq Turn
  BY <1>1 DEF IInv, TypeOK
<1>3. CASE state[s] = "Processing" /\ current[s] = t
  <2>1. /\ state' = [state EXCEPT ![s] = "Idle"]
        /\ current' = [current EXCEPT ![s] = NoTurn]
    BY <1>3 DEF SignalCancel
  <2>2. state' \in [Session -> States] /\ current' \in [Session -> Turn \cup {NoTurn}]
    BY <2>1 DEF IInv, TypeOK, States
  <2>3. /\ state'[s] = "Idle"
        /\ \A r \in Session : r # s => state'[r] = state[r] /\ current'[r] = current[r]
    BY <2>1 DEF IInv, TypeOK
  <2>4. RunningOwnsSession'
    BY <1>1, <1>3, <2>3, SchedulerAssumption DEF IInv, RunningOwnsSession
  <2> QED
    BY <1>2, <1>3, <2>2, <2>3, <2>4
<1>4. CASE ~(state[s] = "Processing" /\ current[s] = t)
  <2>1. UNCHANGED <<state, current>>
    BY <1>4 DEF SignalCancel
  <2> QED
    BY <1>1, <1>2, <1>4, <2>1 DEF IInv, TypeOK, RunningOwnsSession
<1> QED
  BY <1>3, <1>4

(* IInv is preserved when a queued turn is cancelled. *)
LEMMA CancelQueuedIInv == ASSUME IInv, NEW t \in Turn, CancelQueued(t) PROVE IInv'
<1> DEFINE s == Home[t]
           q == RemoveTurn(queue[s], t)
<1>1. s \in Session /\ Free(s)
  BY SchedulerAssumption DEF CancelQueued
<1>2. UNCHANGED <<state, current, active, op, submitted, accepted, exec, verdict, outcomes,
                  signalled, forsaken, handler, retired, suppressed>>
  BY DEF CancelQueued
<1>3. cancelEvents' \subseteq Turn /\ used' \in [Budgets -> Nat]
  BY SpendKeeps DEF CancelQueued, Budgets, IInv, TypeOK
<1>4. GoodQueue(s, q) /\ q \in Seq(Turn)
  BY <1>1, FreeQueue, GoodRemove DEF GoodQueue
<1>5. queue' = [queue EXCEPT ![s] = q]
  BY DEF CancelQueued
<1>6. NoOp \in OpType /\ NoOp.kind = "none"
  BY DEF NoOp, OpType, OpKinds
<1> HIDE DEF s, q
<1>7. op' = [op EXCEPT ![s] = NoOp]
  <2>1. op' = op /\ op[s] = NoOp /\ s \in Session /\ op \in [Session -> OpType]
    BY <1>1, <1>2 DEF Free, IInv, TypeOK, OpType
  <2> QED
    BY <2>1
<1>8. GoodQueue(s, PendingOf(NoOp, q))
  BY <1>4, <1>6 DEF PendingOf
<1>9. /\ op' \in [Session -> OpType] /\ queue' \in [Session -> Seq(Turn)]
      /\ MaintenanceInv' /\ QueueInv'
  BY <1>1, <1>2, <1>4, <1>5, <1>6, <1>7, <1>8, OperationStep
<1>10. TypeOK'
  BY <1>2, <1>3, <1>9 DEF IInv, TypeOK, OpType
<1>11. TurnRefs' /\ RunningOwnsSession'
  BY <1>2 DEF IInv, TurnRefs, RunningOwnsSession
<1> QED
  BY <1>9, <1>10, <1>11 DEF IInv

(* IInv is preserved when the active turn is cancelled by its id. *)
LEMMA CancelActiveIInv == ASSUME IInv, NEW t \in Turn, CancelActive(t) PROVE IInv'
<1>1. /\ Home[t] \in Session /\ SignalCancel(Home[t], t)
      /\ UNCHANGED <<queue, active, op, submitted, accepted, exec, verdict, outcomes,
                     handler, retired, suppressed, cancelEvents>>
  BY SchedulerAssumption DEF CancelActive
<1>2. used' \in [Budgets -> Nat]
  BY SpendKeeps DEF CancelActive, Budgets
<1>3. /\ state' \in [Session -> States]
      /\ current' \in [Session -> Turn \cup {NoTurn}]
      /\ signalled' \subseteq Turn /\ forsaken' \subseteq Turn
      /\ \A r \in Session : state'[r] = "Processing" =>
                              state[r] = "Processing" /\ current'[r] = current[r]
      /\ RunningOwnsSession'
  BY <1>1, SignalCancelKeeps
<1>4. TypeOK'
  BY <1>1, <1>2, <1>3 DEF IInv, TypeOK
<1>5. TurnRefs' /\ MaintenanceInv'
  BY <1>1, <1>3 DEF IInv, TurnRefs, MaintenanceInv
<1>6. QueueInv'
  BY <1>1 DEF IInv, QueueInv, Pending
<1> QED
  BY <1>3, <1>4, <1>5, <1>6 DEF IInv

(* IInv is preserved when whatever turn the session runs is cancelled. *)
LEMMA CancelSessionIInv ==
  ASSUME IInv, NEW s \in Session, NEW r \in Session, NEW timedOut \in BOOLEAN,
         CancelSession(s, r, timedOut)
  PROVE  IInv'
<1>1. UNCHANGED <<queue, active, op, submitted, accepted, exec, verdict, outcomes,
                  handler, retired, cancelEvents>>
  BY DEF CancelSession
<1>2. used' \in [Budgets -> Nat]
  BY SpendKeeps DEF CancelSession, Budgets
<1>3. suppressed' \subseteq Turn
  BY DEF CancelSession, SuppressionKey, IInv, TypeOK
<1>4. /\ state' \in [Session -> States]
      /\ current' \in [Session -> Turn \cup {NoTurn}]
      /\ signalled' \subseteq Turn /\ forsaken' \subseteq Turn
      /\ \A x \in Session : state'[x] = "Processing" =>
                              state[x] = "Processing" /\ current'[x] = current[x]
      /\ RunningOwnsSession'
  <2>1. CASE state[s] = "Processing"
    <3>1. current[s] \in Turn /\ SignalCancel(s, current[s])
      BY <2>1 DEF CancelSession, IInv, TurnRefs
    <3> QED
      BY <1>1, <3>1, SignalCancelKeeps
  <2>2. CASE state[s] # "Processing"
    BY <1>1, <2>2 DEF CancelSession, IInv, TypeOK, RunningOwnsSession
  <2> QED
    BY <2>1, <2>2
<1>5. TypeOK'
  BY <1>1, <1>2, <1>3, <1>4 DEF IInv, TypeOK
<1>6. TurnRefs' /\ MaintenanceInv'
  BY <1>1, <1>4 DEF IInv, TurnRefs, MaintenanceInv
<1>7. QueueInv'
  BY <1>1 DEF IInv, QueueInv, Pending
<1> QED
  BY <1>4, <1>5, <1>6, <1>7 DEF IInv

(* IInv is preserved when a cancellation fails halfway. *)
LEMMA CancelFailsIInv == ASSUME IInv, NEW s \in Session, CancelFails(s) PROVE IInv'
<1>1. /\ UNCHANGED <<active, op, submitted, accepted, exec, verdict, signalled, outcomes,
                     handler, retired>>
      /\ Free(s) /\ state[s] = "Processing"
      /\ state' = [state EXCEPT ![s] = "Idle"]
      /\ current' = [current EXCEPT ![s] = NoTurn]
      /\ forsaken' = forsaken \cup {t \in {current[s]} : exec[t] = "running"}
  BY DEF CancelFails, CancelUnsaved
<1>2. used' \in [Budgets -> Nat] /\ suppressed' \subseteq Turn
  BY SpendKeeps DEF CancelFails, ClearQueue, Budgets, IInv, TypeOK
<1>3. cancelEvents' \subseteq Turn
  <2>1. queue[s] \in Seq(Turn)
    BY DEF IInv, TypeOK
  <2>2. ToSet(queue[s]) \subseteq Turn
    BY <2>1 DEF ToSet
  <2> QED
    BY <2>2 DEF CancelFails, ClearQueue, IInv, TypeOK
<1>4. /\ queue' \in [Session -> Seq(Turn)]
      /\ \A r \in Session : queue'[r] = queue[r] \/ (r = s /\ queue'[r] = <<>>)
  <2>1. queue \in [Session -> Seq(Turn)] /\ <<>> \in Seq(Turn)
    BY DEF IInv, TypeOK
  <2>2. queue' = queue \/ queue' = [queue EXCEPT ![s] = <<>>]
    BY DEF CancelFails, ClearQueue
  <2> QED
    BY <2>1, <2>2
<1>5. current[s] \in Turn
  BY <1>1 DEF IInv, TurnRefs
<1>6. /\ state' \in [Session -> States] /\ state'[s] = "Idle"
      /\ current' \in [Session -> Turn \cup {NoTurn}]
      /\ \A r \in Session : r # s => state'[r] = state[r] /\ current'[r] = current[r]
      /\ forsaken' \subseteq Turn
  BY <1>1, <1>5 DEF IInv, TypeOK, States
<1>7. TypeOK'
  BY <1>1, <1>2, <1>3, <1>4, <1>6 DEF IInv, TypeOK
<1>8. TurnRefs'
  BY <1>1, <1>6 DEF IInv, TurnRefs
<1>9. MaintenanceInv'
  BY <1>1, <1>4, <1>6 DEF IInv, MaintenanceInv
<1>10. RunningOwnsSession'
  BY <1>1, <1>6, SchedulerAssumption DEF IInv, RunningOwnsSession
<1>11. QueueInv'
  <2> SUFFICES ASSUME NEW r \in Session PROVE GoodQueue(r, Pending(r)')
    BY DEF QueueInv
  <2>1. CASE r = s
    <3>1. Pending(r)' = queue'[s] /\ Pending(r) = queue[s]
      BY <1>1, <2>1 DEF Pending, Free, NoOp
    <3> QED
      BY <1>4, <2>1, <3>1, GoodEmpty DEF IInv, QueueInv
  <2>2. CASE r # s
    <3>1. Pending(r)' = Pending(r)
      BY <1>1, <1>4, <2>2 DEF Pending
    <3> QED
      BY <3>1 DEF IInv, QueueInv
  <2> QED
    BY <2>1, <2>2
<1> QED
  BY <1>7, <1>8, <1>9, <1>10, <1>11 DEF IInv

--------------------------------------------------------------------------------
(* IInv is preserved when maintenance takes the lock, clears the queue and
   cancels the turn of the session. *)
LEMMA BeginsIInv == ASSUME IInv, NEW s \in Session, MaintenanceBegins(s) PROVE IInv'
<1> DEFINE o == [NoOp EXCEPT !.kind = "drain"]
<1>1. UNCHANGED <<active, submitted, accepted, exec, verdict, outcomes, handler, retired,
                  suppressed>>
  BY DEF MaintenanceBegins
<1>2. used' \in [Budgets -> Nat] /\ cancelEvents' \subseteq Turn
  <2>1. queue[s] \in Seq(Turn)
    BY DEF IInv, TypeOK
  <2>2. ToSet(queue[s]) \subseteq Turn
    BY <2>1 DEF ToSet
  <2> QED
    BY <2>2, SpendKeeps DEF MaintenanceBegins, ClearQueue, Budgets, IInv, TypeOK
<1>3. o \in OpType /\ o.kind = "drain"
  BY DEF NoOp, OpType, OpKinds
<1> HIDE DEF o
<1>4. /\ queue' = [queue EXCEPT ![s] = <<>>] /\ op' = [op EXCEPT ![s] = o]
      /\ op \in [Session -> OpType] /\ queue \in [Session -> Seq(Turn)]
  BY DEF MaintenanceBegins, ClearQueue, IInv, TypeOK, OpType, o
<1>5. /\ op'[s] = o /\ queue'[s] = <<>>
      /\ \A r \in Session : r # s => op'[r] = op[r] /\ queue'[r] = queue[r]
      /\ op' \in [Session -> OpType] /\ queue' \in [Session -> Seq(Turn)]
  <2>1. <<>> \in Seq(Turn)
    OBVIOUS
  <2> QED
    BY <1>3, <1>4, <2>1
<1>6. /\ state' \in [Session -> States]
      /\ current' \in [Session -> Turn \cup {NoTurn}]
      /\ signalled' \subseteq Turn /\ forsaken' \subseteq Turn
      /\ \A x \in Session : state'[x] = "Processing" =>
                              state[x] = "Processing" /\ current'[x] = current[x]
      /\ state'[s] # "Processing"
      /\ RunningOwnsSession'
  <2>1. CASE state[s] = "Processing"
    <3>1. current[s] \in Turn /\ SignalCancel(s, current[s])
      BY <2>1 DEF MaintenanceBegins, IInv, TurnRefs
    <3> QED
      BY <1>1, <2>1, <3>1, SignalCancelKeeps
  <2>2. CASE state[s] # "Processing"
    BY <1>1, <2>2 DEF MaintenanceBegins, IInv, TypeOK, RunningOwnsSession
  <2> QED
    BY <2>1, <2>2
<1>7. TypeOK'
  BY <1>1, <1>2, <1>5, <1>6 DEF IInv, TypeOK, OpType
<1>8. TurnRefs'
  BY <1>1, <1>3, <1>5, <1>6 DEF IInv, TurnRefs
<1>9. MaintenanceInv'
  <2> SUFFICES ASSUME NEW r \in Session
               PROVE  /\ op'[r].kind \in {"drain", "permit"} =>
                           queue'[r] = <<>> /\ state'[r] # "Processing"
                      /\ op'[r].kind = "permit" =>
                           /\ active[r] = NoTurn
                           /\ \A t \in Turn : Home[t] = r => exec[t] \in {"none", "done"}
    BY <1>1 DEF MaintenanceInv
  <2>1. CASE r = s
    BY <1>3, <1>5, <1>6, <2>1
  <2>2. CASE r # s
    BY <1>5, <1>6, <2>2 DEF IInv, MaintenanceInv
  <2> QED
    BY <2>1, <2>2
<1>10. QueueInv'
  <2> SUFFICES ASSUME NEW r \in Session PROVE GoodQueue(r, Pending(r)')
    BY DEF QueueInv
  <2>1. CASE r = s
    BY <1>3, <1>5, <2>1, GoodEmpty DEF Pending
  <2>2. CASE r # s
    BY <1>5, <2>2 DEF IInv, QueueInv, Pending
  <2> QED
    BY <2>1, <2>2
<1> QED
  BY <1>6, <1>7, <1>8, <1>9, <1>10 DEF IInv

(* A step that changes the stage of the lock holder of s from one that starts
   nothing to another keeps types, references and pending queues. *)
LEMMA StageStep ==
  ASSUME IInv, NEW s \in Session, NEW o \in OpType, op' = [op EXCEPT ![s] = o],
         op[s].kind \in {"drain", "permit"}, o.kind \in {"none", "permit"}, UNCHANGED queue
  PROVE  /\ op' \in [Session -> OpType] /\ op'[s] = o
         /\ \A r \in Session : r # s => op'[r] = op[r]
         /\ \A r \in Session : op'[r].kind \in {"start", "record"} => op'[r] = op[r]
         /\ QueueInv'
<1>1. /\ op' \in [Session -> OpType] /\ op'[s] = o
      /\ \A r \in Session : r # s => op'[r] = op[r]
  BY DEF IInv, TypeOK, OpType
<1>2. \A r \in Session : Pending(r)' = Pending(r)
  BY <1>1 DEF Pending
<1>3. QueueInv'
  BY <1>2 DEF IInv, QueueInv
<1> QED
  BY <1>1, <1>3

(* IInv is preserved when maintenance gets its permit. *)
LEMMA GrantedIInv == ASSUME IInv, NEW s \in Session, MaintenanceGranted(s) PROVE IInv'
<1> DEFINE o == [op[s] EXCEPT !.kind = "permit"]
<1>1. /\ UNCHANGED <<state, current, queue, submitted, accepted, exec, verdict, signalled, forsaken,
                     outcomes, handler, cancelEvents, used>>
      /\ active' = [active EXCEPT ![s] = NoTurn]
      /\ op[s].kind = "drain" /\ Drained(s)
  BY DEF MaintenanceGranted
<1>2. op' = [op EXCEPT ![s] = o] /\ o \in OpType /\ o.kind = "permit"
  <2>1. op' = [op EXCEPT ![s].kind = "permit"]
    BY DEF MaintenanceGranted
  <2>2. op \in [Session -> OpType] /\ op[s] \in OpType
    BY DEF IInv, TypeOK, OpType
  <2>3. o \in OpType /\ o.kind = "permit"
    BY <2>2 DEF OpType, OpKinds
  <2> QED
    BY <2>1, <2>2, <2>3
<1> HIDE DEF o
<1>3. /\ op' \in [Session -> OpType] /\ op'[s] = o
      /\ \A r \in Session : r # s => op'[r] = op[r]
      /\ \A r \in Session : op'[r].kind \in {"start", "record"} => op'[r] = op[r]
      /\ QueueInv'
  BY <1>1, <1>2, StageStep
<1>4. retired' \subseteq Turn /\ suppressed' \subseteq Turn
  BY DEF MaintenanceGranted, RetiredTurn, TakeMark, IInv, TypeOK
<1>5. /\ active' \in [Session -> Turn \cup {NoTurn}] /\ active'[s] = NoTurn
      /\ \A r \in Session : r # s => active'[r] = active[r]
  BY <1>1 DEF IInv, TypeOK
<1>6. TypeOK'
  BY <1>1, <1>3, <1>4, <1>5 DEF IInv, TypeOK, OpType
<1>7. TurnRefs' /\ RunningOwnsSession'
  BY <1>1, <1>3 DEF IInv, TurnRefs, RunningOwnsSession
<1>8. MaintenanceInv'
  <2> SUFFICES ASSUME NEW r \in Session
               PROVE  /\ op'[r].kind \in {"drain", "permit"} =>
                           queue'[r] = <<>> /\ state'[r] # "Processing"
                      /\ op'[r].kind = "permit" =>
                           /\ active'[r] = NoTurn
                           /\ \A t \in Turn : Home[t] = r => exec'[t] \in {"none", "done"}
    BY DEF MaintenanceInv
  <2>1. CASE r = s
    BY <1>1, <1>5, <2>1 DEF IInv, MaintenanceInv, Drained
  <2>2. CASE r # s
    BY <1>1, <1>3, <1>5, <2>2 DEF IInv, MaintenanceInv
  <2> QED
    BY <2>1, <2>2
<1> QED
  BY <1>3, <1>6, <1>7, <1>8 DEF IInv

(* IInv is preserved when maintenance gives up. *)
LEMMA TimesOutIInv == ASSUME IInv, NEW s \in Session, MaintenanceTimesOut(s) PROVE IInv'
<1>1. /\ UNCHANGED <<state, current, queue, active, submitted, accepted, exec, verdict,
                     signalled, forsaken, outcomes, handler, retired, suppressed, cancelEvents, used>>
      /\ op[s].kind = "drain" /\ op' = [op EXCEPT ![s] = NoOp]
  BY DEF MaintenanceTimesOut
<1>2. NoOp \in OpType /\ NoOp.kind = "none"
  BY DEF NoOp, OpType, OpKinds
<1>3. /\ op' \in [Session -> OpType] /\ op'[s] = NoOp
      /\ \A r \in Session : r # s => op'[r] = op[r]
      /\ \A r \in Session : op'[r].kind \in {"start", "record"} => op'[r] = op[r]
      /\ QueueInv'
  BY <1>1, <1>2, StageStep
<1>4. TypeOK'
  BY <1>1, <1>3 DEF IInv, TypeOK, OpType
<1>5. TurnRefs' /\ RunningOwnsSession' /\ MaintenanceInv'
  BY <1>1, <1>2, <1>3 DEF IInv, TurnRefs, RunningOwnsSession, MaintenanceInv
<1> QED
  BY <1>3, <1>4, <1>5 DEF IInv

(* IInv is preserved when the permit is dropped: a session that is deleted
   under it has no execution left. *)
LEMMA EndsIInv ==
  ASSUME IInv, NEW s \in Session, NEW deleted \in BOOLEAN, MaintenanceEnds(s, deleted)
  PROVE  IInv'
<1>1. /\ UNCHANGED <<current, queue, active, submitted, accepted, exec, verdict, signalled, forsaken,
                     outcomes, handler, retired, suppressed, cancelEvents, used>>
      /\ op[s].kind = "permit" /\ op' = [op EXCEPT ![s] = NoOp]
  BY DEF MaintenanceEnds
<1>2. NoOp \in OpType /\ NoOp.kind = "none"
  BY DEF NoOp, OpType, OpKinds
<1>3. /\ op' \in [Session -> OpType] /\ op'[s] = NoOp
      /\ \A r \in Session : r # s => op'[r] = op[r]
      /\ \A r \in Session : op'[r].kind \in {"start", "record"} => op'[r] = op[r]
      /\ QueueInv'
  BY <1>1, <1>2, StageStep
<1>4. /\ state' \in [Session -> States]
      /\ \A r \in Session : r # s => state'[r] = state[r]
      /\ \A r \in Session : state'[r] = "Processing" => state[r] = "Processing"
  BY DEF MaintenanceEnds, IInv, TypeOK, States
<1>5. TypeOK'
  BY <1>1, <1>3, <1>4 DEF IInv, TypeOK, OpType
<1>6. TurnRefs' /\ MaintenanceInv'
  BY <1>1, <1>2, <1>3, <1>4 DEF IInv, TurnRefs, MaintenanceInv
<1>7. RunningOwnsSession'
  <2> SUFFICES ASSUME NEW t \in Turn, exec[t] = "running", t \notin signalled \cup forsaken
               PROVE  state'[Home[t]] = "Processing" /\ current[Home[t]] = t
    BY <1>1 DEF RunningOwnsSession
  <2>1. Home[t] # s
    BY <1>1 DEF IInv, MaintenanceInv
  <2> QED
    BY <1>4, <2>1, SchedulerAssumption DEF IInv, RunningOwnsSession
<1> QED
  BY <1>3, <1>5, <1>6, <1>7 DEF IInv

(* IInv is preserved when a deleted session is created again. *)
LEMMA CreateIInv == ASSUME IInv, NEW s \in Session, CreateSession(s) PROVE IInv'
<1>1. UNCHANGED <<current, queue, active, op, submitted, accepted, exec, verdict, signalled, forsaken,
                  outcomes, handler, retired, suppressed, cancelEvents, used>>
  BY DEF CreateSession
<1>2. /\ state' \in [Session -> States]
      /\ \A r \in Session : state'[r] = "Processing" <=> state[r] = "Processing"
  BY DEF CreateSession, IInv, TypeOK, States
<1>3. TypeOK'
  BY <1>1, <1>2 DEF IInv, TypeOK
<1>4. TurnRefs' /\ MaintenanceInv'
  BY <1>1, <1>2 DEF IInv, TurnRefs, MaintenanceInv
<1>5. RunningOwnsSession'
  BY <1>1, <1>2, SchedulerAssumption DEF IInv, RunningOwnsSession
<1>6. QueueInv'
  BY <1>1 DEF IInv, QueueInv, Pending
<1> QED
  BY <1>3, <1>4, <1>5, <1>6 DEF IInv

--------------------------------------------------------------------------------
(* IInv is preserved when nothing changes. *)
LEMMA StutterIInv == IInv /\ UNCHANGED vars => IInv'
<1> SUFFICES ASSUME IInv, UNCHANGED vars PROVE IInv'
  OBVIOUS
<1>1. TypeOK'
  BY DEF vars, IInv, TypeOK
<1>2. TurnRefs' /\ RunningOwnsSession' /\ MaintenanceInv'
  BY DEF vars, IInv, TurnRefs, RunningOwnsSession, MaintenanceInv
<1>3. QueueInv'
  BY DEF vars, IInv, QueueInv, Pending
<1> QED
  BY <1>1, <1>2, <1>3 DEF IInv

(* IInv is inductive. *)
LEMMA NextIInv == IInv /\ [Next]_vars => IInv'
<1> SUFFICES ASSUME IInv, Next PROVE IInv'
  BY StutterIInv
<1>1. ASSUME NEW t \in Turn, Submit(t) \/ ExecStep(t) \/ Panic(t) PROVE IInv'
  BY <1>1, SubmitIInv, FinishIInv, ReportIInv, TaskEndsIInv DEF ExecStep
<1>2. ASSUME NEW s \in Session, StartStep(s) PROVE IInv'
  BY <1>2, StartRejectedIInv, StartSaveFailsIInv, StartSpawnsIInv, StartRecordedIInv
  DEF StartStep
<1>3. ASSUME NEW s \in Session, MaintenanceStep(s) PROVE IInv'
  BY <1>3, BeginsIInv, GrantedIInv, TimesOutIInv, EndsIInv, CreateIInv DEF MaintenanceStep
<1>4. ASSUME HandlerStep PROVE IInv'
  BY <1>4, ReceiveIInv, TakeIInv, SettleIInv, ForwardsIInv, DispatchesIInv DEF HandlerStep
<1>5. ASSUME CancelStep PROVE IInv'
  BY <1>5, CancelQueuedIInv, CancelActiveIInv, CancelSessionIInv, CancelFailsIInv
  DEF CancelStep
<1> QED
  BY <1>1, <1>2, <1>3, <1>4, <1>5 DEF Next

(* IInv holds in every reachable state. *)
THEOREM Invariance == Spec => []IInv
BY InitIInv, NextIInv, PTL DEF Spec

(* Every variable keeps its type, whatever starts, fails, panics or is
   cancelled. *)
THEOREM TypeCorrect == Spec => []TypeOK
<1>1. IInv => TypeOK
  BY DEF IInv
<1> QED
  BY <1>1, Invariance, PTL

(* A turn that runs and was not told to stop owns its session: no two such
   turns of one session overlap. *)
THEOREM SessionOwned == Spec => []RunningOwnsSession
<1>1. IInv => RunningOwnsSession
  BY DEF IInv
<1> QED
  BY <1>1, Invariance, PTL

(* No two executions of a session overlap, except with one told to stop. *)
THEOREM NoUnstoppedOverlap == Spec => []OverlapOnlyStopped
<1>1. RunningOwnsSession => OverlapOnlyStopped
  BY DEF RunningOwnsSession, OverlapOnlyStopped
<1> QED
  BY <1>1, SessionOwned, PTL

(* No queue exceeds its limit, the turn being started from it included. *)
THEOREM QueueBounded == Spec => []QueueWithinLimit
<1>1. IInv => QueueWithinLimit
  BY DEF IInv, QueueInv, GoodQueue, QueueWithinLimit
<1> QED
  BY <1>1, Invariance, PTL

(* Every queue stays in order of priority. *)
THEOREM QueueOrdered == Spec => []QueueByPriority
<1>1. IInv => QueueByPriority
  BY DEF IInv, QueueInv, GoodQueue, QueueByPriority
<1> QED
  BY <1>1, Invariance, PTL

(* Whoever holds a maintenance permit has the session for himself. *)
THEOREM PermitExclusive == Spec => []PermitExcludesTurns
<1>1. IInv => PermitExcludesTurns
  BY DEF IInv, MaintenanceInv, PermitExcludesTurns
<1> QED
  BY <1>1, Invariance, PTL

--------------------------------------------------------------------------------
(* Where a turn is: a turn that waits was submitted, has no execution and was
   not cancelled; the turn of a start is not queued as well. *)
PlaceInv ==
  /\ \A s \in Session :
       /\ Distinct(Pending(s))
       /\ \A t \in ToSet(Pending(s)) :
            t \in submitted /\ exec[t] = "none" /\ t \notin cancelEvents
       /\ op[s].kind = "start" => /\ op[s].turn \in submitted /\ exec[op[s].turn] = "none"
                                  /\ op[s].turn \notin ToSet(queue[s])
       /\ op[s].kind = "record" => exec[op[s].turn] # "none"
  /\ \A t \in Turn : exec[t] # "none" => t \in submitted
  /\ cancelEvents \subseteq submitted
  /\ NoSilentLoss

(* Who waits in a session belongs to it. *)
LEMMA PendingAtHome ==
  ASSUME IInv, NEW s \in Session, NEW t \in ToSet(Pending(s))
  PROVE  t \in Turn /\ Home[t] = s
BY DEF IInv, QueueInv, GoodQueue, ToSet

(* A step that may change the operation, the queue and the turns of session s, to
   o, q and p as what then waits, and that leaves every turn of s a place. *)
PlaceMove(s, o, q, p) ==
  /\ op' = [op EXCEPT ![s] = o] /\ queue' = [queue EXCEPT ![s] = q]
  /\ p = PendingOf(o, q)
  /\ \A u \in Turn : exec[u] # "none" => exec'[u] # "none"
  /\ \A u \in Turn : exec'[u] # "none" /\ exec[u] = "none" => u \in submitted' /\ Home[u] = s
  /\ submitted \subseteq submitted'
  /\ cancelEvents \subseteq cancelEvents' /\ cancelEvents' \subseteq submitted'
  /\ \A u \in cancelEvents' : u \in cancelEvents \/ Home[u] = s
  /\ \A u \in accepted' : u \in Turn
  /\ \A u \in accepted' : u \in accepted \/ Home[u] = s
  /\ \A u \in accepted' : u \in accepted \/ exec'[u] # "none" \/ u \in ToSet(p)
  /\ Distinct(p)
  /\ \A u \in ToSet(p) : u \in submitted' /\ exec'[u] = "none" /\ u \notin cancelEvents'
  /\ \A u \in ToSet(Pending(s)) : u \in ToSet(p) \/ exec'[u] # "none" \/ u \in cancelEvents'
  /\ o.kind = "start" =>
       o.turn \in submitted' /\ exec'[o.turn] = "none" /\ o.turn \notin ToSet(q)
  /\ o.kind = "record" => exec'[o.turn] # "none"

LEMMA PlaceStep ==
  ASSUME IInv, PlaceInv, NEW s \in Session, NEW o \in OpType, NEW q \in Seq(Turn), NEW p,
         PlaceMove(s, o, q, p)
  PROVE  PlaceInv'
<1>1. op \in [Session -> OpType] /\ queue \in [Session -> Seq(Turn)]
  BY DEF IInv, TypeOK, OpType
<1>2. /\ op'[s] = o /\ queue'[s] = q /\ Pending(s)' = p
      /\ \A r \in Session : r # s => /\ op'[r] = op[r] /\ queue'[r] = queue[r]
                                     /\ Pending(r)' = Pending(r)
  BY <1>1 DEF Pending, PendingOf, PlaceMove
<1>3. ASSUME NEW r \in Session
      PROVE  /\ Distinct(Pending(r)')
             /\ \A t \in ToSet(Pending(r)') :
                  t \in submitted' /\ exec'[t] = "none" /\ t \notin cancelEvents'
             /\ op'[r].kind = "start" => /\ op'[r].turn \in submitted' /\ exec'[op'[r].turn] = "none"
                                         /\ op'[r].turn \notin ToSet(queue'[r])
             /\ op'[r].kind = "record" => exec'[op'[r].turn] # "none"
  <2>1. CASE r = s
    BY <1>2, <2>1 DEF PlaceMove
  <2>2. CASE r # s
    <3>1. /\ op'[r] = op[r] /\ queue'[r] = queue[r] /\ Pending(r)' = Pending(r)
      BY <1>2, <2>2
    <3>2. /\ Distinct(Pending(r))
          /\ \A t \in ToSet(Pending(r)) :
               t \in submitted /\ exec[t] = "none" /\ t \notin cancelEvents
          /\ op[r].kind = "start" => /\ op[r].turn \in submitted /\ exec[op[r].turn] = "none"
                                     /\ op[r].turn \notin ToSet(queue[r])
          /\ op[r].kind = "record" => exec[op[r].turn] # "none"
      BY DEF PlaceInv
    <3>3. \A t \in ToSet(Pending(r)) : t \in Turn /\ Home[t] # s
      BY <2>2, PendingAtHome
    <3>4. op[r].kind \in {"start", "record"} => op[r].turn \in Turn /\ Home[op[r].turn] # s
      BY <2>2 DEF IInv, TurnRefs
    <3> QED
      BY <3>1, <3>2, <3>3, <3>4 DEF PlaceMove
  <2> QED
    BY <2>1, <2>2
<1>4. \A t \in Turn : exec'[t] # "none" => t \in submitted'
  BY DEF PlaceInv, PlaceMove
<1>5. NoSilentLoss'
  <2> SUFFICES ASSUME NEW t \in accepted'
               PROVE  exec'[t] # "none" \/ t \in cancelEvents' \/ t \in ToSet(Pending(Home[t])')
    BY DEF NoSilentLoss
  <2>1. t \in Turn /\ Home[t] \in Session
    BY SchedulerAssumption DEF PlaceMove
  <2>2. CASE t \notin accepted
    BY <1>2, <2>1, <2>2 DEF PlaceMove
  <2>3. CASE t \in accepted
    <3>1. exec[t] # "none" \/ t \in cancelEvents \/ t \in ToSet(Pending(Home[t]))
      BY <2>3 DEF PlaceInv, NoSilentLoss
    <3>2. CASE Home[t] = s
      BY <1>2, <2>1, <3>1, <3>2 DEF PlaceMove
    <3>3. CASE Home[t] # s
      BY <1>2, <2>1, <3>1, <3>3 DEF PlaceMove
    <3> QED
      BY <3>2, <3>3
  <2> QED
    BY <2>2, <2>3
<1>6. cancelEvents' \subseteq submitted'
  BY DEF PlaceMove
<1> QED
  BY <1>3, <1>4, <1>5, <1>6 DEF PlaceInv

(* Steps that touch neither queues nor operations, and of executions only that
   they have begun. *)
LEMMA PlaceKept ==
  ASSUME PlaceInv, UNCHANGED <<queue, op, submitted, accepted, cancelEvents>>,
         \A t \in Turn : exec'[t] # "none" <=> exec[t] # "none",
         IInv
  PROVE  PlaceInv'
<1>1. \A s \in Session : Pending(s)' = Pending(s)
  BY DEF Pending
<1>2. \A s \in Session : \A t \in ToSet(Pending(s)) : t \in Turn
  BY PendingAtHome
<1>3. \A s \in Session : op[s].kind \in {"start", "record"} => op[s].turn \in Turn
  BY DEF IInv, TurnRefs
<1>4. NoSilentLoss'
  <2>1. \A t \in accepted : t \in Turn /\ Home[t] \in Session
    BY SchedulerAssumption DEF IInv, TypeOK
  <2> QED
    BY <1>1, <2>1 DEF PlaceInv, NoSilentLoss
<1> QED
  BY <1>1, <1>2, <1>3, <1>4 DEF PlaceInv

(* What PlaceInv says of a session nobody operates on. *)
LEMMA FreePlaces ==
  ASSUME IInv, PlaceInv, NEW s \in Session, op[s].kind \notin {"start", "record"}
  PROVE  /\ Pending(s) = queue[s] /\ queue[s] \in Seq(Turn) /\ Distinct(queue[s])
         /\ \A t \in ToSet(queue[s]) : /\ t \in Turn /\ Home[t] = s
                                       /\ t \in submitted /\ exec[t] = "none" /\ t \notin cancelEvents
<1>1. Pending(s) = queue[s]
  BY DEF Pending
<1>2. queue[s] \in Seq(Turn)
  BY DEF IInv, TypeOK
<1>3. \A t \in ToSet(queue[s]) : t \in Turn /\ Home[t] = s
  BY <1>1, PendingAtHome
<1> QED
  BY <1>1, <1>2, <1>3 DEF PlaceInv

LEMMA EmptyQueue == Distinct(<<>>) /\ ToSet(<<>>) = {} /\ <<>> \in Seq(Turn)
BY DEF Distinct, ToSet

(* The queue is cleared and announced, and at most a turn that was not queued
   is started. *)
LEMMA ClearKeepsPlaces ==
  ASSUME IInv, PlaceInv, NEW s \in Session, NEW o \in OpType,
         op[s].kind \notin {"start", "record"}, ClearQueue(s),
         op' = [op EXCEPT ![s] = o], o.kind # "record", ~o.queued,
         UNCHANGED <<accepted, exec>>, submitted \subseteq submitted',
         o.kind = "start" => o.turn \in submitted' /\ exec[o.turn] = "none"
  PROVE  PlaceInv'
<1>1. /\ Pending(s) = queue[s]
      /\ \A t \in ToSet(queue[s]) : /\ t \in Turn /\ Home[t] = s
                                    /\ t \in submitted /\ exec[t] = "none" /\ t \notin cancelEvents
  BY FreePlaces
<1>2. queue' = [queue EXCEPT ![s] = <<>>] /\ cancelEvents' = cancelEvents \cup ToSet(queue[s])
  BY DEF ClearQueue
<1>3. PendingOf(o, <<>>) = <<>>
  BY DEF PendingOf
<1>4. cancelEvents \subseteq submitted /\ accepted \subseteq Turn
  BY DEF PlaceInv, IInv, TypeOK
<1>5. \A u \in Turn : exec[u] # "none" => u \in submitted
  BY DEF PlaceInv
<1>6. PlaceMove(s, o, <<>>, <<>>)
  BY <1>1, <1>2, <1>3, <1>4, <1>5, EmptyQueue DEF PlaceMove
<1> QED
  BY EmptyQueue, <1>6, PlaceStep

(* The lock changes hands and nothing else happens to queues and turns. *)
LEMMA LockKeepsPlaces ==
  ASSUME IInv, PlaceInv, NEW s \in Session, NEW o \in OpType,
         op[s].kind \notin {"start", "record"}, o.kind \notin {"start", "record"},
         op' = [op EXCEPT ![s] = o],
         UNCHANGED <<queue, submitted, accepted, cancelEvents, exec>>
  PROVE  PlaceInv'
<1>1. /\ Pending(s) = queue[s] /\ queue[s] \in Seq(Turn) /\ Distinct(queue[s])
      /\ \A t \in ToSet(queue[s]) : t \in submitted /\ exec[t] = "none" /\ t \notin cancelEvents
  BY FreePlaces
<1>2. PendingOf(o, queue[s]) = queue[s] /\ queue' = [queue EXCEPT ![s] = queue[s]]
  BY DEF PendingOf, IInv, TypeOK
<1>3. cancelEvents \subseteq submitted /\ accepted \subseteq Turn
  BY DEF PlaceInv, IInv, TypeOK
<1>4. PlaceMove(s, o, queue[s], queue[s])
  BY <1>1, <1>2, <1>3 DEF PlaceMove
<1> QED
  BY <1>1, <1>4, PlaceStep

(* A start begins with the turn in front of the queue. *)
LEMMA FrontKeepsPlaces ==
  ASSUME IInv, PlaceInv, NEW s \in Session, NEW r \in Seq(Turn), r # <<>>, GoodQueue(s, r),
         NEW by \in {"caller", "handler"},
         op[s].kind \notin {"start", "record"},
         op' = [op EXCEPT ![s] = StartOp(Head(r), by, TRUE)],
         queue' = [queue EXCEPT ![s] = Dequeue(r)],
         UNCHANGED <<exec, cancelEvents>>, submitted \subseteq submitted',
         Distinct(r),
         ToSet(queue[s]) \subseteq ToSet(r),
         \A u \in ToSet(r) : u \in submitted' /\ exec[u] = "none" /\ u \notin cancelEvents,
         \A u \in accepted' : /\ u \in Turn
                              /\ u \in accepted \/ (Home[u] = s /\ u \in ToSet(r))
  PROVE  PlaceInv'
<1> DEFINE o == StartOp(Head(r), by, TRUE)
           q == Dequeue(r)
<1>1. /\ Head(r) \in Turn /\ q \in Seq(Turn) /\ <<Head(r)>> \o q = r
  BY GoodHead
<1>2. o \in OpType /\ o.kind = "start" /\ o.turn = Head(r) /\ o.queued = TRUE
  BY <1>1 DEF StartOp, OpType, OpKinds
<1>3. Pending(s) = queue[s]
  BY FreePlaces
<1>4. op' = [op EXCEPT ![s] = o] /\ queue' = [queue EXCEPT ![s] = q]
  OBVIOUS
<1> HIDE DEF o, q
<1>5. Head(r) \notin ToSet(q) /\ Head(r) \in ToSet(r)
  <2>1. PICK h \in Turn : h = Head(r)
    BY <1>1
  <2>2. <<h>> \o q = r /\ q \in Seq(Turn)
    BY <1>1, <2>1
  <2>3. Distinct(<<h>> \o q)
    BY <2>2
  <2>4. h \notin ToSet(q) /\ h \in ToSet(<<h>> \o q)
    BY <2>2, <2>3, FrontAdds
  <2> QED
    BY <2>1, <2>2, <2>4
<1>6. r = PendingOf(o, q)
  BY <1>1, <1>2 DEF PendingOf
<1>7. cancelEvents \subseteq submitted
  BY DEF PlaceInv
<1>8. ToSet(Pending(s)) \subseteq ToSet(r) /\ o.turn \in ToSet(r)
  BY <1>2, <1>3, <1>5
<1>9. PlaceMove(s, o, q, r)
  BY <1>2, <1>4, <1>5, <1>6, <1>7, <1>8 DEF PlaceMove
<1> QED
  BY <1>1, <1>2, <1>9, PlaceStep

LEMMA SubmitPlaces ==
  ASSUME IInv, PlaceInv, NEW t \in Turn, NEW by \in {"caller", "handler"},
         SubmitLocked(Home[t], t, by)
  PROVE  PlaceInv'
<1>1. PICK s \in Session : s = Home[t]
  BY SchedulerAssumption
<1>2. /\ t \notin submitted /\ op[s] = NoOp /\ UNCHANGED exec
      /\ submitted' = submitted \cup {t}
      /\ \/ SubmitStarts(s, t, by)
         \/ SubmitClearsAndStarts(s, t, by)
         \/ SubmitEnqueues(s, t)
         \/ SubmitEnqueuesAndStartsNext(s, t, by)
         \/ SubmitRefused(s, t)
  BY <1>1 DEF SubmitLocked, Free
<1>3. op[s].kind \notin {"start", "record"}
  BY <1>2 DEF NoOp
<1>4. /\ Pending(s) = queue[s] /\ queue[s] \in Seq(Turn) /\ Distinct(queue[s])
      /\ \A u \in ToSet(queue[s]) : /\ u \in Turn /\ Home[u] = s
                                    /\ u \in submitted /\ exec[u] = "none" /\ u \notin cancelEvents
  BY <1>3, FreePlaces
<1>5. /\ cancelEvents \subseteq submitted /\ accepted \subseteq Turn
      /\ exec[t] = "none" /\ t \notin ToSet(queue[s]) /\ t \notin cancelEvents
  BY <1>2, <1>4 DEF PlaceInv, IInv, TypeOK
<1>6. GoodQueue(s, queue[s])
  BY <1>2, FreeQueue DEF Free
<1>7. /\ queue \in [Session -> Seq(Turn)] /\ op \in [Session -> OpType]
  BY DEF IInv, TypeOK, OpType
<1>8. StartOp(t, by, FALSE) \in OpType /\ NoOp \in OpType /\ NoOp.kind = "none"
  BY DEF StartOp, NoOp, OpType, OpKinds
<1> DEFINE o == StartOp(t, by, FALSE)
<1>9. o.kind = "start" /\ o.turn = t /\ ~o.queued
  BY DEF StartOp
<1>10. CASE SubmitStarts(s, t, by)
  <2>1. /\ op' = [op EXCEPT ![s] = o] /\ queue' = [queue EXCEPT ![s] = queue[s]]
        /\ UNCHANGED <<accepted, cancelEvents>>
    BY <1>7, <1>10 DEF SubmitStarts, BeginStart
  <2> HIDE DEF o
  <2>2. PendingOf(o, queue[s]) = queue[s]
    BY <1>9 DEF PendingOf
  <2>3. PlaceMove(s, o, queue[s], queue[s])
    BY <1>2, <1>4, <1>5, <1>8, <1>9, <2>1, <2>2 DEF PlaceMove
  <2> QED
    BY <1>1, <1>4, <1>8, <2>3, PlaceStep DEF o
<1>11. CASE SubmitClearsAndStarts(s, t, by)
  <2>1. /\ op' = [op EXCEPT ![s] = o] /\ ClearQueue(s) /\ UNCHANGED accepted
    BY <1>11 DEF SubmitClearsAndStarts, BeginStart
  <2>2. o \in OpType
    BY <1>8
  <2> HIDE DEF o
  <2> QED
    BY <1>2, <1>3, <1>5, <1>9, <2>1, <2>2, ClearKeepsPlaces
<1>12. CASE SubmitEnqueues(s, t)
  <2> DEFINE q == Enqueue(queue[s], t)
  <2>1. /\ op' = [op EXCEPT ![s] = NoOp] /\ queue' = [queue EXCEPT ![s] = q]
        /\ accepted' = accepted \cup {t} /\ UNCHANGED cancelEvents
    BY <1>2, <1>7, <1>12 DEF SubmitEnqueues
  <2>2. q \in Seq(Turn)
    BY <1>6, <1>12, GoodEnqueue, <1>1 DEF SubmitEnqueues, Refused, GoodQueue
  <2>3. ToSet(q) = ToSet(queue[s]) \cup {t} /\ Distinct(q)
    BY <1>4, <1>5, EnqueueAdds
  <2> HIDE DEF q
  <2>4. PendingOf(NoOp, q) = q
    BY <1>8 DEF PendingOf
  <2>5. PlaceMove(s, NoOp, q, q)
    BY <1>1, <1>2, <1>4, <1>5, <1>8, <2>1, <2>2, <2>3, <2>4 DEF PlaceMove
  <2> QED
    BY <1>1, <1>8, <2>2, <2>5, PlaceStep
<1>13. CASE SubmitEnqueuesAndStartsNext(s, t, by)
  <2> DEFINE q == Enqueue(queue[s], t)
  <2>1. /\ op' = [op EXCEPT ![s] = StartOp(Head(q), by, TRUE)]
        /\ queue' = [queue EXCEPT ![s] = Dequeue(q)]
        /\ accepted' = accepted \cup {t} /\ UNCHANGED cancelEvents
    BY <1>13 DEF SubmitEnqueuesAndStartsNext, BeginStart
  <2>2. GoodQueue(s, q) /\ q # <<>> /\ q \in Seq(Turn)
    BY <1>1, <1>6, <1>13, GoodEnqueue
    DEF SubmitEnqueuesAndStartsNext, Refused, GoodQueue
  <2>3. ToSet(q) = ToSet(queue[s]) \cup {t} /\ Distinct(q)
    BY <1>4, <1>5, EnqueueAdds
  <2> HIDE DEF q
  <2>4. \A u \in ToSet(q) : u \in submitted' /\ exec[u] = "none" /\ u \notin cancelEvents
    BY <1>2, <1>4, <1>5, <2>3
  <2>5. \A u \in accepted' : u \in Turn /\ (u \in accepted \/ (Home[u] = s /\ u \in ToSet(q)))
    BY <1>1, <1>5, <2>1, <2>3
  <2>6. /\ ToSet(queue[s]) \subseteq ToSet(q) /\ submitted \subseteq submitted'
        /\ UNCHANGED <<exec, cancelEvents>>
    BY <1>2, <2>1, <2>3
  <2> QED
    BY <1>3, <2>1, <2>2, <2>3, <2>4, <2>5, <2>6, FrontKeepsPlaces
<1>14. CASE SubmitRefused(s, t)
  <2>1. /\ op' = [op EXCEPT ![s] = NoOp] /\ queue' = [queue EXCEPT ![s] = queue[s]]
        /\ UNCHANGED <<accepted, cancelEvents>>
    BY <1>2, <1>7, <1>14 DEF SubmitRefused
  <2>2. PendingOf(NoOp, queue[s]) = queue[s]
    BY <1>8 DEF PendingOf
  <2>3. PlaceMove(s, NoOp, queue[s], queue[s])
    BY <1>2, <1>4, <1>5, <1>8, <2>1, <2>2 DEF PlaceMove
  <2> QED
    BY <1>1, <1>4, <1>8, <2>3, PlaceStep
<1> QED
  BY <1>2, <1>10, <1>11, <1>12, <1>13, <1>14

LEMMA StartPlaces ==
  ASSUME IInv, PlaceInv, NEW s \in Session, StartStep(s)
  PROVE  PlaceInv'
<1>1. op \in [Session -> OpType] /\ queue \in [Session -> Seq(Turn)]
  BY DEF IInv, TypeOK, OpType
<1>2. NoOp \in OpType /\ NoOp.kind = "none"
  BY DEF NoOp, OpType, OpKinds
<1>3. cancelEvents \subseteq submitted /\ accepted \subseteq Turn
  BY DEF PlaceInv, IInv, TypeOK
<1>4. /\ Distinct(Pending(s))
      /\ \A t \in ToSet(Pending(s)) :
           t \in submitted /\ exec[t] = "none" /\ t \notin cancelEvents
  BY DEF PlaceInv
<1>5. CASE StartRejected(s) \/ StartSaveFails(s)
  <2> DEFINE q == Pending(s)
  <2>1. /\ Starting(s) /\ PutBack(s) /\ op' = [op EXCEPT ![s] = NoOp]
        /\ UNCHANGED <<submitted, accepted, exec, cancelEvents>>
    BY <1>5 DEF StartRejected, StartSaveFails, ReleaseLock
  <2>2. q \in Seq(Turn)
    BY DEF IInv, QueueInv, GoodQueue
  <2>3. queue' = [queue EXCEPT ![s] = q]
    BY <1>1, <2>1 DEF PutBack, Pending, RequeueFront, Starting
  <2>4. PendingOf(NoOp, q) = q /\ Pending(s) = q
    BY <1>2 DEF PendingOf
  <2> HIDE DEF q
  <2>5. PlaceMove(s, NoOp, q, q)
    BY <1>2, <1>3, <1>4, <2>1, <2>2, <2>3, <2>4 DEF PlaceMove
  <2> QED
    BY <1>2, <2>2, <2>5, PlaceStep
<1>6. CASE StartSpawns(s)
  <2> DEFINE o == [op[s] EXCEPT !.kind = "record"]
  <2>1. /\ op[s].kind = "start" /\ op' = [op EXCEPT ![s] = o]
        /\ exec' = [exec EXCEPT ![op[s].turn] = "running"]
        /\ UNCHANGED <<queue, submitted, accepted, cancelEvents>>
    BY <1>1, <1>6 DEF StartSpawns, Starting, OpType
  <2>2. o \in OpType /\ o.kind = "record" /\ o.turn = op[s].turn
    BY <1>1 DEF OpType, OpKinds
  <2>3. PICK t \in Turn : t = op[s].turn /\ Home[t] = s
    BY <2>1 DEF IInv, TurnRefs
  <2>4. t \in submitted /\ exec[t] = "none" /\ t \notin ToSet(queue[s])
    BY <2>1, <2>3 DEF PlaceInv
  <2>5. exec'[t] = "running" /\ \A u \in Turn : u # t => exec'[u] = exec[u]
    BY <2>1, <2>3 DEF IInv, TypeOK
  <2>6. /\ Distinct(queue[s]) /\ ToSet(queue[s]) \subseteq ToSet(Pending(s))
        /\ \A u \in ToSet(Pending(s)) : u \in ToSet(queue[s]) \/ u = t
    <3>1. CASE op[s].queued
      <4>1. Pending(s) = <<t>> \o queue[s]
        BY <2>1, <2>3, <3>1 DEF Pending
      <4> QED
        BY <1>1, <1>4, <4>1, FrontAdds
    <3>2. CASE ~op[s].queued
      <4>1. Pending(s) = queue[s]
        BY <3>2 DEF Pending
      <4> QED
        BY <1>4, <4>1
    <3> QED
      BY <3>1, <3>2
  <2>7. queue' = [queue EXCEPT ![s] = queue[s]] /\ queue[s] \in Seq(Turn)
    BY <1>1, <2>1
  <2>8. \A u \in ToSet(queue[s]) : u \in Turn
    BY <2>6, PendingAtHome
  <2> HIDE DEF o
  <2>9. PendingOf(o, queue[s]) = queue[s]
    BY <2>2 DEF PendingOf
  <2>10. \A u \in ToSet(queue[s]) : u \in submitted /\ exec'[u] = "none" /\ u \notin cancelEvents
    BY <1>4, <2>4, <2>5, <2>6, <2>8
  <2>11. PlaceMove(s, o, queue[s], queue[s])
    BY <1>3, <2>1, <2>2, <2>3, <2>4, <2>5, <2>6, <2>7, <2>9, <2>10 DEF PlaceMove
  <2> QED
    BY <2>2, <2>7, <2>11, PlaceStep
<1>7. CASE StartRecorded(s)
  <2>1. /\ op[s].kind = "record" /\ op' = [op EXCEPT ![s] = NoOp]
        /\ accepted' = accepted \cup {op[s].turn}
        /\ UNCHANGED <<queue, submitted, exec, cancelEvents>>
    BY <1>7 DEF StartRecorded, ReleaseLock
  <2>2. /\ op[s].turn \in Turn /\ Home[op[s].turn] = s
        /\ exec[op[s].turn] # "none"
    BY <2>1 DEF IInv, TurnRefs, PlaceInv
  <2>3. Pending(s) = queue[s] /\ PendingOf(NoOp, queue[s]) = queue[s]
    BY <1>2, <2>1 DEF Pending, PendingOf
  <2>4. queue' = [queue EXCEPT ![s] = queue[s]] /\ queue[s] \in Seq(Turn)
    BY <1>1, <2>1
  <2>5. PlaceMove(s, NoOp, queue[s], queue[s])
    BY <1>2, <1>3, <1>4, <2>1, <2>2, <2>3, <2>4 DEF PlaceMove
  <2> QED
    BY <1>2, <2>4, <2>5, PlaceStep
<1> QED
  BY <1>5, <1>6, <1>7 DEF StartStep

LEMMA ExecPlaces ==
  ASSUME IInv, PlaceInv, NEW t \in Turn, ExecStep(t) \/ Panic(t)
  PROVE  PlaceInv'
<1>1. /\ UNCHANGED <<queue, op, submitted, accepted, cancelEvents>>
      /\ exec[t] # "none" /\ \E x \in {"closing", "reported", "done"} : exec' = [exec EXCEPT ![t] = x]
  BY DEF ExecStep, Finish, Report, Drain, Panic
<1>2. \A u \in Turn : exec'[u] # "none" <=> exec[u] # "none"
  BY <1>1 DEF IInv, TypeOK
<1> QED
  BY <1>1, <1>2, PlaceKept

LEMMA HandlerPlaces ==
  ASSUME IInv, PlaceInv, HandlerStep
  PROVE  PlaceInv'
<1>1. CASE HandlerReceive \/ HandlerSettle
  <2>1. UNCHANGED <<queue, op, submitted, accepted, cancelEvents, exec>>
    BY <1>1 DEF HandlerReceive, HandlerSettle
  <2> QED
    BY <2>1, PlaceKept
<1>2. CASE HandlerForwards
  <2>1. PICK r \in Turn : SubmitLocked(Home[r], r, "handler")
    BY <1>2 DEF HandlerForwards, IInv, TurnRefs
  <2> QED
    BY <2>1, SubmitPlaces
<1>3. CASE HandlerTake
  <2>1. PICK t \in Turn : TakeRetired(t) \/ TakeStale(t) \/ TakeCurrent(t)
    BY <1>3 DEF HandlerTake
  <2>2. PICK s \in Session : s = Home[t]
    BY SchedulerAssumption
  <2>3. /\ op[s] = NoOp /\ UNCHANGED <<op, submitted, accepted, exec>>
        /\ UNCHANGED <<queue, cancelEvents>> \/ ClearQueue(s)
    BY <1>3, <2>1, <2>2 DEF HandlerTake, TakeRetired, TakeStale, TakeCurrent, AtTake, Free
  <2>4. /\ NoOp \in OpType /\ NoOp.kind = "none" /\ ~NoOp.queued
        /\ op' = [op EXCEPT ![s] = NoOp]
    BY <2>3 DEF NoOp, OpType, OpKinds, IInv, TypeOK
  <2>5. CASE UNCHANGED <<queue, cancelEvents>>
    BY <2>3, <2>5, PlaceKept
  <2>6. CASE ClearQueue(s)
    BY <2>3, <2>4, <2>6, ClearKeepsPlaces
  <2> QED
    BY <2>3, <2>5, <2>6
<1>4. CASE HandlerDispatches
  <2>1. PICK s \in Session : s = Home[handler.turn]
    BY <1>4, SchedulerAssumption DEF HandlerDispatches, IInv, TurnRefs
  <2>2. /\ op[s] = NoOp /\ UNCHANGED <<submitted, accepted, exec, cancelEvents>>
        /\ \/ UNCHANGED <<queue, op>>
           \/ /\ queue[s] # <<>> /\ queue' = [queue EXCEPT ![s] = Dequeue(queue[s])]
              /\ op' = [op EXCEPT ![s] = StartOp(Head(queue[s]), "handler", TRUE)]
    BY <1>4, <2>1 DEF HandlerDispatches, Free, BeginStart
  <2>3. op[s].kind \notin {"start", "record"}
    BY <2>2 DEF NoOp
  <2>4. /\ queue[s] \in Seq(Turn) /\ Distinct(queue[s])
        /\ \A u \in ToSet(queue[s]) : u \in submitted /\ exec[u] = "none" /\ u \notin cancelEvents
    BY <2>3, FreePlaces
  <2>5. GoodQueue(s, queue[s]) /\ accepted \subseteq Turn
    BY <2>2, FreeQueue DEF Free, IInv, TypeOK
  <2> QED
    BY <2>2, <2>3, <2>4, <2>5, PlaceKept, FrontKeepsPlaces
<1> QED
  BY <1>1, <1>2, <1>3, <1>4 DEF HandlerStep

LEMMA CancelPlaces ==
  ASSUME IInv, PlaceInv, CancelStep
  PROVE  PlaceInv'
<1>0. NoOp \in OpType /\ NoOp.kind = "none" /\ ~NoOp.queued
  BY DEF NoOp, OpType, OpKinds
<1>1. ASSUME NEW t \in Turn, CancelQueued(t) PROVE PlaceInv'
  <2> DEFINE q == RemoveTurn(queue[Home[t]], t)
  <2>1. PICK s \in Session : s = Home[t]
    BY SchedulerAssumption
  <2>2. /\ op[s] = NoOp /\ t \in ToSet(queue[s]) /\ queue' = [queue EXCEPT ![s] = q]
        /\ cancelEvents' = cancelEvents \cup {t}
        /\ UNCHANGED <<op, submitted, accepted, exec>>
    BY <1>1, <2>1 DEF CancelQueued, Free
  <2>3. op[s].kind \notin {"start", "record"}
    BY <2>2 DEF NoOp
  <2>4. /\ Pending(s) = queue[s] /\ queue[s] \in Seq(Turn) /\ Distinct(queue[s])
        /\ \A u \in ToSet(queue[s]) : u \in submitted /\ exec[u] = "none" /\ u \notin cancelEvents
    BY <2>3, FreePlaces
  <2>5. ToSet(q) = ToSet(queue[s]) \ {t} /\ Distinct(q)
    BY <2>1, <2>2, <2>4, RemoveTurnTakes
  <2>6. q \in Seq(Turn)
    BY <2>1, <2>4, RemoveTurnKeeps
  <2>7. op' = [op EXCEPT ![s] = NoOp]
    BY <2>2 DEF IInv, TypeOK
  <2>8. cancelEvents \subseteq submitted /\ accepted \subseteq Turn
    BY DEF PlaceInv, IInv, TypeOK
  <2> HIDE DEF q
  <2>9. PendingOf(NoOp, q) = q
    BY <1>0 DEF PendingOf
  <2>10. PlaceMove(s, NoOp, q, q)
    BY <1>0, <2>1, <2>2, <2>4, <2>5, <2>6, <2>7, <2>8, <2>9 DEF PlaceMove
  <2> QED
    BY <1>0, <2>1, <2>6, <2>10, PlaceStep
<1>2. ASSUME NEW t \in Turn, CancelActive(t) PROVE PlaceInv'
  <2>1. UNCHANGED <<queue, op, submitted, accepted, cancelEvents, exec>>
    BY <1>2 DEF CancelActive
  <2> QED
    BY <2>1, PlaceKept
<1>3. ASSUME NEW s \in Session, NEW r \in Session, NEW timedOut \in BOOLEAN,
             CancelSession(s, r, timedOut)
      PROVE  PlaceInv'
  <2>1. UNCHANGED <<queue, op, submitted, accepted, cancelEvents, exec>>
    BY <1>3 DEF CancelSession
  <2> QED
    BY <2>1, PlaceKept
<1>4. ASSUME NEW s \in Session, CancelFails(s) PROVE PlaceInv'
  <2>1. /\ op[s] = NoOp /\ UNCHANGED <<op, submitted, accepted, exec>>
        /\ UNCHANGED <<queue, cancelEvents>> \/ ClearQueue(s)
    BY <1>4 DEF CancelFails, Free
  <2>2. op' = [op EXCEPT ![s] = NoOp]
    BY <2>1 DEF IInv, TypeOK
  <2>3. CASE UNCHANGED <<queue, cancelEvents>>
    BY <2>1, <2>3, PlaceKept
  <2>4. CASE ClearQueue(s)
    BY <1>0, <2>1, <2>2, <2>4, ClearKeepsPlaces
  <2> QED
    BY <2>1, <2>3, <2>4
<1> QED
  BY <1>1, <1>2, <1>3, <1>4 DEF CancelStep

LEMMA MaintenancePlaces ==
  ASSUME IInv, PlaceInv, NEW s \in Session, MaintenanceStep(s)
  PROVE  PlaceInv'
<1>1. op[s] \in OpType
  BY DEF IInv, TypeOK, OpType
<1>2. NoOp \in OpType /\ NoOp.kind = "none"
  BY DEF NoOp, OpType, OpKinds
<1>3. CASE MaintenanceBegins(s)
  <2> DEFINE o == [NoOp EXCEPT !.kind = "drain"]
  <2>1. /\ op[s].kind \notin {"start", "record"} /\ ClearQueue(s)
        /\ op' = [op EXCEPT ![s] = o] /\ UNCHANGED <<submitted, accepted, exec>>
    BY <1>3 DEF MaintenanceBegins, Free, NoOp
  <2>2. o \in OpType /\ o.kind = "drain" /\ ~o.queued
    BY DEF NoOp, OpType, OpKinds
  <2> HIDE DEF o
  <2> QED
    BY <2>1, <2>2, ClearKeepsPlaces
<1>4. CASE MaintenanceGranted(s)
  <2> DEFINE o == [op[s] EXCEPT !.kind = "permit"]
  <2>1. /\ op[s].kind = "drain" /\ op' = [op EXCEPT ![s] = o]
        /\ UNCHANGED <<queue, submitted, accepted, cancelEvents, exec>>
    BY <1>1, <1>4 DEF MaintenanceGranted, OpType
  <2>2. o \in OpType /\ o.kind = "permit"
    BY <1>1 DEF OpType, OpKinds
  <2> HIDE DEF o
  <2> QED
    BY <2>1, <2>2, LockKeepsPlaces
<1>5. CASE MaintenanceTimesOut(s) \/ \E deleted \in BOOLEAN : MaintenanceEnds(s, deleted)
  <2>1. /\ op[s].kind \in {"drain", "permit"} /\ op' = [op EXCEPT ![s] = NoOp]
        /\ UNCHANGED <<queue, submitted, accepted, cancelEvents, exec>>
    BY <1>5 DEF MaintenanceTimesOut, MaintenanceEnds
  <2> QED
    BY <1>2, <2>1, LockKeepsPlaces
<1>6. CASE CreateSession(s)
  <2>1. UNCHANGED <<queue, op, submitted, accepted, cancelEvents, exec>>
    BY <1>6 DEF CreateSession
  <2> QED
    BY <2>1, PlaceKept
<1> QED
  BY <1>3, <1>4, <1>5, <1>6 DEF MaintenanceStep

LEMMA InitPlaces == Init => PlaceInv
BY EmptyQueue DEF Init, PlaceInv, NoSilentLoss, Pending, NoOp

LEMMA NextPlaces == ASSUME IInv, PlaceInv, [Next]_vars PROVE PlaceInv'
<1>1. CASE UNCHANGED vars
  <2>1. UNCHANGED <<queue, op, submitted, accepted, cancelEvents, exec>>
    BY <1>1 DEF vars
  <2> QED
    BY <2>1, PlaceKept
<1>2. ASSUME NEW t \in Turn, Submit(t) PROVE PlaceInv'
  BY <1>2, SubmitPlaces DEF Submit
<1> QED
  BY <1>1, <1>2, StartPlaces, ExecPlaces, HandlerPlaces, CancelPlaces, MaintenancePlaces DEF Next

(* Every turn has one place, and the invariant of the places holds. *)
THEOREM Places == Spec => []PlaceInv
BY InitPlaces, NextPlaces, Invariance, PTL DEF Spec

(* A turn waits in one place only, before it has started and unless it was
   cancelled: a failed start, a dispatch and a submission that overlap with a
   cancellation never leave it twice in a queue, or in a queue and running. *)
THEOREM WaitsOnce == Spec => []QueuedOnce
<1>1. IInv /\ PlaceInv => QueuedOnce
  BY PendingAtHome DEF PlaceInv, QueuedOnce, Distinct
<1> QED
  BY <1>1, Invariance, Places, PTL

(* No accepted turn disappears without an execution or a cancellation event. *)
THEOREM NothingLostSilently == Spec => []NoSilentLoss
<1>1. PlaceInv => NoSilentLoss
  BY DEF PlaceInv
<1> QED
  BY <1>1, Places, PTL

--------------------------------------------------------------------------------
(* Nobody gets ahead in any session. *)
FifoKept == \A s \in Session : FifoStep(Pending(s), Pending(s)')

(* A step may change the operation and the queue of one session only. *)
LEMMA FifoSession ==
  ASSUME IInv, NEW s \in Session, NEW o \in OpType, NEW q \in Seq(Turn),
         op' = [op EXCEPT ![s] = o], queue' = [queue EXCEPT ![s] = q],
         FifoStep(Pending(s), PendingOf(o, q))
  PROVE  FifoKept
<1> SUFFICES ASSUME NEW r \in Session PROVE FifoStep(Pending(r), Pending(r)')
  BY DEF FifoKept
<1>1. op \in [Session -> OpType] /\ queue \in [Session -> Seq(Turn)]
  BY DEF IInv, TypeOK, OpType
<1>2. CASE r = s
  <2>1. Pending(r)' = PendingOf(o, q)
    BY <1>1, <1>2 DEF Pending, PendingOf
  <2> QED
    BY <1>2, <2>1
<1>3. CASE r # s
  <2>1. Pending(r)' = Pending(r)
    BY <1>1, <1>3 DEF Pending
  <2> QED
    BY <2>1, FifoSame
<1> QED
  BY <1>2, <1>3

(* A step that leaves all queues and operations alone. *)
LEMMA FifoUnchanged == UNCHANGED <<op, queue>> => FifoKept
<1>1. UNCHANGED <<op, queue>> => \A s \in Session : Pending(s)' = Pending(s)
  BY DEF Pending
<1> QED
  BY <1>1, FifoSame DEF FifoKept

(* The queue of a session is cleared, and no queued turn is being started. *)
LEMMA FifoCleared ==
  ASSUME IInv, NEW s \in Session, NEW o \in OpType, op' = [op EXCEPT ![s] = o],
         ~o.queued, ClearQueue(s)
  PROVE  FifoKept
<1>1. queue' = [queue EXCEPT ![s] = <<>>] /\ PendingOf(o, <<>>) = <<>>
  BY DEF ClearQueue, PendingOf
<1> QED
  BY <1>1, EmptyQueue, FifoSame, FifoSession

(* The head of a queue is taken for a start. *)
LEMMA FifoStarted ==
  ASSUME IInv, NEW s \in Session, NEW r, GoodQueue(s, r), r # <<>>,
         NEW by \in {"caller", "handler"},
         op' = [op EXCEPT ![s] = StartOp(Head(r), by, TRUE)],
         queue' = [queue EXCEPT ![s] = Dequeue(r)],
         FifoStep(Pending(s), r)
  PROVE  FifoKept
<1> DEFINE o == StartOp(Head(r), by, TRUE)
<1>1. Head(r) \in Turn /\ Dequeue(r) \in Seq(Turn) /\ <<Head(r)>> \o Dequeue(r) = r
  BY GoodHead
<1>2. o \in OpType /\ o.kind = "start" /\ o.turn = Head(r) /\ o.queued = TRUE
  BY <1>1 DEF StartOp, OpType, OpKinds
<1>3. op' = [op EXCEPT ![s] = o]
  OBVIOUS
<1> HIDE DEF o
<1>4. PendingOf(o, Dequeue(r)) = r
  BY <1>1, <1>2 DEF PendingOf
<1> QED
  BY <1>1, <1>2, <1>3, <1>4, FifoSession

(* A submission enqueues a newcomer, in order of priority, or nobody. *)
LEMMA SubmitFifo ==
  ASSUME IInv, PlaceInv, NEW t \in Turn, NEW by \in {"caller", "handler"},
         SubmitLocked(Home[t], t, by)
  PROVE  FifoKept
<1>1. PICK s \in Session : s = Home[t]
  BY SchedulerAssumption
<1>2. /\ t \notin submitted /\ op[s] = NoOp
      /\ \/ SubmitStarts(s, t, by)
         \/ SubmitClearsAndStarts(s, t, by)
         \/ SubmitEnqueues(s, t)
         \/ SubmitEnqueuesAndStartsNext(s, t, by)
         \/ SubmitRefused(s, t)
  BY <1>1 DEF SubmitLocked, Free
<1>3. /\ Pending(s) = queue[s] /\ queue[s] \in Seq(Turn) /\ t \notin ToSet(queue[s])
  <2>1. op[s].kind \notin {"start", "record"}
    BY <1>2 DEF NoOp
  <2> QED
    BY <1>2, <2>1, FreePlaces
<1>4. GoodQueue(s, queue[s]) /\ ByPriority(queue[s])
  BY <1>2, FreeQueue DEF Free, GoodQueue
<1>5. op \in [Session -> OpType] /\ queue \in [Session -> Seq(Turn)]
  BY DEF IInv, TypeOK, OpType
<1> DEFINE o == StartOp(t, by, FALSE)
           q == Enqueue(queue[s], t)
<1>6. o \in OpType /\ ~o.queued
  BY DEF StartOp, OpType, OpKinds
<1>7. FifoStep(queue[s], q)
  BY <1>3, <1>4, FifoEnqueue
<1>8. ~Refused(s, t) => GoodQueue(s, q) /\ q # <<>>
  BY <1>1, <1>4, GoodEnqueue DEF Refused
<1>9. CASE SubmitStarts(s, t, by)
  <2>1. op' = [op EXCEPT ![s] = o] /\ queue' = [queue EXCEPT ![s] = queue[s]]
    BY <1>5, <1>9 DEF SubmitStarts, BeginStart
  <2> HIDE DEF o
  <2>2. PendingOf(o, queue[s]) = queue[s]
    BY <1>6 DEF PendingOf
  <2> QED
    BY <1>3, <1>6, <2>1, <2>2, FifoSame, FifoSession
<1>10. CASE SubmitClearsAndStarts(s, t, by)
  <2>1. op' = [op EXCEPT ![s] = o] /\ ClearQueue(s)
    BY <1>10 DEF SubmitClearsAndStarts, BeginStart
  <2> HIDE DEF o
  <2> QED
    BY <1>6, <2>1, FifoCleared
<1>11. CASE SubmitEnqueues(s, t)
  <2>1. op' = [op EXCEPT ![s] = NoOp] /\ queue' = [queue EXCEPT ![s] = q]
    BY <1>2, <1>5, <1>11 DEF SubmitEnqueues
  <2>2. q \in Seq(Turn)
    BY <1>8, <1>11 DEF SubmitEnqueues, GoodQueue
  <2> HIDE DEF q
  <2>3. NoOp \in OpType /\ PendingOf(NoOp, q) = q
    BY DEF PendingOf, NoOp, OpType, OpKinds
  <2> QED
    BY <1>3, <1>7, <2>1, <2>2, <2>3, FifoSession
<1>12. CASE SubmitEnqueuesAndStartsNext(s, t, by)
  <2>1. /\ op' = [op EXCEPT ![s] = StartOp(Head(q), by, TRUE)]
        /\ queue' = [queue EXCEPT ![s] = Dequeue(q)]
    BY <1>12 DEF SubmitEnqueuesAndStartsNext, BeginStart
  <2>2. GoodQueue(s, q) /\ q # <<>>
    BY <1>8, <1>12 DEF SubmitEnqueuesAndStartsNext
  <2> HIDE DEF q
  <2> QED
    BY <1>3, <1>7, <2>1, <2>2, FifoStarted
<1>13. CASE SubmitRefused(s, t)
  BY <1>13, FifoUnchanged DEF SubmitRefused
<1> QED
  BY <1>2, <1>9, <1>10, <1>11, <1>12, <1>13

(* A start that fails puts its turn back in front; one that succeeds takes it
   away for good. *)
LEMMA StartFifo ==
  ASSUME IInv, NEW s \in Session, StartStep(s)
  PROVE  FifoKept
<1>1. op \in [Session -> OpType] /\ queue \in [Session -> Seq(Turn)] /\ queue[s] \in Seq(Turn)
  BY DEF IInv, TypeOK, OpType
<1>2. NoOp \in OpType /\ \A q \in Seq(Turn) : PendingOf(NoOp, q) = q
  BY DEF PendingOf, NoOp, OpType, OpKinds
<1>3. CASE StartRejected(s) \/ StartSaveFails(s)
  <2> DEFINE q == Pending(s)
  <2>1. Starting(s) /\ PutBack(s) /\ op' = [op EXCEPT ![s] = NoOp]
    BY <1>3 DEF StartRejected, StartSaveFails, ReleaseLock
  <2>2. q \in Seq(Turn)
    BY DEF IInv, QueueInv, GoodQueue
  <2>3. queue' = [queue EXCEPT ![s] = q]
    BY <1>1, <2>1 DEF PutBack, Pending, RequeueFront, Starting
  <2>4. FifoStep(Pending(s), PendingOf(NoOp, q))
    BY <1>2, <2>2, FifoSame
  <2> HIDE DEF q
  <2> QED
    BY <1>2, <2>1, <2>2, <2>3, <2>4, FifoSession
<1>4. CASE StartSpawns(s)
  <2> DEFINE o == [op[s] EXCEPT !.kind = "record"]
  <2>1. op[s].kind = "start" /\ op' = [op EXCEPT ![s] = o] /\ UNCHANGED queue
    BY <1>1, <1>4 DEF StartSpawns, Starting, OpType
  <2>2. o \in OpType /\ o.kind = "record" /\ o.turn = op[s].turn
    BY <1>1 DEF OpType, OpKinds
  <2>3. op[s].turn \in Turn
    BY <2>1 DEF IInv, TurnRefs
  <2>4. queue' = [queue EXCEPT ![s] = queue[s]]
    BY <1>1, <2>1
  <2> HIDE DEF o
  <2>5. PendingOf(o, queue[s]) = queue[s]
    BY <2>2 DEF PendingOf
  <2>6. FifoStep(Pending(s), queue[s])
    BY <1>1, <2>1, <2>3, FifoTail, FifoSame DEF Pending
  <2> QED
    BY <1>1, <2>1, <2>2, <2>4, <2>5, <2>6, FifoSession
<1>5. CASE StartRecorded(s)
  <2>1. /\ op[s].kind = "record" /\ op' = [op EXCEPT ![s] = NoOp] /\ UNCHANGED queue
    BY <1>5 DEF StartRecorded, ReleaseLock
  <2>2. Pending(s) = queue[s] /\ queue' = [queue EXCEPT ![s] = queue[s]]
    BY <1>1, <2>1 DEF Pending
  <2>3. FifoStep(Pending(s), PendingOf(NoOp, queue[s]))
    BY <1>1, <1>2, <2>2, FifoSame
  <2> QED
    BY <1>1, <1>2, <2>1, <2>2, <2>3, FifoSession
<1> QED
  BY <1>3, <1>4, <1>5 DEF StartStep

(* The handler clears the queue after a failure and starts its head otherwise. *)
LEMMA HandlerFifo ==
  ASSUME IInv, PlaceInv, HandlerStep
  PROVE  FifoKept
<1>0. NoOp \in OpType /\ ~NoOp.queued
  BY DEF NoOp, OpType, OpKinds
<1>1. CASE HandlerReceive \/ HandlerSettle
  BY <1>1, FifoUnchanged DEF HandlerReceive, HandlerSettle
<1>2. CASE HandlerForwards
  <2>1. PICK r \in Turn : SubmitLocked(Home[r], r, "handler")
    BY <1>2 DEF HandlerForwards, IInv, TurnRefs
  <2> QED
    BY <2>1, SubmitFifo
<1>3. CASE HandlerTake
  <2>1. PICK t \in Turn : TakeRetired(t) \/ TakeStale(t) \/ TakeCurrent(t)
    BY <1>3 DEF HandlerTake
  <2>2. PICK s \in Session : s = Home[t]
    BY SchedulerAssumption
  <2>3. op[s] = NoOp /\ UNCHANGED op /\ (UNCHANGED queue \/ ClearQueue(s))
    BY <1>3, <2>1, <2>2 DEF HandlerTake, TakeRetired, TakeStale, TakeCurrent, AtTake, Free
  <2>4. op' = [op EXCEPT ![s] = NoOp]
    BY <2>3 DEF IInv, TypeOK
  <2> QED
    BY <1>0, <2>3, <2>4, FifoUnchanged, FifoCleared
<1>4. CASE HandlerDispatches
  <2>1. PICK s \in Session : s = Home[handler.turn]
    BY <1>4, SchedulerAssumption DEF HandlerDispatches, IInv, TurnRefs
  <2>2. /\ op[s] = NoOp
        /\ \/ UNCHANGED <<queue, op>>
           \/ /\ queue[s] # <<>> /\ queue' = [queue EXCEPT ![s] = Dequeue(queue[s])]
              /\ op' = [op EXCEPT ![s] = StartOp(Head(queue[s]), "handler", TRUE)]
    BY <1>4, <2>1 DEF HandlerDispatches, Free, BeginStart
  <2>3. GoodQueue(s, queue[s])
    BY <2>2, FreeQueue DEF Free
  <2>4. Pending(s) = queue[s]
    BY <2>2 DEF Pending, NoOp
  <2> QED
    BY <2>2, <2>3, <2>4, FifoSame, FifoUnchanged, FifoStarted
<1> QED
  BY <1>1, <1>2, <1>3, <1>4 DEF HandlerStep

(* A cancellation removes one queued turn, or clears the queue when it fails. *)
LEMMA CancelFifo ==
  ASSUME IInv, CancelStep
  PROVE  FifoKept
<1>0. NoOp \in OpType /\ ~NoOp.queued /\ \A q \in Seq(Turn) : PendingOf(NoOp, q) = q
  BY DEF NoOp, OpType, OpKinds, PendingOf
<1>1. ASSUME NEW t \in Turn, CancelQueued(t) PROVE FifoKept
  <2> DEFINE q == RemoveTurn(queue[Home[t]], t)
  <2>1. PICK s \in Session : s = Home[t]
    BY SchedulerAssumption
  <2>2. op[s] = NoOp /\ UNCHANGED op /\ queue' = [queue EXCEPT ![s] = q]
    BY <1>1, <2>1 DEF CancelQueued, Free
  <2>3. Pending(s) = queue[s] /\ queue[s] \in Seq(Turn)
    BY <2>2 DEF Pending, NoOp, IInv, TypeOK
  <2>4. q \in Seq(Turn) /\ FifoStep(queue[s], q)
    BY <2>1, <2>3, RemoveTurnKeeps, FifoRemove
  <2>5. op' = [op EXCEPT ![s] = NoOp]
    BY <2>2 DEF IInv, TypeOK
  <2> HIDE DEF q
  <2> QED
    BY <1>0, <2>2, <2>3, <2>4, <2>5, FifoSession
<1>2. ASSUME NEW t \in Turn, CancelActive(t) PROVE FifoKept
  BY <1>2, FifoUnchanged DEF CancelActive
<1>3. ASSUME NEW s \in Session, NEW r \in Session, NEW timedOut \in BOOLEAN,
             CancelSession(s, r, timedOut)
      PROVE  FifoKept
  BY <1>3, FifoUnchanged DEF CancelSession
<1>4. ASSUME NEW s \in Session, CancelFails(s) PROVE FifoKept
  <2>1. op[s] = NoOp /\ UNCHANGED op /\ (UNCHANGED queue \/ ClearQueue(s))
    BY <1>4 DEF CancelFails, Free
  <2>2. op' = [op EXCEPT ![s] = NoOp]
    BY <2>1 DEF IInv, TypeOK
  <2> QED
    BY <1>0, <2>1, <2>2, FifoUnchanged, FifoCleared
<1> QED
  BY <1>1, <1>2, <1>3, <1>4 DEF CancelStep

(* Maintenance clears the queue when it begins and touches it no more. *)
LEMMA MaintenanceFifo ==
  ASSUME IInv, NEW s \in Session, MaintenanceStep(s)
  PROVE  FifoKept
<1>1. op \in [Session -> OpType] /\ queue \in [Session -> Seq(Turn)]
  BY DEF IInv, TypeOK, OpType
<1>2. CASE MaintenanceBegins(s)
  <2> DEFINE o == [NoOp EXCEPT !.kind = "drain"]
  <2>1. ClearQueue(s) /\ op' = [op EXCEPT ![s] = o]
    BY <1>2 DEF MaintenanceBegins
  <2>2. o \in OpType /\ ~o.queued
    BY DEF NoOp, OpType, OpKinds
  <2> HIDE DEF o
  <2> QED
    BY <2>1, <2>2, FifoCleared
<1>3. CASE ~MaintenanceBegins(s)
  <2>1. /\ UNCHANGED queue
        /\ \/ UNCHANGED op
           \/ /\ op[s].kind \in {"drain", "permit"}
              /\ \A r \in Session : r # s => op'[r] = op[r]
              /\ op'[s].kind \in {"none", "permit"}
    BY <1>1, <1>3 DEF MaintenanceStep, MaintenanceGranted, MaintenanceTimesOut, MaintenanceEnds,
       CreateSession, OpType, NoOp
  <2>2. \A r \in Session : Pending(r)' = Pending(r)
    BY <2>1 DEF Pending
  <2> QED
    BY <2>2, FifoSame DEF FifoKept
<1> QED
  BY <1>2, <1>3

(* No step lets a turn get ahead of one that was already waiting, unless it is a
   newcomer of strictly higher priority: enqueue inserts behind equal priorities,
   and a start that fails puts its turn back in front. *)
THEOREM FirstComeFirstServed == Spec => QueueFifo
<1> DEFINE Fifo == \A s \in Session : \A t \in ToSet(Pending(s)) : \A u \in Turn :
                     Before(Pending(s)', u, t) =>
                       \/ Before(Pending(s), u, t)
                       \/ u \notin ToSet(Pending(s)) /\ Priority[u] > Priority[t]
<1>1. ASSUME IInv, PlaceInv, [Next]_vars PROVE FifoKept
  <2>1. CASE UNCHANGED vars
    BY <2>1, FifoUnchanged DEF vars
  <2>2. ASSUME NEW t \in Turn, Submit(t) \/ ExecStep(t) \/ Panic(t) PROVE FifoKept
    <3>1. CASE Submit(t)
      BY <1>1, <3>1, SubmitFifo DEF Submit
    <3>2. CASE ExecStep(t) \/ Panic(t)
      BY <3>2, FifoUnchanged DEF ExecStep, Finish, Report, Drain, Panic
    <3> QED
      BY <2>2, <3>1, <3>2
  <2>3. ASSUME NEW s \in Session, StartStep(s) \/ MaintenanceStep(s) PROVE FifoKept
    BY <1>1, <2>3, StartFifo, MaintenanceFifo
  <2> QED
    BY <1>1, <2>1, <2>2, <2>3, HandlerFifo, CancelFifo DEF Next
<1>2. FifoKept => Fifo
  BY DEF FifoKept, FifoStep
<1>3. IInv /\ PlaceInv /\ [Next]_vars => [Fifo]_vars
  BY <1>1, <1>2
<1> QED
  BY <1>3, Invariance, Places, PTL DEF Spec, QueueFifo

--------------------------------------------------------------------------------
(* The turn that a session awaits belongs to it and has begun; a retired turn
   has begun and nobody awaits it any more. *)
AwaitedTurns ==
  /\ \A s \in Session : active[s] # NoTurn => Home[active[s]] = s /\ exec[active[s]] # "none"
  /\ \A t \in retired : /\ exec[t] # "none" /\ active[Home[t]] # t
                        /\ ~(op[Home[t]].kind = "record" /\ op[Home[t]].turn = t)

(* Outcomes are those of executions that have reported, one of each. *)
ReportedTurns ==
  /\ \A t \in ToSet(outcomes) : exec[t] \in {"reported", "done"}
  /\ handler.pc = "take" => exec[handler.turn] \in {"reported", "done"}
  /\ Distinct(outcomes)

(* The handler is the submitter of at most one start, and waits for it. *)
StartedByHandler(s) == op[s].kind \in {"start", "record"} /\ op[s].by = "handler"

HandlerWaits ==
  \A s \in Session : StartedByHandler(s) =>
    /\ handler.pc \in {"awaitReply", "awaitStart"}
    /\ \A r \in Session : StartedByHandler(r) => r = s

(* A running turn that was not told to stop is the one its session awaits, or
   the one that is about to be. *)
RunningIsAwaited ==
  \A t \in Turn : exec[t] = "running" /\ t \notin signalled \cup forsaken =>
    t = IF op[Home[t]].kind = "record" THEN op[Home[t]].turn ELSE active[Home[t]]

LifeInv == AwaitedTurns /\ ReportedTurns /\ HandlerWaits /\ RunningIsAwaited

(* What is lost is the outcome of an execution that panics or meets a full
   channel. *)
NoOutcomeLost ==
  /\ used["panics"] = 0
  /\ \A t \in Turn : exec[t] = "closing" => Len(outcomes) < ChannelCapacity

(* So is the outcome of a turn that has begun and is about to be awaited. *)
RecordHasOutcome ==
  \A s \in Session : op[s].kind = "record" => OutcomePending(op[s].turn)

OutcomeInv ==
  /\ ActiveHasOutcome
  /\ RecordHasOutcome
  /\ MarksHaveOutcome

LEMMA LifeTypes ==
  ASSUME IInv
  PROVE  /\ op \in [Session -> OpType] /\ active \in [Session -> Turn \cup {NoTurn}]
         /\ exec \in [Turn -> {"none", "running", "closing", "reported", "done"}]
         /\ outcomes \in Seq(Turn) /\ retired \subseteq Turn /\ suppressed \subseteq Turn
         /\ \A t \in Turn : Home[t] \in Session /\ t # NoTurn
         /\ \A s \in Session : op[s].kind \in {"start", "record"} =>
                                 op[s].turn \in Turn /\ Home[op[s].turn] = s
         /\ handler.pc # "idle" => handler.turn \in Turn
BY SchedulerAssumption DEF IInv, TypeOK, TurnRefs, OpType

(* Steps that touch none of this, except that more turns are told to stop. *)
LEMMA LifeKept ==
  ASSUME LifeInv, UNCHANGED <<active, op, exec, outcomes, handler, retired>>,
         signalled \subseteq signalled', forsaken \subseteq forsaken'
  PROVE  LifeInv'
BY DEF LifeInv, AwaitedTurns, ReportedTurns, HandlerWaits, StartedByHandler, RunningIsAwaited

(* A step that changes the operation of one session and, of executions, none. *)
LEMMA OperationLife ==
  ASSUME IInv, LifeInv, NEW s \in Session, NEW o \in OpType,
         op' = [op EXCEPT ![s] = o], op[s].kind # "record", o.kind # "record",
         UNCHANGED <<active, exec, outcomes, retired>>,
         handler'.pc = "take" => handler.pc = "take" /\ handler' = handler,
         signalled \subseteq signalled', forsaken \subseteq forsaken', HandlerWaits'
  PROVE  LifeInv'
<1>1. op'[s] = o /\ \A r \in Session : r # s => op'[r] = op[r]
  BY LifeTypes
<1>2. AwaitedTurns'
  BY <1>1, LifeTypes DEF LifeInv, AwaitedTurns
<1>3. RunningIsAwaited'
  BY <1>1, LifeTypes DEF LifeInv, RunningIsAwaited
<1>4. ReportedTurns'
  BY DEF LifeInv, ReportedTurns
<1> QED
  BY <1>2, <1>3, <1>4 DEF LifeInv

(* What the return of an operation means for the handler. *)
LEMMA ResumesLife ==
  ASSUME IInv, LifeInv, NEW s \in Session, op[s].kind \in {"start", "record"},
         ReleaseLock(s)
  PROVE  /\ HandlerWaits' /\ op'[s].kind = "none"
         /\ \A r \in Session : r # s => op'[r] = op[r]
         /\ handler.pc = "take" => handler' = handler
         /\ handler'.pc = "take" => handler' = handler
<1>1. /\ op'[s] = NoOp /\ op'[s].kind = "none"
      /\ \A r \in Session : r # s => op'[r] = op[r]
  BY LifeTypes DEF ReleaseLock, NoOp
<1>2. CASE op[s].by # "handler"
  <2>1. handler' = handler
    BY <1>2 DEF ReleaseLock, HandlerResumes
  <2> QED
    BY <1>1, <1>2, <2>1 DEF LifeInv, HandlerWaits, StartedByHandler
<1>3. CASE op[s].by = "handler"
  <2>1. /\ handler.pc \in {"awaitReply", "awaitStart"}
        /\ \A r \in Session : StartedByHandler(r) => r = s
    BY <1>3 DEF LifeInv, HandlerWaits, StartedByHandler
  <2>2. \A r \in Session : ~StartedByHandler(r)'
    BY <1>1, <2>1 DEF StartedByHandler
  <2>3. handler' = AfterReply \/ handler' = IdleHandler
    BY <1>3 DEF ReleaseLock, HandlerResumes
  <2>4. handler'.pc # "take"
    BY <2>3 DEF AfterReply, IdleHandler, IInv, TypeOK
  <2> QED
    BY <1>1, <2>1, <2>2, <2>4 DEF HandlerWaits
<1> QED
  BY <1>2, <1>3

LEMMA SubmitOperation ==
  ASSUME IInv, NEW t \in Turn, NEW by \in {"caller", "handler"}, SubmitLocked(Home[t], t, by)
  PROVE  \E o \in OpType : /\ op' = [op EXCEPT ![Home[t]] = o] /\ op[Home[t]] = NoOp
                           /\ o = NoOp \/ (o.kind = "start" /\ o.by = by)
<1>1. PICK s \in Session : s = Home[t]
  BY SchedulerAssumption
<1>2. op[s] = NoOp
  BY <1>1 DEF SubmitLocked, Free
<1>3. CASE UNCHANGED op
  <2>1. NoOp \in OpType /\ op' = [op EXCEPT ![s] = NoOp]
    BY <1>2, <1>3, LifeTypes
  <2> QED
    BY <1>1, <1>2, <2>1
<1>4. CASE \E u \in Turn, b \in BOOLEAN : BeginStart(s, u, by, b)
  <2>1. PICK u \in Turn, b \in BOOLEAN : op' = [op EXCEPT ![s] = StartOp(u, by, b)]
    BY <1>4 DEF BeginStart
  <2>2. StartOp(u, by, b) \in OpType /\ StartOp(u, by, b).kind = "start" /\ StartOp(u, by, b).by = by
    BY DEF StartOp, OpType, OpKinds
  <2> QED
    BY <1>1, <1>2, <2>1, <2>2
<1>5. ASSUME SubmitEnqueuesAndStartsNext(s, t, by)
      PROVE  Head(Enqueue(queue[s], t)) \in Turn
  <2>1. GoodQueue(s, queue[s])
    BY <1>2, FreeQueue DEF Free
  <2> DEFINE q == Enqueue(queue[s], t)
  <2>2. GoodQueue(s, q) /\ q # <<>>
    BY <1>1, <1>5, <2>1, GoodEnqueue DEF SubmitEnqueuesAndStartsNext, Refused
  <2> HIDE DEF q
  <2>3. Head(q) \in Turn
    BY <2>2, GoodHead
  <2> QED
    BY <2>3 DEF q
<1>6. UNCHANGED op \/ \E u \in Turn, b \in BOOLEAN : BeginStart(s, u, by, b)
  BY <1>1, <1>5 DEF SubmitLocked, SubmitStarts, SubmitClearsAndStarts, SubmitEnqueues,
                    SubmitEnqueuesAndStartsNext, SubmitRefused
<1> QED
  BY <1>3, <1>4, <1>6

LEMMA SubmitLife == ASSUME IInv, LifeInv, NEW t \in Turn, Submit(t) PROVE LifeInv'
<1>1. /\ SubmitLocked(Home[t], t, "caller") /\ UNCHANGED handler
      /\ UNCHANGED <<active, exec, outcomes, retired, signalled, forsaken>>
  BY DEF Submit, SubmitLocked
<1>2. PICK o \in OpType : /\ op' = [op EXCEPT ![Home[t]] = o] /\ op[Home[t]] = NoOp
                          /\ o = NoOp \/ (o.kind = "start" /\ o.by = "caller")
  BY <1>1, SubmitOperation
<1>3. op[Home[t]].kind = "none" /\ o.kind # "record" /\ o.by # "handler"
  BY <1>2 DEF NoOp
<1>4. HandlerWaits'
  BY <1>1, <1>2, <1>3, LifeTypes DEF LifeInv, HandlerWaits, StartedByHandler
<1> QED
  BY <1>1, <1>2, <1>3, <1>4, LifeTypes, OperationLife

LEMMA StartLife == ASSUME IInv, PlaceInv, LifeInv, NEW s \in Session, StartStep(s)
                   PROVE  LifeInv'
<1>1. CASE StartRejected(s) \/ StartSaveFails(s)
  <2>1. /\ op[s].kind = "start" /\ ReleaseLock(s)
        /\ UNCHANGED <<active, exec, outcomes, retired, signalled, forsaken>>
    BY <1>1 DEF StartRejected, StartSaveFails, Starting
  <2>2. /\ NoOp \in OpType /\ NoOp.kind # "record" /\ op' = [op EXCEPT ![s] = NoOp]
    BY <2>1 DEF ReleaseLock, NoOp, OpType, OpKinds
  <2>3. HandlerWaits' /\ (handler'.pc = "take" => handler' = handler)
    BY <2>1, ResumesLife
  <2> QED
    BY <2>1, <2>2, <2>3, OperationLife
<1>2. CASE StartSpawns(s)
  <2>1. /\ op[s].kind = "start" /\ state[s] # "Processing"
        /\ op' = [op EXCEPT ![s].kind = "record"]
        /\ exec' = [exec EXCEPT ![op[s].turn] = "running"]
        /\ UNCHANGED <<active, outcomes, retired, signalled, forsaken, handler>>
    BY <1>2 DEF StartSpawns, Starting
  <2>2. PICK t \in Turn : t = op[s].turn /\ Home[t] = s /\ exec[t] = "none"
    BY <2>1, LifeTypes DEF PlaceInv
  <2>3. /\ op'[s].kind = "record" /\ op'[s].turn = t /\ op'[s].by = op[s].by
        /\ \A r \in Session : r # s => op'[r] = op[r]
    BY <2>1, <2>2, LifeTypes DEF OpType
  <2>4. exec'[t] = "running" /\ \A u \in Turn : u # t => exec'[u] = exec[u]
    BY <2>1, <2>2, LifeTypes
  <2>5. AwaitedTurns'
    BY <2>1, <2>2, <2>3, <2>4, LifeTypes DEF LifeInv, AwaitedTurns
  <2>6. ReportedTurns'
    <3>1. t \notin ToSet(outcomes) /\ (handler.pc = "take" => handler.turn # t)
      BY <2>2 DEF LifeInv, ReportedTurns
    <3>2. ToSet(outcomes) \subseteq Turn
      BY LifeTypes DEF ToSet
    <3> QED
      BY <2>1, <2>4, <3>1, <3>2, LifeTypes DEF LifeInv, ReportedTurns
  <2>7. HandlerWaits'
    BY <2>1, <2>3 DEF LifeInv, HandlerWaits, StartedByHandler
  <2>8. RunningIsAwaited'
    <3> SUFFICES ASSUME NEW u \in Turn, exec'[u] = "running", u \notin signalled \cup forsaken
                 PROVE  u = IF op'[Home[u]].kind = "record" THEN op'[Home[u]].turn
                                                            ELSE active[Home[u]]
      BY <2>1 DEF RunningIsAwaited
    <3>1. CASE u = t
      BY <2>2, <2>3, <3>1
    <3>2. CASE u # t
      <4>1. exec[u] = "running"
        BY <2>4, <3>2
      <4>2. Home[u] # s
        BY <2>1, <4>1 DEF IInv, RunningOwnsSession
      <4> QED
        BY <2>3, <4>1, <4>2, LifeTypes DEF LifeInv, RunningIsAwaited
    <3> QED
      BY <3>1, <3>2
  <2> QED
    BY <2>5, <2>6, <2>7, <2>8 DEF LifeInv
<1>3. CASE StartRecorded(s)
  <2>1. /\ op[s].kind = "record" /\ ReleaseLock(s)
        /\ active' = [active EXCEPT ![s] = op[s].turn]
        /\ UNCHANGED <<exec, outcomes, retired, signalled, forsaken>>
    BY <1>3 DEF StartRecorded
  <2>2. PICK t \in Turn : t = op[s].turn /\ Home[t] = s /\ exec[t] # "none"
    BY <2>1, LifeTypes DEF PlaceInv
  <2>3. active'[s] = t /\ \A r \in Session : r # s => active'[r] = active[r]
    BY <2>1, <2>2, LifeTypes
  <2>4. /\ HandlerWaits' /\ op'[s].kind = "none"
        /\ \A r \in Session : r # s => op'[r] = op[r]
        /\ handler'.pc = "take" => handler' = handler
    BY <2>1, ResumesLife
  <2>5. AwaitedTurns'
    BY <2>1, <2>2, <2>3, <2>4, LifeTypes DEF LifeInv, AwaitedTurns
  <2>6. ReportedTurns'
    BY <2>1, <2>4 DEF LifeInv, ReportedTurns
  <2>7. RunningIsAwaited'
    BY <2>1, <2>2, <2>3, <2>4, LifeTypes DEF LifeInv, RunningIsAwaited
  <2> QED
    BY <2>4, <2>5, <2>6, <2>7 DEF LifeInv
<1> QED
  BY <1>1, <1>2, <1>3 DEF StartStep

(* A step of the task of t moves only its execution, onwards. *)
LEMMA ExecLife == ASSUME IInv, LifeInv, NEW t \in Turn, ExecStep(t) \/ Panic(t)
                  PROVE  LifeInv'
<1>1. /\ UNCHANGED <<active, op, handler, retired, signalled, forsaken>>
      /\ exec[t] \notin {"none", "done"}
      /\ exec[t] = "reported" => exec'[t] = "done"
      /\ exec'[t] \in {"closing", "reported", "done"}
      /\ \A u \in Turn : u # t => exec'[u] = exec[u]
  BY LifeTypes DEF ExecStep, Finish, Report, Drain, Panic
<1>2. AwaitedTurns'
  BY <1>1, LifeTypes DEF LifeInv, AwaitedTurns
<1>3. HandlerWaits' /\ RunningIsAwaited'
  BY <1>1 DEF LifeInv, HandlerWaits, StartedByHandler, RunningIsAwaited
<1>4. CASE outcomes' = outcomes
  <2>1. ToSet(outcomes) \subseteq Turn
    BY LifeTypes DEF ToSet
  <2>2. ReportedTurns'
    BY <1>1, <1>4, <2>1, LifeTypes DEF LifeInv, ReportedTurns
  <2> QED
    BY <1>2, <1>3, <2>2 DEF LifeInv
<1>5. CASE outcomes' # outcomes
  <2>1. /\ exec[t] = "closing" /\ exec'[t] = "reported"
        /\ outcomes' = Append(outcomes, t)
    BY <1>5, LifeTypes DEF ExecStep, Finish, Report, Drain, Panic, Send
  <2>2. /\ Len(outcomes') = Len(outcomes) + 1 /\ outcomes'[Len(outcomes) + 1] = t
        /\ \A i \in 1..Len(outcomes) : outcomes'[i] = outcomes[i]
    BY <2>1, LifeTypes
  <2>3. \A i \in 1..Len(outcomes) : /\ outcomes[i] \in Turn /\ outcomes[i] # t
                                    /\ exec[outcomes[i]] \in {"reported", "done"}
    BY <2>1, LifeTypes DEF LifeInv, ReportedTurns, ToSet
  <2>4. Distinct(outcomes')
    <3> SUFFICES ASSUME NEW i \in 1..Len(outcomes'), NEW j \in 1..Len(outcomes'),
                        outcomes'[i] = outcomes'[j]
                 PROVE  i = j
      BY DEF Distinct
    <3> QED
      BY <2>2, <2>3, LifeTypes DEF LifeInv, ReportedTurns, Distinct
  <2>5. \A u \in ToSet(outcomes') : exec'[u] \in {"reported", "done"}
    <3>1. outcomes' \in Seq(Turn)
      BY <2>1, LifeTypes
    <3> SUFFICES ASSUME NEW i \in 1..Len(outcomes')
                 PROVE  exec'[outcomes'[i]] \in {"reported", "done"}
      BY <3>1 DEF ToSet
    <3> QED
      BY <1>1, <2>1, <2>2, <2>3, LifeTypes
  <2>6. ReportedTurns'
    BY <1>1, <2>4, <2>5, LifeTypes DEF LifeInv, ReportedTurns
  <2> QED
    BY <1>2, <1>3, <2>6 DEF LifeInv
<1> QED
  BY <1>4, <1>5

(* The first outcome leaves the channel. *)
LEMMA ReceivedLeaves ==
  ASSUME IInv, LifeInv, HandlerReceive
  PROVE  /\ handler.pc = "idle" /\ handler'.pc = "take" /\ handler'.turn = Head(outcomes)
         /\ ToSet(outcomes) = ToSet(outcomes') \cup {Head(outcomes)}
         /\ Head(outcomes) \in Turn /\ Distinct(outcomes')
         /\ UNCHANGED <<active, op, exec, retired, signalled, forsaken, suppressed>>
<1>1. /\ outcomes # <<>> /\ outcomes' = Tail(outcomes) /\ outcomes \in Seq(Turn)
      /\ handler' = [pc |-> "take", turn |-> Head(outcomes), matched |-> FALSE]
      /\ handler.pc = "idle"
      /\ UNCHANGED <<active, op, exec, retired, signalled, forsaken, suppressed>>
  BY LifeTypes DEF HandlerReceive
<1>2. PICK h \in Turn, q \in Seq(Turn) : h = Head(outcomes) /\ q = Tail(outcomes)
  BY <1>1
<1>3. <<h>> \o q = outcomes
  BY <1>1, <1>2, RequeueDequeued DEF RequeueFront, Dequeue
<1>4. /\ ToSet(<<h>> \o q) = ToSet(q) \cup {h}
      /\ Distinct(<<h>> \o q) <=> (Distinct(q) /\ h \notin ToSet(q))
  BY FrontAdds
<1>5. Distinct(outcomes)
  BY DEF LifeInv, ReportedTurns
<1> QED
  BY <1>1, <1>2, <1>3, <1>4, <1>5

(* Taking an outcome ends its handling or goes on to its reply. *)
LEMMA TakenMoves ==
  ASSUME IInv, NEW t \in Turn, TakeRetired(t) \/ TakeStale(t) \/ TakeCurrent(t)
  PROVE  \/ handler' = IdleHandler /\ handler'.pc = "idle" /\ ~TakeCurrent(t)
         \/ TakeCurrent(t) /\ handler'.pc = "settle" /\ handler'.turn = t
<1>1. CASE TakeRetired(t) \/ TakeStale(t)
  BY <1>1 DEF TakeRetired, TakeStale, TakeCurrent, IdleHandler
<1>2. CASE TakeCurrent(t)
  <2> DEFINE m == active[Home[t]] = t
  <2>1. handler' = [handler EXCEPT !.pc = "settle", !.matched = m] /\ handler.turn = t
    BY <1>2 DEF TakeCurrent, AtTake
  <2>2. handler \in [pc : HandlerPcs, turn : Turn \cup {NoTurn}, matched : BOOLEAN]
    BY DEF IInv, TypeOK
  <2> HIDE DEF m
  <2> QED
    BY <1>2, <2>1, <2>2
<1> QED
  BY <1>1, <1>2

LEMMA HandlerLife == ASSUME IInv, PlaceInv, LifeInv, HandlerStep PROVE LifeInv'
<1>1. CASE HandlerReceive
  <2>1. ReportedTurns'
    BY <1>1, ReceivedLeaves DEF LifeInv, ReportedTurns
  <2>2. HandlerWaits'
    BY <1>1, ReceivedLeaves DEF LifeInv, HandlerWaits, StartedByHandler
  <2>3. AwaitedTurns' /\ RunningIsAwaited'
    BY <1>1, ReceivedLeaves DEF LifeInv, AwaitedTurns, RunningIsAwaited
  <2> QED
    BY <2>1, <2>2, <2>3 DEF LifeInv
<1>2. CASE HandlerTake
  <2>1. PICK t \in Turn : TakeRetired(t) \/ TakeStale(t) \/ TakeCurrent(t)
    BY <1>2 DEF HandlerTake
  <2>2. PICK s \in Session : s = Home[t]
    BY LifeTypes
  <2>3. /\ UNCHANGED <<op, exec, outcomes, signalled, forsaken>>
        /\ handler.pc = "take" /\ handler.turn = t /\ op[s] = NoOp /\ op[s].kind = "none"
        /\ handler'.pc # "take" /\ retired' \subseteq retired
        /\ active' = active \/ (active' = [active EXCEPT ![s] = NoTurn] /\ active[s] \in {t, NoTurn})
    <3>1. handler'.pc \in {"idle", "settle"}
      BY <2>1, TakenMoves
    <3> QED
      BY <1>2, <2>1, <2>2, <3>1 DEF HandlerTake, TakeRetired, TakeStale, TakeCurrent, AtTake, Free, Stale, NoOp
  <2>4. \A r \in Session : active'[r] \in {active[r], NoTurn} /\ (r # s => active'[r] = active[r])
    BY <2>3, LifeTypes
  <2>5. AwaitedTurns'
    BY <2>3, <2>4, LifeTypes DEF LifeInv, AwaitedTurns
  <2>6. ReportedTurns'
    BY <2>3 DEF LifeInv, ReportedTurns
  <2>7. HandlerWaits'
    BY <2>3 DEF LifeInv, HandlerWaits, StartedByHandler
  <2>8. exec[t] # "running"
    BY <2>3 DEF LifeInv, ReportedTurns
  <2>9. RunningIsAwaited'
    BY <2>2, <2>3, <2>4, <2>8, LifeTypes DEF LifeInv, RunningIsAwaited
  <2> QED
    BY <2>5, <2>6, <2>7, <2>9 DEF LifeInv
<1>3. CASE HandlerSettle
  <2>1. UNCHANGED <<active, op, exec, outcomes, retired, signalled, forsaken>>
    BY <1>3 DEF HandlerSettle
  <2>2. handler.pc = "settle" /\ handler'.pc # "take"
    BY <1>3 DEF HandlerSettle, AfterReply, IInv, TypeOK
  <2>3. ReportedTurns' /\ HandlerWaits'
    BY <2>1, <2>2 DEF LifeInv, ReportedTurns, HandlerWaits, StartedByHandler
  <2>4. AwaitedTurns' /\ RunningIsAwaited'
    BY <2>1 DEF LifeInv, AwaitedTurns, RunningIsAwaited
  <2> QED
    BY <2>3, <2>4 DEF LifeInv
<1>4. CASE HandlerForwards
  <2>1. PICK t \in Turn : t = ReplyTurn[handler.turn]
    BY <1>4 DEF HandlerForwards, IInv, TurnRefs
  <2>2. PICK s \in Session : s = Home[t]
    BY LifeTypes
  <2>3. /\ SubmitLocked(s, t, "handler") /\ handler.pc = "reply"
        /\ handler' = IF op'[s].kind = "start" THEN [handler EXCEPT !.pc = "awaitReply"]
                                                ELSE AfterReply
        /\ UNCHANGED <<active, exec, outcomes, retired, signalled, forsaken>>
    BY <1>4, <2>1, <2>2 DEF HandlerForwards, SubmitLocked
  <2>4. PICK o \in OpType : /\ op' = [op EXCEPT ![s] = o] /\ op[s] = NoOp
                            /\ o = NoOp \/ (o.kind = "start" /\ o.by = "handler")
    BY <2>2, <2>3, SubmitOperation
  <2>5. /\ op[s].kind = "none" /\ o.kind \in {"none", "start"}
        /\ op'[s] = o /\ \A r \in Session : r # s => op'[r] = op[r]
    BY <2>4, LifeTypes DEF NoOp
  <2>6. /\ o.kind = "start" => handler'.pc = "awaitReply"
        /\ handler'.pc # "take"
    BY <2>3, <2>5 DEF AfterReply, IInv, TypeOK
  <2>7. \A r \in Session : ~StartedByHandler(r)
    BY <2>3 DEF LifeInv, HandlerWaits
  <2>8. HandlerWaits'
    BY <2>5, <2>6, <2>7 DEF HandlerWaits, StartedByHandler
  <2> QED
    BY <2>3, <2>4, <2>5, <2>6, <2>8, OperationLife
<1>5. CASE HandlerDispatches
  <2>1. PICK t \in Turn : t = handler.turn
    BY <1>5 DEF HandlerDispatches, IInv, TurnRefs
  <2>2. PICK s \in Session : s = Home[t]
    BY LifeTypes
  <2>3. /\ op[s] = NoOp /\ handler.pc = "dispatch"
        /\ UNCHANGED <<active, exec, outcomes, retired, signalled, forsaken>>
        /\ \/ handler' = IdleHandler /\ UNCHANGED op
           \/ /\ queue[s] # <<>> /\ op' = [op EXCEPT ![s] = StartOp(Head(queue[s]), "handler", TRUE)]
              /\ handler' = [handler EXCEPT !.pc = "awaitStart"]
    BY <1>5, <2>1, <2>2 DEF HandlerDispatches, Free, BeginStart
  <2>4. handler'.pc \in {"idle", "awaitStart"} /\ op[s].kind = "none"
    <3>1. handler' = IdleHandler \/ handler' = [handler EXCEPT !.pc = "awaitStart"]
      BY <2>3
    <3>2. handler'.pc \in {"idle", "awaitStart"}
      BY <3>1 DEF IdleHandler, IInv, TypeOK
    <3> QED
      BY <2>3, <3>2 DEF NoOp
  <2>5. \A r \in Session : ~StartedByHandler(r)
    BY <2>3 DEF LifeInv, HandlerWaits
  <2>6. CASE UNCHANGED op
    <3>1. NoOp \in OpType /\ op' = [op EXCEPT ![s] = NoOp] /\ NoOp.kind = "none"
      BY <2>3, <2>6, LifeTypes DEF NoOp, OpType, OpKinds
    <3>2. HandlerWaits'
      BY <2>5, <2>6 DEF HandlerWaits, StartedByHandler
    <3> QED
      BY <2>3, <2>4, <3>1, <3>2, OperationLife
  <2>7. CASE ~UNCHANGED op
    <3>1. GoodQueue(s, queue[s])
      BY <2>3, FreeQueue DEF Free
    <3>2. PICK h \in Turn : h = Head(queue[s])
      BY <2>3, <2>7, <3>1, GoodHead
    <3> DEFINE o == StartOp(h, "handler", TRUE)
    <3>3. o \in OpType /\ o.kind = "start"
      BY DEF StartOp, OpType, OpKinds
    <3>4. op' = [op EXCEPT ![s] = o] /\ handler'.pc = "awaitStart"
      <4>1. handler' = [handler EXCEPT !.pc = "awaitStart"]
        BY <2>3, <2>7
      <4>2. handler'.pc = "awaitStart"
        BY <4>1 DEF IInv, TypeOK
      <4> QED
        BY <2>3, <2>7, <3>2, <4>2
    <3> HIDE DEF o
    <3>5. op'[s] = o /\ \A r \in Session : r # s => op'[r] = op[r]
      BY <3>4, LifeTypes
    <3>6. HandlerWaits'
      BY <2>5, <3>4, <3>5 DEF HandlerWaits, StartedByHandler
    <3> QED
      BY <2>3, <2>4, <3>3, <3>4, <3>6, OperationLife
  <2> QED
    BY <2>6, <2>7
<1> QED
  BY <1>1, <1>2, <1>3, <1>4, <1>5 DEF HandlerStep

LEMMA CancelLife == ASSUME LifeInv, CancelStep PROVE LifeInv'
<1>1. /\ UNCHANGED <<active, op, exec, outcomes, handler, retired>>
      /\ signalled \subseteq signalled' /\ forsaken \subseteq forsaken'
  BY DEF CancelStep, CancelQueued, CancelActive, CancelSession, CancelFails, CancelUnsaved,
         SignalCancel
<1> QED
  BY <1>1, LifeKept

LEMMA MaintenanceLife == ASSUME IInv, LifeInv, NEW s \in Session, MaintenanceStep(s)
                         PROVE  LifeInv'
<1>1. CASE MaintenanceBegins(s)
  <2> DEFINE o == [NoOp EXCEPT !.kind = "drain"]
  <2>1. o \in OpType /\ o.kind = "drain"
    BY DEF NoOp, OpType, OpKinds
  <2>2. /\ op' = [op EXCEPT ![s] = o] /\ op[s].kind = "none"
        /\ UNCHANGED <<active, exec, outcomes, retired, handler>>
        /\ signalled \subseteq signalled' /\ forsaken \subseteq forsaken'
    BY <1>1 DEF MaintenanceBegins, SignalCancel, Free, NoOp
  <2> HIDE DEF o
  <2>3. HandlerWaits'
    BY <2>1, <2>2, LifeTypes DEF LifeInv, HandlerWaits, StartedByHandler
  <2> QED
    BY <2>1, <2>2, <2>3, OperationLife
<1>2. CASE MaintenanceGranted(s)
  <2>1. /\ op[s].kind = "drain" /\ Drained(s)
        /\ op' = [op EXCEPT ![s].kind = "permit"]
        /\ active' = [active EXCEPT ![s] = NoTurn]
        /\ retired' = retired \cup RetiredTurn(s)
        /\ UNCHANGED <<exec, outcomes, handler, signalled, forsaken>>
    BY <1>2 DEF MaintenanceGranted
  <2>2. op'[s].kind = "permit" /\ \A r \in Session : r # s => op'[r] = op[r]
    BY <2>1, LifeTypes DEF OpType
  <2>3. active'[s] = NoTurn /\ \A r \in Session : r # s => active'[r] = active[r]
    BY <2>1, LifeTypes
  <2>4. AwaitedTurns'
    BY <2>1, <2>2, <2>3, LifeTypes DEF LifeInv, AwaitedTurns, RetiredTurn
  <2>5. HandlerWaits' /\ ReportedTurns'
    BY <2>1, <2>2 DEF LifeInv, HandlerWaits, StartedByHandler, ReportedTurns
  <2>6. RunningIsAwaited'
    BY <2>1, <2>2, <2>3, LifeTypes DEF LifeInv, RunningIsAwaited, Drained
  <2> QED
    BY <2>4, <2>5, <2>6 DEF LifeInv
<1>3. CASE MaintenanceTimesOut(s) \/ \E deleted \in BOOLEAN : MaintenanceEnds(s, deleted)
  <2>1. /\ op[s].kind \in {"drain", "permit"} /\ op' = [op EXCEPT ![s] = NoOp]
        /\ UNCHANGED <<active, exec, outcomes, retired, handler, signalled, forsaken>>
    BY <1>3 DEF MaintenanceTimesOut, MaintenanceEnds
  <2>2. NoOp \in OpType /\ NoOp.kind = "none"
    BY DEF NoOp, OpType, OpKinds
  <2>3. HandlerWaits'
    BY <2>1, <2>2, LifeTypes DEF LifeInv, HandlerWaits, StartedByHandler
  <2> QED
    BY <2>1, <2>2, <2>3, OperationLife
<1>4. CASE CreateSession(s)
  BY <1>4, LifeKept DEF CreateSession
<1> QED
  BY <1>1, <1>2, <1>3, <1>4 DEF MaintenanceStep

LEMMA InitLife == Init => LifeInv
<1> SUFFICES ASSUME Init PROVE LifeInv
  OBVIOUS
<1>1. AwaitedTurns /\ HandlerWaits /\ RunningIsAwaited
  BY DEF Init, AwaitedTurns, HandlerWaits, StartedByHandler, RunningIsAwaited, NoOp
<1>2. ReportedTurns
  BY EmptyQueue DEF Init, ReportedTurns, IdleHandler
<1> QED
  BY <1>1, <1>2 DEF LifeInv

LEMMA NextLife == ASSUME IInv, PlaceInv, LifeInv, [Next]_vars PROVE LifeInv'
<1>1. CASE UNCHANGED vars
  BY <1>1, LifeKept DEF vars
<1>2. CASE Next
  BY <1>2, SubmitLife, StartLife, ExecLife, HandlerLife, CancelLife, MaintenanceLife DEF Next
<1> QED
  BY <1>1, <1>2

(* The invariant of the life of turns holds. *)
THEOREM Lives == Spec => []LifeInv
BY InitLife, NextLife, Invariance, Places, PTL DEF Spec

(* Who clears a queue while the handler is done with an outcome: the handler
   itself, for the failure of that turn. *)
LEMMA FailureStep ==
  ASSUME IInv, LifeInv, [Next]_vars, NEW s \in Session,
         handler.pc = "take", handler'.pc # "take", queue[s] # queue'[s]
  PROVE  \E t \in Turn : TakeCurrent(t) /\ Home[t] = s
<1>1. ~UNCHANGED handler /\ ~UNCHANGED queue
  OBVIOUS
<1>2. ASSUME NEW r \in Session, StartStep(r) PROVE FALSE
  <2>1. op[r].kind \in {"start", "record"} /\ ReleaseLock(r)
    BY <1>1, <1>2 DEF StartStep, StartRejected, StartSaveFails, StartSpawns, StartRecorded, Starting
  <2> QED
    BY <1>1, <2>1, ResumesLife
<1>3. HandlerTake
  BY <1>1, <1>2 DEF Next, vars, Submit, ExecStep, Finish, Report, Drain, Panic, MaintenanceStep,
     MaintenanceBegins, MaintenanceGranted, MaintenanceTimesOut, MaintenanceEnds, CreateSession,
     CancelStep, CancelQueued, CancelActive, CancelSession, CancelFails,
     HandlerStep, HandlerReceive, HandlerSettle, HandlerForwards, HandlerDispatches
<1>4. PICK t \in Turn : TakeRetired(t) \/ TakeStale(t) \/ TakeCurrent(t)
  BY <1>3 DEF HandlerTake
<1>5. TakeCurrent(t) /\ (ClearQueue(Home[t]) \/ UNCHANGED queue)
  BY <1>1, <1>4 DEF TakeRetired, TakeStale, TakeCurrent
<1>6. queue' = [queue EXCEPT ![Home[t]] = <<>>]
  BY <1>1, <1>5 DEF ClearQueue
<1>7. Home[t] = s
  BY <1>6 DEF IInv, TypeOK
<1> QED
  BY <1>5, <1>7

(* The failure of a turn never cancels what waits behind a later turn: when it
   clears the queue, every execution of the session that is left was told to
   stop. *)
THEOREM FailuresSpareRunning == Spec => FailureSparesRunning
<1> DEFINE Spares == \A s \in Session :
             (handler.pc = "take" /\ handler'.pc # "take" /\ queue[s] # queue'[s])
               => \A t \in Turn : Home[t] = s /\ exec[t] = "running" => t \in signalled \cup forsaken
<1>1. ASSUME IInv, LifeInv, [Next]_vars PROVE Spares
  <2> SUFFICES ASSUME NEW s \in Session,
                      handler.pc = "take", handler'.pc # "take", queue[s] # queue'[s],
                      NEW u \in Turn, Home[u] = s, exec[u] = "running",
                      u \notin signalled \cup forsaken
               PROVE  FALSE
    OBVIOUS
  <2>1. PICK t \in Turn : TakeCurrent(t) /\ Home[t] = s
    BY <1>1, FailureStep
  <2>2. active[s] \in {t, NoTurn} /\ handler.turn = t /\ op[s] = NoOp
    BY <2>1 DEF TakeCurrent, AtTake, Stale, Free
  <2>3. u = active[s]
    BY <1>1, <2>2 DEF LifeInv, RunningIsAwaited, NoOp
  <2>4. u = t
    BY <1>1, <2>2, <2>3, LifeTypes
  <2> QED
    BY <1>1, <2>2, <2>4 DEF LifeInv, ReportedTurns
<1>2. IInv /\ LifeInv /\ [Next]_vars => [Spares]_vars
  BY <1>1
<1> QED
  BY <1>2, Invariance, Lives, PTL DEF Spec, FailureSparesRunning

--------------------------------------------------------------------------------
LEMMA StartOutcome ==
  ASSUME IInv, LifeInv, PlaceInv, OutcomeInv, NEW s \in Session, StartStep(s)
  PROVE  OutcomeInv'
<1>1. CASE StartSpawns(s)
  <2>1. /\ op[s].kind = "start" /\ op' = [op EXCEPT ![s].kind = "record"]
        /\ exec' = [exec EXCEPT ![op[s].turn] = "running"]
        /\ UNCHANGED <<active, outcomes, retired, suppressed, handler>>
    BY <1>1 DEF StartSpawns, Starting
  <2>2. PICK t \in Turn : t = op[s].turn /\ Home[t] = s
    BY <2>1, LifeTypes
  <2>3. /\ op'[s].turn = t /\ \A r \in Session : r # s => op'[r] = op[r]
    BY <2>1, <2>2, LifeTypes DEF OpType
  <2>4. exec'[t] = "running" /\ \A u \in Turn : u # t => exec'[u] = exec[u]
    BY <2>1, <2>2, LifeTypes
  <2>5. OutcomePending(t)' /\ \A u \in Turn : OutcomePending(u) => OutcomePending(u)'
    BY <2>1, <2>4 DEF OutcomePending
  <2>6. ActiveHasOutcome' /\ MarksHaveOutcome'
    BY <2>1, <2>5, LifeTypes DEF OutcomeInv, ActiveHasOutcome, RecordHasOutcome, MarksHaveOutcome
  <2>7. RecordHasOutcome'
    BY <2>3, <2>5, LifeTypes DEF OutcomeInv, RecordHasOutcome
  <2> QED
    BY <2>6, <2>7 DEF OutcomeInv
<1>2. CASE ~StartSpawns(s)
  <2>1. /\ op[s].kind \in {"start", "record"} /\ ReleaseLock(s)
        /\ UNCHANGED <<exec, outcomes, retired, suppressed>>
        /\ UNCHANGED active \/ (op[s].kind = "record" /\ active' = [active EXCEPT ![s] = op[s].turn])
    BY <1>2 DEF StartStep, StartRejected, StartSaveFails, StartSpawns, StartRecorded, Starting
  <2>2. /\ op'[s].kind = "none" /\ \A r \in Session : r # s => op'[r] = op[r]
        /\ handler.pc = "take" => handler' = handler
    BY <2>1, ResumesLife
  <2>3. \A u \in Turn : OutcomePending(u) => OutcomePending(u)'
    BY <2>1, <2>2 DEF OutcomePending
  <2>4. \A r \in Session : active'[r] = active[r] \/ (r = s /\ op[s].kind = "record" /\ active'[r] = op[s].turn)
    BY <2>1, LifeTypes
  <2>5. handler.pc = "settle" => handler' = handler
    <3>1. CASE op[s].by = "handler"
      BY <2>1, <3>1 DEF LifeInv, HandlerWaits, StartedByHandler
    <3>2. CASE op[s].by # "handler"
      BY <2>1, <3>2 DEF ReleaseLock, HandlerResumes
    <3> QED
      BY <3>1, <3>2
  <2>6. ActiveHasOutcome'
    BY <2>3, <2>4, LifeTypes DEF OutcomeInv, ActiveHasOutcome, RecordHasOutcome
  <2>7. RecordHasOutcome'
    BY <2>2, <2>3, LifeTypes DEF OutcomeInv, RecordHasOutcome
  <2>8. MarksHaveOutcome'
    BY <2>1, <2>3, <2>5, LifeTypes DEF OutcomeInv, MarksHaveOutcome
  <2> QED
    BY <2>6, <2>7, <2>8 DEF OutcomeInv
<1> QED
  BY <1>1, <1>2

LEMMA ExecOutcome ==
  ASSUME IInv, OutcomeInv, NoOutcomeLost, NoOutcomeLost',
         NEW t \in Turn, ExecStep(t) \/ Panic(t)
  PROVE  OutcomeInv'
<1>1. ~Panic(t)
  BY DEF Panic, Spend, NoOutcomeLost, IInv, TypeOK, Budgets
<1>2. /\ UNCHANGED <<active, op, handler, retired, suppressed>>
      /\ \A u \in Turn : u # t => exec'[u] = exec[u]
  BY <1>1, LifeTypes DEF ExecStep, Finish, Report, Drain
<1>3. \/ exec'[t] \in {"closing"} /\ outcomes' = outcomes
      \/ outcomes' = Append(outcomes, t)
      \/ exec[t] = "reported" /\ outcomes' = outcomes
  BY <1>1, LifeTypes DEF ExecStep, Finish, Report, Drain, Send, NoOutcomeLost
<1>4. outcomes' = Append(outcomes, t) => ToSet(outcomes') = ToSet(outcomes) \cup {t}
  <2> SUFFICES ASSUME outcomes' = Append(outcomes, t)
               PROVE  ToSet(outcomes') = ToSet(outcomes) \cup {t}
    OBVIOUS
  <2>1. /\ outcomes' \in Seq(Turn) /\ Len(outcomes') = Len(outcomes) + 1
        /\ outcomes'[Len(outcomes) + 1] = t
        /\ \A i \in 1..Len(outcomes) : outcomes'[i] = outcomes[i]
    BY LifeTypes
  <2> QED
    BY <2>1, LifeTypes DEF ToSet
<1>5. \A u \in Turn : OutcomePending(u) => OutcomePending(u)'
  BY <1>2, <1>3, <1>4 DEF OutcomePending
<1> QED
  BY <1>2, <1>5, LifeTypes DEF OutcomeInv, ActiveHasOutcome, RecordHasOutcome, MarksHaveOutcome

LEMMA HandlerOutcome ==
  ASSUME IInv, LifeInv, OutcomeInv, HandlerStep
  PROVE  OutcomeInv'
<1>1. CASE HandlerReceive
  <2>1. \A u \in Turn : OutcomePending(u) => OutcomePending(u)'
    BY <1>1, ReceivedLeaves DEF OutcomePending
  <2> QED
    BY <1>1, <2>1, ReceivedLeaves, LifeTypes DEF OutcomeInv, ActiveHasOutcome, RecordHasOutcome, MarksHaveOutcome
<1>2. CASE HandlerTake
  <2>1. PICK t \in Turn : TakeRetired(t) \/ TakeStale(t) \/ TakeCurrent(t)
    BY <1>2 DEF HandlerTake
  <2>2. PICK s \in Session : s = Home[t]
    BY LifeTypes
  <2>3. /\ UNCHANGED <<op, exec, outcomes>>
        /\ handler.pc = "take" /\ handler.turn = t /\ op[s] = NoOp
    BY <1>2, <2>1, <2>2 DEF HandlerTake, TakeRetired, TakeStale, TakeCurrent, AtTake, Free
  <2>4. \A u \in Turn : u # t /\ OutcomePending(u) => OutcomePending(u)'
    BY <2>3 DEF OutcomePending
  <2>5. /\ retired' = retired \ {t}
        /\ suppressed' \subseteq suppressed
        /\ t \in suppressed' => handler'.pc = "settle" /\ handler'.turn = t
    <3>1. CASE TakeRetired(t) \/ TakeStale(t)
      BY <3>1 DEF TakeRetired, TakeStale, TakeMark
    <3>2. CASE TakeCurrent(t)
      <4>1. t \notin retired /\ UNCHANGED <<retired, suppressed>>
        BY <3>2 DEF TakeCurrent
      <4>2. handler'.pc = "settle" /\ handler'.turn = t
        BY <3>2, TakenMoves
      <4> QED
        BY <4>1, <4>2
    <3> QED
      BY <2>1, <3>1, <3>2
  <2>6. \A r \in Session : active'[r] \in {active[r], NoTurn} /\ active'[r] # t
    <3>1. CASE TakeRetired(t) \/ TakeStale(t)
      <4>1. UNCHANGED active /\ active[s] # t
        BY <2>2, <3>1 DEF TakeRetired, TakeStale, Stale, LifeInv, AwaitedTurns
      <4> QED
        BY <2>2, <4>1, LifeTypes DEF LifeInv, AwaitedTurns
    <3>2. CASE TakeCurrent(t)
      <4>1. active' = [active EXCEPT ![s] = NoTurn]
        BY <2>2, <3>2 DEF TakeCurrent
      <4>2. active'[s] = NoTurn /\ \A r \in Session : r # s => active'[r] = active[r]
        BY <4>1, LifeTypes
      <4> QED
        BY <2>2, <4>2, LifeTypes DEF LifeInv, AwaitedTurns
    <3> QED
      BY <2>1, <3>1, <3>2
  <2>7. \A r \in Session : op[r].kind = "record" => op[r].turn # t
    BY <2>2, <2>3, LifeTypes DEF NoOp
  <2>8. ActiveHasOutcome'
    BY <2>4, <2>6, LifeTypes DEF OutcomeInv, ActiveHasOutcome
  <2>9. RecordHasOutcome'
    BY <2>3, <2>4, <2>7, LifeTypes DEF OutcomeInv, RecordHasOutcome
  <2>10. MarksHaveOutcome'
    BY <2>3, <2>4, <2>5, LifeTypes DEF OutcomeInv, MarksHaveOutcome
  <2> QED
    BY <2>8, <2>9, <2>10 DEF OutcomeInv
<1>3. CASE HandlerSettle
  <2>1. /\ UNCHANGED <<active, op, exec, outcomes, retired>>
        /\ handler.pc = "settle" /\ suppressed' = suppressed \ {handler.turn}
    BY <1>3 DEF HandlerSettle, TakeMark
  <2>2. \A u \in Turn : OutcomePending(u) => OutcomePending(u)'
    BY <2>1 DEF OutcomePending
  <2> QED
    BY <2>1, <2>2, LifeTypes DEF OutcomeInv, ActiveHasOutcome, RecordHasOutcome, MarksHaveOutcome
<1>4. CASE HandlerForwards \/ HandlerDispatches
  <2>1. /\ UNCHANGED <<active, exec, outcomes, retired, suppressed>>
        /\ handler.pc \in {"reply", "dispatch"}
    BY <1>4 DEF HandlerForwards, HandlerDispatches, SubmitLocked
  <2>2. \A r \in Session : op'[r].kind = "record" => op'[r] = op[r]
    <3>1. CASE HandlerForwards
      <4>1. PICK t \in Turn : t = ReplyTurn[handler.turn]
        BY <3>1 DEF HandlerForwards, IInv, TurnRefs
      <4>2. PICK o \in OpType : /\ op' = [op EXCEPT ![Home[t]] = o]
                                /\ o = NoOp \/ (o.kind = "start" /\ o.by = "handler")
        BY <3>1, <4>1, SubmitOperation DEF HandlerForwards
      <4> QED
        BY <4>2, LifeTypes DEF NoOp
    <3>2. CASE HandlerDispatches
      <4>1. PICK r \in Session : r = Home[handler.turn]
        BY <3>2, LifeTypes DEF HandlerDispatches
      <4>2. UNCHANGED op \/ op' = [op EXCEPT ![r] = StartOp(Head(queue[r]), "handler", TRUE)]
        BY <3>2, <4>1 DEF HandlerDispatches, BeginStart
      <4> QED
        BY <4>2, LifeTypes DEF StartOp
    <3> QED
      BY <1>4, <3>1, <3>2
  <2>3. \A u \in Turn : OutcomePending(u) => OutcomePending(u)'
    BY <2>1 DEF OutcomePending
  <2>4. ActiveHasOutcome'
    BY <2>1, <2>3, LifeTypes DEF OutcomeInv, ActiveHasOutcome
  <2>5. MarksHaveOutcome'
    BY <2>1, <2>3, LifeTypes DEF OutcomeInv, MarksHaveOutcome
  <2>6. RecordHasOutcome'
    BY <2>2, <2>3, LifeTypes DEF OutcomeInv, RecordHasOutcome
  <2> QED
    BY <2>4, <2>5, <2>6 DEF OutcomeInv
<1> QED
  BY <1>1, <1>2, <1>3, <1>4 DEF HandlerStep

LEMMA SubmitOutcome == ASSUME IInv, OutcomeInv, NEW t \in Turn, Submit(t) PROVE OutcomeInv'
<1>1. /\ SubmitLocked(Home[t], t, "caller")
      /\ UNCHANGED <<active, exec, outcomes, handler, retired, suppressed>>
  BY DEF Submit, SubmitLocked
<1>2. PICK o \in OpType : /\ op' = [op EXCEPT ![Home[t]] = o]
                          /\ o = NoOp \/ (o.kind = "start" /\ o.by = "caller")
  BY <1>1, SubmitOperation
<1>3. \A r \in Session : op'[r].kind = "record" => op'[r] = op[r]
  BY <1>2, LifeTypes DEF NoOp
<1>4. \A u \in Turn : OutcomePending(u) => OutcomePending(u)'
  BY <1>1 DEF OutcomePending
<1>5. ActiveHasOutcome'
  BY <1>1, <1>4, LifeTypes DEF OutcomeInv, ActiveHasOutcome
<1>6. MarksHaveOutcome'
  BY <1>1, <1>4, LifeTypes DEF OutcomeInv, MarksHaveOutcome
<1>7. RecordHasOutcome'
  BY <1>3, <1>4, LifeTypes DEF OutcomeInv, RecordHasOutcome
<1> QED
  BY <1>5, <1>6, <1>7 DEF OutcomeInv

(* A mark is set for the awaited turn only. *)
LEMMA CancelOutcome == ASSUME IInv, OutcomeInv, CancelStep PROVE OutcomeInv'
<1>1. UNCHANGED <<active, op, exec, outcomes, handler, retired>>
  BY DEF CancelStep, CancelQueued, CancelActive, CancelSession, CancelFails
<1>2. \A u \in suppressed' : u \in suppressed \/ \E s \in Session : u = active[s] /\ u # NoTurn
  BY DEF CancelStep, CancelQueued, CancelActive, CancelSession, CancelFails, SuppressionKey
<1>3. \A u \in Turn : OutcomePending(u) => OutcomePending(u)'
  BY <1>1 DEF OutcomePending
<1>4. ActiveHasOutcome'
  BY <1>1, <1>3, LifeTypes DEF OutcomeInv, ActiveHasOutcome
<1>5. MarksHaveOutcome'
  BY <1>1, <1>2, <1>3, LifeTypes DEF OutcomeInv, ActiveHasOutcome, MarksHaveOutcome
<1>6. RecordHasOutcome'
  BY <1>1, <1>3, LifeTypes DEF OutcomeInv, RecordHasOutcome
<1> QED
  BY <1>4, <1>5, <1>6 DEF OutcomeInv

LEMMA MaintenanceOutcome ==
  ASSUME IInv, OutcomeInv, NEW s \in Session, MaintenanceStep(s) PROVE OutcomeInv'
<1>1. UNCHANGED <<exec, outcomes, handler>>
  BY DEF MaintenanceStep, MaintenanceBegins, MaintenanceGranted, MaintenanceTimesOut,
         MaintenanceEnds, CreateSession
<1>2. \A r \in Session : op'[r].kind = "record" => op'[r] = op[r]
  <2>1. CASE MaintenanceBegins(s)
    <3> DEFINE o == [NoOp EXCEPT !.kind = "drain"]
    <3>1. o.kind = "drain"
      BY DEF NoOp
    <3>2. op' = [op EXCEPT ![s] = o]
      BY <2>1 DEF MaintenanceBegins
    <3> HIDE DEF o
    <3> QED
      BY <3>1, <3>2, LifeTypes
  <2>2. CASE MaintenanceGranted(s)
    <3>1. op' = [op EXCEPT ![s].kind = "permit"]
      BY <2>2 DEF MaintenanceGranted
    <3> QED
      BY <3>1, LifeTypes DEF OpType
  <2>3. CASE MaintenanceTimesOut(s) \/ \E deleted \in BOOLEAN : MaintenanceEnds(s, deleted)
    BY <2>3, LifeTypes DEF MaintenanceTimesOut, MaintenanceEnds, NoOp
  <2>4. CASE CreateSession(s)
    BY <2>4 DEF CreateSession
  <2> QED
    BY <2>1, <2>2, <2>3, <2>4 DEF MaintenanceStep
<1>3. /\ \A r \in Session : active'[r] \in {active[r], NoTurn}
      /\ \A u \in retired' : u \in retired \/ (u = active[s] /\ u # NoTurn)
      /\ suppressed' \subseteq suppressed
  <2>1. CASE MaintenanceGranted(s)
    <3>1. /\ active' = [active EXCEPT ![s] = NoTurn] /\ retired' = retired \cup RetiredTurn(s)
          /\ suppressed' = suppressed \ {active[s]}
      BY <2>1 DEF MaintenanceGranted, TakeMark
    <3> QED
      BY <3>1, LifeTypes DEF RetiredTurn
  <2>2. CASE ~MaintenanceGranted(s)
    BY <2>2 DEF MaintenanceStep, MaintenanceBegins, MaintenanceTimesOut, MaintenanceEnds,
                CreateSession
  <2> QED
    BY <2>1, <2>2
<1>4. \A u \in Turn : OutcomePending(u) => OutcomePending(u)'
  BY <1>1 DEF OutcomePending
<1>5. ActiveHasOutcome'
  BY <1>3, <1>4, LifeTypes DEF OutcomeInv, ActiveHasOutcome
<1>6. MarksHaveOutcome'
  BY <1>1, <1>3, <1>4, LifeTypes DEF OutcomeInv, ActiveHasOutcome, MarksHaveOutcome
<1>7. RecordHasOutcome'
  BY <1>2, <1>4, LifeTypes DEF OutcomeInv, RecordHasOutcome
<1> QED
  BY <1>5, <1>6, <1>7 DEF OutcomeInv

LEMMA InitOutcome == Init => OutcomeInv
BY DEF Init, OutcomeInv, ActiveHasOutcome, RecordHasOutcome, MarksHaveOutcome, NoOp

LEMMA NextOutcome ==
  ASSUME IInv, PlaceInv, LifeInv, OutcomeInv, NoOutcomeLost, NoOutcomeLost', [Next]_vars
  PROVE  OutcomeInv'
<1>1. CASE UNCHANGED vars
  BY <1>1 DEF vars, OutcomeInv, ActiveHasOutcome, RecordHasOutcome, MarksHaveOutcome, OutcomePending
<1>2. CASE Next
  BY <1>2, SubmitOutcome, StartOutcome, ExecOutcome, HandlerOutcome, CancelOutcome,
     MaintenanceOutcome DEF Next
<1> QED
  BY <1>1, <1>2

(* As long as no execution panics and the channel has room for every outcome,
   the scheduler waits only for outcomes that are on their way. *)
THEOREM AwaitedArrive == Spec /\ []NoOutcomeLost => []ActiveHasOutcome
<1>1. OutcomeInv => ActiveHasOutcome
  BY DEF OutcomeInv
<1> QED
  BY <1>1, InitOutcome, NextOutcome, Invariance, Places, Lives, PTL DEF Spec

(* Under the same condition a suppression mark or a tombstone is kept only for an
   outcome that is still to come. *)
THEOREM MarksAreUsed == Spec /\ []NoOutcomeLost => []MarksHaveOutcome
<1>1. OutcomeInv => MarksHaveOutcome
  BY DEF OutcomeInv
<1> QED
  BY <1>1, InitOutcome, NextOutcome, Invariance, Places, Lives, PTL DEF Spec

(* The turns of the channel have reported; while one more is to report there
   are fewer outcomes than turns. *)
LEMMA RoomForAll ==
  ASSUME IInv, LifeInv, IsFiniteSet(Turn), Cardinality(Turn) <= ChannelCapacity,
         NEW t \in Turn, exec[t] = "closing"
  PROVE  Len(outcomes) < ChannelCapacity
<1> DEFINE n == Len(outcomes)
<1>1. n \in Nat /\ \A i \in 1..n : outcomes[i] \in Turn \ {t}
  <2>1. \A i \in 1..n : outcomes[i] \in Turn /\ exec[outcomes[i]] \in {"reported", "done"}
    BY LifeTypes DEF LifeInv, ReportedTurns, ToSet
  <2> QED
    BY <2>1, LifeTypes
<1>2. \A i, j \in 1..n : outcomes[i] = outcomes[j] => i = j
  BY DEF LifeInv, ReportedTurns, Distinct
<1> HIDE DEF n
<1> DEFINE f == [i \in 1..n |-> outcomes[i]]
<1>3. f \in [1..n -> Turn \ {t}] /\ \A i, j \in 1..n : f[i] = f[j] => i = j
  BY <1>1, <1>2
<1>4. f \in Injection(1..n, Turn \ {t})
  <2> HIDE DEF f
  <2> QED
    BY <1>3 DEF Injection, IsInjective
<1>6. IsFiniteSet(Turn \ {t}) /\ Cardinality(Turn \ {t}) = Cardinality(Turn) - 1
  BY FS_RemoveElement
<1>7. IsFiniteSet(1..n) /\ Cardinality(1..n) = n
  BY <1>1, FS_Interval
<1>8. Cardinality(1..n) <= Cardinality(Turn \ {t})
  <2> HIDE DEF f
  <2> QED
    BY <1>4, <1>6, FS_Injection
<1>9. Cardinality(Turn) \in Nat /\ ChannelCapacity \in Nat
  BY FS_CardinalityType, SchedulerAssumption
<1> QED
  BY <1>1, <1>6, <1>7, <1>8, <1>9 DEF n

(* Nothing is lost if executions do not panic and there are no more turns than
   the channel holds: each turn reports once, so the try_send of its outcome
   finds room. *)
THEOREM SmallLoadLosesNothing ==
  ASSUME MaxPanics = 0, IsFiniteSet(Turn), Cardinality(Turn) <= ChannelCapacity
  PROVE  Spec => []NoOutcomeLost
<1> DEFINE NoPanic == used["panics"] = 0
<1>1. Init => NoPanic
  BY DEF Init, Budgets
<1>2. ASSUME IInv, NoPanic, [Next]_vars PROVE NoPanic'
  <2>1. ASSUME NEW t \in Turn PROVE ~Panic(t)
    BY <1>2 DEF Panic, Spend, Budget, IInv, TypeOK, Budgets
  <2>2. \A b \in Budgets : Spend(b) /\ b # "panics" => used'["panics"] = used["panics"]
    BY <1>2 DEF Spend, IInv, TypeOK, Budgets
  <2>3. UNCHANGED used \/ \E b \in Budgets \ {"panics"} : Spend(b)
    BY <1>2, <2>1
    DEF Next, vars, Submit, SubmitLocked, ExecStep, Finish, Report, Drain, StartStep,
        StartRejected, StartSaveFails, StartSpawns, StartRecorded, MaintenanceStep,
        MaintenanceBegins, MaintenanceGranted, MaintenanceTimesOut, MaintenanceEnds, CreateSession,
        CancelStep, CancelQueued, CancelActive, CancelSession, CancelFails, HandlerStep,
        HandlerReceive, HandlerTake, HandlerSettle, HandlerForwards, HandlerDispatches, Budgets
  <2> QED
    BY <1>2, <2>2, <2>3
<1>3. IInv /\ LifeInv /\ NoPanic => NoOutcomeLost
  BY RoomForAll DEF NoOutcomeLost
<1> HIDE DEF NoPanic
<1> QED
  BY <1>1, <1>2, <1>3, Invariance, Lives, PTL DEF Spec

--------------------------------------------------------------------------------
(* What the refinement needs of sessions.  A turn that does not come from the
   queue is started when nobody waits; in a session that is not loaded nothing
   waits or is awaited; a session works on a turn of its own. *)
DirectStarts ==
  \A s \in Session : op[s].kind = "start" /\ ~op[s].queued =>
    queue[s] = <<>> /\ op[s].turn \notin cancelEvents

GoneSessions ==
  \A s \in Session : state[s] = "Missing" =>
    /\ queue[s] = <<>> /\ active[s] = NoTurn /\ op[s].kind # "record"
    /\ op[s].kind = "start" => ~op[s].queued

CurrentAtHome ==
  \A s \in Session : state[s] = "Processing" => current[s] \in Turn /\ Home[current[s]] = s

SessionInv == DirectStarts /\ GoneSessions /\ CurrentAtHome

(* What a step on session s owes to the invariant. *)
SessionMove(s) ==
  /\ \A r \in Session : r # s => /\ op'[r] = op[r] /\ queue'[r] = queue[r]
                                 /\ state'[r] = state[r] /\ active'[r] = active[r]
                                 /\ current'[r] = current[r]
  /\ \A u \in cancelEvents' : u \in cancelEvents \/ Home[u] = s
  /\ op'[s].kind = "start" /\ ~op'[s].queued =>
       queue'[s] = <<>> /\ op'[s].turn \notin cancelEvents'
  /\ state'[s] = "Missing" =>
       /\ queue'[s] = <<>> /\ active'[s] = NoTurn /\ op'[s].kind # "record"
       /\ op'[s].kind = "start" => ~op'[s].queued
  /\ state'[s] = "Processing" => current'[s] \in Turn /\ Home[current'[s]] = s

LEMMA SessionStep ==
  ASSUME IInv, SessionInv, NEW s \in Session, SessionMove(s)
  PROVE  SessionInv'
<1>1. \A r \in Session : op[r].kind = "start" => Home[op[r].turn] = r
  BY DEF IInv, TurnRefs
<1>2. DirectStarts'
  BY <1>1 DEF SessionInv, DirectStarts, SessionMove
<1>3. GoneSessions' /\ CurrentAtHome'
  BY DEF SessionInv, GoneSessions, CurrentAtHome, SessionMove
<1> QED
  BY <1>2, <1>3 DEF SessionInv

(* A step that touches at most the state of one session, and does not unload it. *)
LEMMA StateStep ==
  ASSUME SessionInv, UNCHANGED <<op, queue, active, cancelEvents>>,
         \A r \in Session : \/ state'[r] = state[r] /\ current'[r] = current[r]
                            \/ state'[r] \notin {"Missing", "Processing"}
  PROVE  SessionInv'
BY DEF SessionInv, DirectStarts, GoneSessions, CurrentAtHome

LEMMA ReleasedState ==
  ASSUME IInv, NEW t \in Turn, NEW new \in {"Idle", "Error"}, ReleaseSession(t, new)
  PROVE  \A r \in Session : \/ state'[r] = state[r] /\ current'[r] = current[r]
                            \/ state'[r] \notin {"Missing", "Processing"}
BY DEF ReleaseSession, IInv, TypeOK

LEMMA SignalledState ==
  ASSUME IInv, NEW s \in Session, NEW t, SignalCancel(s, t)
  PROVE  \A r \in Session : \/ state'[r] = state[r] /\ current'[r] = current[r]
                            \/ state'[r] \notin {"Missing", "Processing"}
BY DEF SignalCancel, IInv, TypeOK

(* Submissions. *)
LEMMA SubmitSession ==
  ASSUME IInv, PlaceInv, SessionInv, NEW t \in Turn, NEW by \in {"caller", "handler"},
         SubmitLocked(Home[t], t, by)
  PROVE  SessionInv'
<1>1. PICK s \in Session : s = Home[t]
  BY SchedulerAssumption
<1>2. /\ t \notin submitted /\ op[s] = NoOp
      /\ UNCHANGED <<state, current, active>>
      /\ \/ SubmitStarts(s, t, by)
         \/ SubmitClearsAndStarts(s, t, by)
         \/ SubmitEnqueues(s, t)
         \/ SubmitEnqueuesAndStartsNext(s, t, by)
         \/ SubmitRefused(s, t)
  BY <1>1 DEF SubmitLocked, Free
<1>3. op \in [Session -> OpType] /\ queue \in [Session -> Seq(Turn)]
  BY DEF IInv, TypeOK, OpType
<1>4. t \notin cancelEvents /\ state[s] \in States
  BY <1>2 DEF PlaceInv, IInv, TypeOK
<1>5. /\ state[s] = "Missing" => queue[s] = <<>> /\ active[s] = NoTurn
      /\ state[s] = "Processing" => current[s] \in Turn /\ Home[current[s]] = s
  BY DEF SessionInv, GoneSessions, CurrentAtHome
<1>6. CASE SubmitStarts(s, t, by)
  <2>1. queue[s] = <<>>
    BY <1>4, <1>5, <1>6 DEF SubmitStarts, QueueAction, StateFact, States
  <2>2. SessionMove(s)
    BY <1>2, <1>3, <1>4, <1>5, <1>6, <2>1 DEF SubmitStarts, BeginStart, StartOp, SessionMove
  <2> QED
    BY <2>2, SessionStep
<1>7. CASE SubmitClearsAndStarts(s, t, by)
  <2>1. \A u \in ToSet(queue[s]) : u # t /\ Home[u] = s
    <3>1. op[s].kind \notin {"start", "record"}
      BY <1>2 DEF NoOp
    <3> QED
      BY <1>2, <3>1, FreePlaces
  <2>2. state[s] = "Error"
    BY <1>4, <1>7 DEF SubmitClearsAndStarts, QueueAction, StateFact, States
  <2>3. SessionMove(s)
    BY <1>2, <1>3, <1>4, <1>7, <2>1, <2>2 DEF SubmitClearsAndStarts, ClearQueue, BeginStart,
       StartOp, SessionMove
  <2> QED
    BY <2>3, SessionStep
<1>8. CASE SubmitEnqueues(s, t)
  <2>1. state[s] # "Missing"
    BY <1>5, <1>8 DEF SubmitEnqueues, QueueAction, StateFact
  <2>2. SessionMove(s)
    BY <1>2, <1>3, <1>5, <1>8, <2>1 DEF SubmitEnqueues, SessionMove, NoOp
  <2> QED
    BY <2>2, SessionStep
<1>9. CASE SubmitEnqueuesAndStartsNext(s, t, by)
  <2>1. state[s] # "Missing"
    BY <1>5, <1>9 DEF SubmitEnqueuesAndStartsNext, QueueAction, StateFact
  <2>2. SessionMove(s)
    BY <1>2, <1>3, <1>5, <1>9, <2>1 DEF SubmitEnqueuesAndStartsNext, BeginStart, StartOp, SessionMove
  <2> QED
    BY <2>2, SessionStep
<1>10. CASE SubmitRefused(s, t)
  BY <1>2, <1>10, StateStep DEF SubmitRefused
<1> QED
  BY <1>2, <1>6, <1>7, <1>8, <1>9, <1>10

LEMMA StartSession ==
  ASSUME IInv, SessionInv, NEW s \in Session, StartStep(s)
  PROVE  SessionInv'
<1>1. op \in [Session -> OpType] /\ queue \in [Session -> Seq(Turn)]
      /\ state \in [Session -> States] /\ active \in [Session -> Turn \cup {NoTurn}]
      /\ current \in [Session -> Turn \cup {NoTurn}]
  BY DEF IInv, TypeOK, OpType
<1>2. op[s].kind \in {"start", "record"} /\ op[s].turn \in Turn /\ Home[op[s].turn] = s
  BY DEF StartStep, StartRejected, StartSaveFails, StartSpawns, StartRecorded, Starting, IInv,
         TurnRefs
<1>3. /\ state[s] = "Missing" => /\ queue[s] = <<>> /\ active[s] = NoTurn /\ op[s].kind # "record"
                                 /\ op[s].kind = "start" => ~op[s].queued
      /\ state[s] = "Processing" => current[s] \in Turn /\ Home[current[s]] = s
  BY DEF SessionInv, GoneSessions, CurrentAtHome
<1>4. CASE StartRejected(s)
  <2>1. SessionMove(s)
    BY <1>1, <1>3, <1>4 DEF StartRejected, Starting, ReleaseLock, PutBack, NoOp, SessionMove
  <2> QED
    BY <2>1, SessionStep
<1>5. CASE StartSaveFails(s)
  <2>1. SessionMove(s)
    BY <1>1, <1>2, <1>5 DEF StartSaveFails, Starting, ReleaseLock, PutBack, NoOp, SessionMove
  <2> QED
    BY <2>1, SessionStep
<1>6. CASE StartSpawns(s)
  <2>1. SessionMove(s)
    BY <1>1, <1>2, <1>6 DEF StartSpawns, SessionMove, OpType
  <2> QED
    BY <2>1, SessionStep
<1>7. CASE StartRecorded(s)
  <2>1. SessionMove(s)
    BY <1>1, <1>2, <1>3, <1>7 DEF StartRecorded, ReleaseLock, NoOp, SessionMove
  <2> QED
    BY <2>1, SessionStep
<1> QED
  BY <1>4, <1>5, <1>6, <1>7 DEF StartStep

LEMMA HandlerSession ==
  ASSUME IInv, PlaceInv, SessionInv, HandlerStep
  PROVE  SessionInv'
<1>1. op \in [Session -> OpType] /\ queue \in [Session -> Seq(Turn)]
      /\ active \in [Session -> Turn \cup {NoTurn}]
  BY DEF IInv, TypeOK, OpType
<1>2. CASE HandlerReceive \/ HandlerSettle
  BY <1>2, StateStep DEF HandlerReceive, HandlerSettle
<1>3. CASE HandlerForwards
  <2>1. PICK r \in Turn : SubmitLocked(Home[r], r, "handler")
    BY <1>3 DEF HandlerForwards, IInv, TurnRefs
  <2> QED
    BY <2>1, SubmitSession
<1>4. CASE HandlerTake
  <2>1. PICK t \in Turn : TakeRetired(t) \/ TakeStale(t) \/ TakeCurrent(t)
    BY <1>4 DEF HandlerTake
  <2>2. PICK s \in Session : s = Home[t]
    BY SchedulerAssumption
  <2>3. op[s] = NoOp /\ UNCHANGED <<op, state, current>>
        /\ (active' = active \/ active' = [active EXCEPT ![s] = NoTurn])
        /\ (UNCHANGED <<queue, cancelEvents>> \/ ClearQueue(s))
    BY <1>4, <2>1, <2>2 DEF HandlerTake, TakeRetired, TakeStale, TakeCurrent, AtTake, Free
  <2>4. \A u \in ToSet(queue[s]) : Home[u] = s
    <3>1. op[s].kind \notin {"start", "record"}
      BY <2>3 DEF NoOp
    <3> QED
      BY <3>1, FreePlaces
  <2>5. /\ state[s] = "Missing" => queue[s] = <<>> /\ active[s] = NoTurn
        /\ state[s] = "Processing" => current[s] \in Turn /\ Home[current[s]] = s
    BY DEF SessionInv, GoneSessions, CurrentAtHome
  <2>6. SessionMove(s)
    BY <1>1, <2>3, <2>4, <2>5 DEF ClearQueue, SessionMove, NoOp
  <2> QED
    BY <2>6, SessionStep
<1>5. CASE HandlerDispatches
  <2>1. PICK s \in Session : s = Home[handler.turn]
    BY <1>5, SchedulerAssumption DEF HandlerDispatches, IInv, TurnRefs
  <2>2. /\ UNCHANGED <<state, current, active, cancelEvents>>
        /\ \/ UNCHANGED <<queue, op>>
           \/ /\ queue[s] # <<>> /\ queue' = [queue EXCEPT ![s] = Dequeue(queue[s])]
              /\ op' = [op EXCEPT ![s] = StartOp(Head(queue[s]), "handler", TRUE)]
    BY <1>5, <2>1 DEF HandlerDispatches, BeginStart
  <2>3. CASE UNCHANGED <<queue, op>>
    BY <2>2, <2>3, StateStep
  <2>4. CASE ~UNCHANGED <<queue, op>>
    <3>1. /\ state[s] # "Missing"
          /\ state[s] = "Processing" => current[s] \in Turn /\ Home[current[s]] = s
      BY <2>2, <2>4 DEF SessionInv, GoneSessions, CurrentAtHome
    <3>2. SessionMove(s)
      BY <1>1, <2>2, <2>4, <3>1 DEF StartOp, SessionMove
    <3> QED
      BY <3>2, SessionStep
  <2> QED
    BY <2>3, <2>4
<1> QED
  BY <1>2, <1>3, <1>4, <1>5 DEF HandlerStep

LEMMA CancelSessionInv ==
  ASSUME IInv, PlaceInv, SessionInv, CancelStep
  PROVE  SessionInv'
<1>1. op \in [Session -> OpType] /\ queue \in [Session -> Seq(Turn)]
      /\ state \in [Session -> States] /\ current \in [Session -> Turn \cup {NoTurn}]
  BY DEF IInv, TypeOK, OpType
<1>2. ASSUME NEW s \in Session, op[s] = NoOp
      PROVE  /\ \A u \in ToSet(queue[s]) : Home[u] = s
             /\ state[s] = "Missing" => queue[s] = <<>> /\ active[s] = NoTurn
             /\ state[s] = "Processing" => current[s] \in Turn /\ Home[current[s]] = s
  <2>1. op[s].kind \notin {"start", "record"}
    BY <1>2 DEF NoOp
  <2> QED
    BY <2>1, FreePlaces DEF SessionInv, GoneSessions, CurrentAtHome
<1>3. ASSUME NEW t \in Turn, CancelQueued(t) PROVE SessionInv'
  <2>1. PICK s \in Session : s = Home[t]
    BY SchedulerAssumption
  <2>2. /\ op[s] = NoOp /\ UNCHANGED <<op, state, current, active>> /\ t \in ToSet(queue[s])
        /\ queue' = [queue EXCEPT ![s] = RemoveTurn(queue[s], t)]
        /\ cancelEvents' = cancelEvents \cup {t}
    BY <1>3, <2>1 DEF CancelQueued, Free
  <2>3. state[s] # "Missing"
    BY <1>2, <2>2, EmptyQueue
  <2>4. SessionMove(s)
    BY <1>1, <1>2, <2>1, <2>2, <2>3 DEF SessionMove, NoOp
  <2> QED
    BY <2>4, SessionStep
<1>4. ASSUME NEW t \in Turn, CancelActive(t) PROVE SessionInv'
  <2>1. Home[t] \in Session
    BY SchedulerAssumption
  <2> QED
    BY <1>4, <2>1, SignalledState, StateStep DEF CancelActive
<1>5. ASSUME NEW s \in Session, NEW r \in Session, NEW timedOut \in BOOLEAN,
             CancelSession(s, r, timedOut)
      PROVE  SessionInv'
  <2>1. CASE state[s] = "Processing"
    BY <1>5, <2>1, SignalledState, StateStep DEF CancelSession
  <2>2. CASE state[s] # "Processing"
    BY <1>5, <2>2, StateStep DEF CancelSession
  <2> QED
    BY <2>1, <2>2
<1>6. ASSUME NEW s \in Session, CancelFails(s) PROVE SessionInv'
  <2>1. /\ op[s] = NoOp /\ UNCHANGED <<op, active>>
        /\ state' = [state EXCEPT ![s] = "Idle"] /\ current' = [current EXCEPT ![s] = NoTurn]
        /\ UNCHANGED <<queue, cancelEvents>> \/ ClearQueue(s)
    BY <1>6 DEF CancelFails, Free, CancelUnsaved
  <2>2. SessionMove(s)
    BY <1>1, <1>2, <2>1 DEF SessionMove, ClearQueue, NoOp
  <2> QED
    BY <2>2, SessionStep
<1> QED
  BY <1>3, <1>4, <1>5, <1>6 DEF CancelStep

LEMMA MaintenanceSession ==
  ASSUME IInv, PlaceInv, SessionInv, NEW s \in Session, MaintenanceStep(s)
  PROVE  SessionInv'
<1>1. op \in [Session -> OpType] /\ queue \in [Session -> Seq(Turn)]
      /\ state \in [Session -> States] /\ current \in [Session -> Turn \cup {NoTurn}]
      /\ active \in [Session -> Turn \cup {NoTurn}]
  BY DEF IInv, TypeOK, OpType
<1>2. /\ state[s] = "Missing" => queue[s] = <<>> /\ active[s] = NoTurn
      /\ state[s] = "Processing" => current[s] \in Turn /\ Home[current[s]] = s
  BY DEF SessionInv, GoneSessions, CurrentAtHome
<1>3. CASE MaintenanceBegins(s)
  <2>1. /\ op[s] = NoOp /\ ClearQueue(s) /\ UNCHANGED active
        /\ op' = [op EXCEPT ![s] = [NoOp EXCEPT !.kind = "drain"]]
    BY <1>3 DEF MaintenanceBegins, Free
  <2>2. \A u \in ToSet(queue[s]) : Home[u] = s
    <3>1. op[s].kind \notin {"start", "record"}
      BY <2>1 DEF NoOp
    <3> QED
      BY <3>1, FreePlaces
  <2>3. /\ state' = state /\ current' = current /\ state[s] # "Processing"
        \/ /\ state' = [state EXCEPT ![s] = "Idle"]
           /\ current' = [current EXCEPT ![s] = NoTurn]
    BY <1>3 DEF MaintenanceBegins, SignalCancel
  <2>4. op'[s].kind = "drain" /\ \A r \in Session : r # s => op'[r] = op[r]
    BY <1>1, <2>1 DEF NoOp
  <2>5. SessionMove(s)
    BY <1>1, <1>2, <2>1, <2>2, <2>3, <2>4 DEF SessionMove, ClearQueue
  <2> QED
    BY <2>5, SessionStep
<1>4. CASE MaintenanceGranted(s)
  <2>1. SessionMove(s)
    BY <1>1, <1>2, <1>4 DEF MaintenanceGranted, SessionMove, OpType
  <2> QED
    BY <2>1, SessionStep
<1>5. CASE MaintenanceTimesOut(s)
  <2>1. SessionMove(s)
    BY <1>1, <1>2, <1>5 DEF MaintenanceTimesOut, SessionMove, NoOp
  <2> QED
    BY <2>1, SessionStep
<1>6. ASSUME NEW deleted \in BOOLEAN, MaintenanceEnds(s, deleted) PROVE SessionInv'
  <2>1. queue[s] = <<>> /\ active[s] = NoTurn
    BY <1>6 DEF MaintenanceEnds, IInv, MaintenanceInv
  <2>2. SessionMove(s)
    BY <1>1, <1>2, <1>6, <2>1 DEF MaintenanceEnds, SessionMove, NoOp
  <2> QED
    BY <2>2, SessionStep
<1>7. CASE CreateSession(s)
  BY <1>1, <1>7, StateStep DEF CreateSession
<1> QED
  BY <1>3, <1>4, <1>5, <1>6, <1>7 DEF MaintenanceStep

LEMMA NextSession == ASSUME IInv, PlaceInv, SessionInv, [Next]_vars PROVE SessionInv'
<1>1. CASE UNCHANGED vars
  BY <1>1, StateStep DEF vars
<1>2. ASSUME NEW t \in Turn, Submit(t) PROVE SessionInv'
  BY <1>2, SubmitSession DEF Submit
<1>3. ASSUME NEW t \in Turn, ExecStep(t) \/ Panic(t) PROVE SessionInv'
  <2>1. CASE Report(t)
    BY <2>1, StateStep DEF Report
  <2>2. CASE ~Report(t)
    <3>1. PICK new \in {"Idle", "Error"} : ReleaseSession(t, new)
      BY <1>3, <2>2 DEF ExecStep, Finish, Drain, Panic
    <3>2. UNCHANGED <<op, queue, active, cancelEvents>>
      BY <1>3, <2>2 DEF ExecStep, Finish, Drain, Panic
    <3> QED
      BY <3>1, <3>2, ReleasedState, StateStep
  <2> QED
    BY <2>1, <2>2
<1>4. ASSUME NEW s \in Session, StartStep(s) \/ MaintenanceStep(s) PROVE SessionInv'
  BY <1>4, StartSession, MaintenanceSession
<1> QED
  BY <1>1, <1>2, <1>3, <1>4, HandlerSession, CancelSessionInv DEF Next

LEMMA InitSession == Init => SessionInv
  BY DEF Init, SessionInv, DirectStarts, GoneSessions, CurrentAtHome, NoOp

(* Direct starts, sessions that are not loaded, and sessions at work. *)
THEOREM SessionsHold == Spec => []SessionInv
BY InitSession, NextSession, Invariance, Places, PTL DEF Spec

--------------------------------------------------------------------------------
(* The sequence operators that SessionTurns takes from the library are those of
   DialogTurnQueue. *)
LEMMA SameOperators ==
  /\ \A q : Turns!ToSet(q) = ToSet(q)
  /\ \A q, i, t : Turns!InsertAt(q, i, t) = InsertAt(q, i, t)
  /\ \A q, t : Turns!RemoveFirst(q, t) = RemoveTurn(q, t)
<1>1. \A q : Turns!ToSet(q) = ToSet(q)
  BY DEF Turns!ToSet, ToSet
<1>2. \A q, i, t : Turns!InsertAt(q, i, t) = InsertAt(q, i, t)
  BY DEF Turns!InsertAt, InsertAt
<1>3. \A q, t : Turns!RemoveFirst(q, t) = RemoveTurn(q, t)
  BY DEF Turns!RemoveFirst, RemoveFirst, RemoveTurn, Turns!RemoveAt, RemoveAt, Turns!SelectInSeq,
     SelectInSeq, Turns!Min, Min
<1> QED
  BY <1>1, <1>2, <1>3

(* What a step on session s does to its line. *)
LEMMA LineStep ==
  ASSUME NEW s \in Session,
         \A r \in Session : r # s => op'[r] = op[r] /\ queue'[r] = queue[r]
  PROVE  /\ Line' = [Line EXCEPT ![s] = PendingOf(op'[s], queue'[s])]
         /\ Line[s] = PendingOf(op[s], queue[s])
BY DEF Line, Pending, PendingOf

LEMMA LineKept == UNCHANGED <<op, queue>> => UNCHANGED Line
BY DEF Line, Pending

LEMMA TurnsKept ==
  UNCHANGED <<exec, signalled, forsaken, cancelEvents>> =>
    UNCHANGED <<Running, Stopped, Ended, cancelEvents>>
BY DEF Running, Stopped, Ended

(* A step the abstract specification does not see. *)
LEMMA Unseen ==
  UNCHANGED <<Line, Running, Stopped, Ended, cancelEvents>> => [Turns!Next]_(Turns!ledger)
BY DEF Turns!ledger

(* Of an idle session every execution that still runs was told to stop. *)
LEMMA IdleStopped ==
  ASSUME IInv, NEW s \in Session, state[s] # "Processing"
  PROVE  Turns!Of(s) \subseteq Stopped
BY DEF IInv, RunningOwnsSession, Turns!Of, Running, Stopped

LEMMA NewTurn ==
  ASSUME IInv, PlaceInv, NEW t \in Turn, t \notin submitted
  PROVE  Turns!New(t)
<1>1. Home[t] \in Session
  BY SchedulerAssumption
<1>2. exec[t] = "none" /\ t \notin cancelEvents /\ t \notin ToSet(Pending(Home[t]))
  BY <1>1 DEF PlaceInv
<1> QED
  BY <1>1, <1>2, SameOperators DEF Turns!New, Running, Ended, Line

LEMMA JoinStep ==
  ASSUME IInv, PlaceInv, NEW t \in Turn, NEW s \in Session, s = Home[t], t \notin submitted,
         Len(Line[s]) < MaxDepth,
         Line' = [Line EXCEPT ![s] = Enqueue(Line[s], t)],
         UNCHANGED <<Running, Stopped, Ended, cancelEvents>>
  PROVE  Turns!Join(t)
<1> DEFINE q == Line[s]
<1>1. q \in Seq(Turn) /\ ByPriority(q)
  BY DEF Line, IInv, QueueInv, GoodQueue
<1>2. PICK i \in 1..(Len(q) + 1) :
           /\ Enqueue(q, t) = InsertAt(q, i, t)
           /\ \A j \in 1..Len(q) : j < i <=> Priority[q[j]] >= Priority[t]
  BY <1>1, EnqueuePlace
<1>3. Line' = [Line EXCEPT ![s] = Turns!InsertAt(q, i, t)]
  BY <1>2, SameOperators
<1>4. Turns!New(t)
  BY NewTurn
<1> QED
  BY <1>2, <1>3, <1>4 DEF Turns!Join

(* The queue is emptied, and what runs has been told to stop, or is now. *)
LEMMA ClearStep ==
  ASSUME IInv, NEW s \in Session, op[s] = NoOp, ClearQueue(s),
         NEW o, op' = [op EXCEPT ![s] = o], o.kind # "start" \/ ~o.queued,
         UNCHANGED exec, Stopped' = Stopped \cup Turns!Of(s)
  PROVE  Turns!Clear(s)
<1>1. Line' = [Line EXCEPT ![s] = <<>>] /\ Line[s] = queue[s]
  <2>1. op \in [Session -> OpType] /\ queue \in [Session -> Seq(Turn)]
    BY DEF IInv, TypeOK, OpType
  <2>2. /\ op'[s] = o /\ queue'[s] = <<>>
        /\ \A r \in Session : r # s => op'[r] = op[r] /\ queue'[r] = queue[r]
    BY <2>1 DEF ClearQueue
  <2>3. PendingOf(o, <<>>) = <<>> /\ PendingOf(op[s], queue[s]) = queue[s]
    BY DEF PendingOf, NoOp
  <2> QED
    BY <2>2, <2>3, LineStep
<1>2. cancelEvents' = cancelEvents \cup Turns!ToSet(Line[s])
  BY <1>1, SameOperators DEF ClearQueue
<1> QED
  BY <1>1, <1>2 DEF Turns!Clear, Running, Ended

LEMMA SubmitSeen ==
  ASSUME IInv, PlaceInv, NEW t \in Turn, NEW by \in {"caller", "handler"},
         SubmitLocked(Home[t], t, by)
  PROVE  [Turns!Next]_(Turns!ledger)
<1>1. PICK s \in Session : s = Home[t]
  BY SchedulerAssumption
<1>2. /\ t \notin submitted /\ op[s] = NoOp
      /\ UNCHANGED <<state, current, active, exec, signalled, forsaken>>
      /\ \/ SubmitStarts(s, t, by)
         \/ SubmitClearsAndStarts(s, t, by)
         \/ SubmitEnqueues(s, t)
         \/ SubmitEnqueuesAndStartsNext(s, t, by)
         \/ SubmitRefused(s, t)
  BY <1>1 DEF SubmitLocked, Free
<1>3. op \in [Session -> OpType] /\ queue \in [Session -> Seq(Turn)] /\ state[s] \in States
  BY DEF IInv, TypeOK, OpType
<1>4. PendingOf(op[s], queue[s]) = queue[s] /\ Pending(s) = queue[s]
  BY <1>2 DEF PendingOf, Pending, NoOp
<1>5. GoodQueue(s, queue[s])
  BY <1>4 DEF IInv, QueueInv
<1>6. CASE SubmitStarts(s, t, by)
  <2> DEFINE o == StartOp(t, by, FALSE)
  <2>1. op' = [op EXCEPT ![s] = o] /\ queue' = [queue EXCEPT ![s] = queue[s]]
    BY <1>3, <1>6 DEF SubmitStarts, BeginStart
  <2>2. PendingOf(o, queue[s]) = queue[s]
    BY DEF PendingOf, StartOp
  <2> HIDE DEF o
  <2>3. Line' = [Line EXCEPT ![s] = queue[s]] /\ Line[s] = queue[s]
    BY <1>3, <1>4, <2>1, <2>2, LineStep
  <2>4. Line' = Line
    BY <2>3 DEF Line
  <2> QED
    BY <1>2, <1>6, <2>4, TurnsKept, Unseen DEF SubmitStarts
<1>7. CASE SubmitClearsAndStarts(s, t, by)
  <2> DEFINE o == StartOp(t, by, FALSE)
  <2>1. op' = [op EXCEPT ![s] = o] /\ ~o.queued /\ ClearQueue(s)
    BY <1>7 DEF SubmitClearsAndStarts, BeginStart, StartOp
  <2>2. state[s] = "Error"
    BY <1>3, <1>7 DEF SubmitClearsAndStarts, QueueAction, StateFact, States
  <2>3. Stopped' = Stopped \cup Turns!Of(s)
    BY <1>2, <2>2, IdleStopped DEF Stopped
  <2> HIDE DEF o
  <2>4. Turns!Clear(s)
    BY <1>2, <2>1, <2>3, ClearStep
  <2> QED
    BY <2>4 DEF Turns!Next
<1>8. CASE SubmitEnqueues(s, t)
  <2>1. /\ op' = [op EXCEPT ![s] = op[s]] /\ queue' = [queue EXCEPT ![s] = Enqueue(queue[s], t)]
        /\ Len(queue[s]) < MaxDepth /\ UNCHANGED cancelEvents
    BY <1>3, <1>8, QueueAssumption DEF SubmitEnqueues, Refused, Full
  <2>2. PendingOf(op[s], Enqueue(queue[s], t)) = Enqueue(queue[s], t)
    BY <1>2 DEF PendingOf, NoOp
  <2>3. Line' = [Line EXCEPT ![s] = Enqueue(queue[s], t)] /\ Line[s] = queue[s]
    BY <1>3, <1>4, <2>1, <2>2, LineStep
  <2>4. Turns!Join(t)
    BY <1>1, <1>2, <2>1, <2>3, TurnsKept, JoinStep
  <2> QED
    BY <2>4 DEF Turns!Next
<1>9. CASE SubmitEnqueuesAndStartsNext(s, t, by)
  <2> DEFINE q == Enqueue(queue[s], t)
             o == StartOp(Head(q), by, TRUE)
  <2>1. /\ op' = [op EXCEPT ![s] = o] /\ queue' = [queue EXCEPT ![s] = Dequeue(q)]
        /\ ~Full(queue[s]) /\ UNCHANGED cancelEvents
    BY <1>3, <1>9, QueueAssumption DEF SubmitEnqueuesAndStartsNext, BeginStart, Refused
  <2>2. GoodQueue(s, q) /\ q # <<>>
    BY <1>1, <1>5, <2>1, GoodEnqueue
  <2> HIDE DEF q
  <2>3. PendingOf(o, Dequeue(q)) = <<Head(q)>> \o Dequeue(q)
    BY DEF PendingOf, StartOp
  <2>4. <<Head(q)>> \o Dequeue(q) = q
    BY <2>2, GoodHead
  <2> HIDE DEF o
  <2>5. Line' = [Line EXCEPT ![s] = q] /\ Line[s] = queue[s]
    BY <1>3, <1>4, <2>1, <2>3, <2>4, LineStep
  <2>6. Len(queue[s]) < MaxDepth
    BY <1>3, <2>1, QueueAssumption DEF Full
  <2>7. Turns!Join(t)
    BY <1>1, <1>2, <2>1, <2>5, <2>6, TurnsKept, JoinStep DEF q
  <2> QED
    BY <2>7 DEF Turns!Next
<1>10. CASE SubmitRefused(s, t)
  BY <1>2, <1>10, LineKept, TurnsKept, Unseen DEF SubmitRefused
<1> QED
  BY <1>2, <1>6, <1>7, <1>8, <1>9, <1>10

(* A start that fails puts its turn back where it was; a start that is recorded
   had left the line already. *)
LEMMA StartSeen ==
  ASSUME IInv, PlaceInv, SessionInv, NEW s \in Session, StartStep(s)
  PROVE  [Turns!Next]_(Turns!ledger)
<1>1. op \in [Session -> OpType] /\ queue \in [Session -> Seq(Turn)] /\ exec \in [Turn -> {"none",
        "running", "closing", "reported", "done"}]
  BY DEF IInv, TypeOK, OpType
<1>2. op[s].kind \in {"start", "record"} /\ op[s].turn \in Turn /\ Home[op[s].turn] = s
  BY DEF StartStep, StartRejected, StartSaveFails, StartSpawns, StartRecorded, Starting, IInv,
         TurnRefs
<1>3. CASE StartRejected(s) \/ StartSaveFails(s)
  <2>1. /\ op[s].kind = "start" /\ op' = [op EXCEPT ![s] = NoOp] /\ PutBack(s)
        /\ UNCHANGED <<exec, signalled, forsaken, cancelEvents>>
    BY <1>3 DEF StartRejected, StartSaveFails, Starting, ReleaseLock
  <2>2. op'[s] = NoOp /\ \A r \in Session : r # s => op'[r] = op[r] /\ queue'[r] = queue[r]
    BY <1>1, <2>1 DEF PutBack
  <2>3. queue'[s] = PendingOf(op[s], queue[s])
    BY <1>1, <2>1 DEF PutBack, RequeueFront, PendingOf
  <2>4. PendingOf(NoOp, queue'[s]) = queue'[s]
    BY DEF PendingOf, NoOp
  <2>5. Line' = [Line EXCEPT ![s] = Line[s]]
    BY <2>2, <2>3, <2>4, LineStep
  <2>6. Line' = Line
    BY <2>5 DEF Line
  <2> QED
    BY <2>1, <2>6, TurnsKept, Unseen
<1>4. CASE StartSpawns(s)
  <2> DEFINE t == op[s].turn
  <2>1. /\ op[s].kind = "start" /\ state[s] \in {"Idle", "Error"}
        /\ op' = [op EXCEPT ![s].kind = "record"] /\ UNCHANGED <<queue, signalled, forsaken, cancelEvents>>
        /\ exec' = [exec EXCEPT ![t] = "running"]
    BY <1>4 DEF StartSpawns, Starting
  <2>2. op'[s].kind = "record" /\ \A r \in Session : r # s => op'[r] = op[r] /\ queue'[r] = queue[r]
    BY <1>1, <2>1 DEF OpType
  <2>3. PendingOf(op'[s], queue'[s]) = queue[s]
    BY <2>1, <2>2 DEF PendingOf
  <2>4. Line' = [Line EXCEPT ![s] = queue[s]] /\ Line[s] = PendingOf(op[s], queue[s])
    BY <2>2, <2>3, LineStep
  <2>5. exec[t] = "none"
    BY <2>1 DEF PlaceInv
  <2>6. Running' = Running \cup {t} /\ UNCHANGED <<Stopped, Ended, cancelEvents>>
    BY <1>1, <1>2, <2>1, <2>5 DEF Running, Stopped, Ended
  <2>7. Turns!Of(s) \subseteq Stopped
    BY <2>1, IdleStopped
  <2>8. IF Line[s] = <<>> THEN Turns!New(t) /\ UNCHANGED Line
                          ELSE t = Head(Line[s]) /\ Line' = [Line EXCEPT ![s] = Tail(Line[s])]
    <3>1. CASE op[s].queued
      <4>1. Line[s] = <<t>> \o queue[s]
        BY <2>1, <2>4, <3>1 DEF PendingOf
      <4>2. Line[s] # <<>> /\ Head(Line[s]) = t /\ Tail(Line[s]) = queue[s]
        BY <1>1, <1>2, <4>1
      <4> QED
        BY <2>4, <4>2
    <3>2. CASE ~op[s].queued
      <4>1. queue[s] = <<>> /\ t \notin cancelEvents
        BY <2>1, <3>2 DEF SessionInv, DirectStarts
      <4>2. Line[s] = <<>>
        BY <2>4, <3>2, <4>1 DEF PendingOf
      <4>3. Line' = Line
        BY <2>4, <4>1, <4>2 DEF Line
      <4>4. Turns!New(t)
        BY <1>2, <2>5, <4>1, <4>2, EmptyQueue, SameOperators DEF Turns!New, Running, Ended
      <4> QED
        BY <4>2, <4>3, <4>4
    <3> QED
      BY <3>1, <3>2
  <2>9. Turns!Begin(t)
    BY <1>2, <2>6, <2>7, <2>8 DEF Turns!Begin
  <2> QED
    BY <1>2, <2>9 DEF Turns!Next
<1>5. CASE StartRecorded(s)
  <2>1. /\ op[s].kind = "record" /\ op' = [op EXCEPT ![s] = NoOp]
        /\ UNCHANGED <<queue, exec, signalled, forsaken, cancelEvents>>
    BY <1>5 DEF StartRecorded, ReleaseLock
  <2>2. op'[s] = NoOp /\ \A r \in Session : r # s => op'[r] = op[r] /\ queue'[r] = queue[r]
    BY <1>1, <2>1
  <2>3. PendingOf(NoOp, queue'[s]) = queue[s] /\ PendingOf(op[s], queue[s]) = queue[s]
    BY <2>1 DEF PendingOf, NoOp
  <2>4. Line' = [Line EXCEPT ![s] = Line[s]]
    BY <2>2, <2>3, LineStep
  <2>5. Line' = Line
    BY <2>4 DEF Line
  <2> QED
    BY <2>1, <2>5, TurnsKept, Unseen
<1> QED
  BY <1>3, <1>4, <1>5 DEF StartStep

LEMMA ExecSeen ==
  ASSUME IInv, NEW t \in Turn, ExecStep(t) \/ Panic(t)
  PROVE  [Turns!Next]_(Turns!ledger)
<1>1. /\ exec \in [Turn -> {"none", "running", "closing", "reported", "done"}]
      /\ UNCHANGED <<op, queue, signalled, forsaken, cancelEvents>>
  BY DEF ExecStep, Finish, Report, Drain, Panic, IInv, TypeOK
<1>2. UNCHANGED <<Line, Stopped, cancelEvents>>
  BY <1>1, LineKept DEF Stopped
<1>3. CASE Report(t) \/ Drain(t)
  <2>1. UNCHANGED <<Running, Ended>>
    BY <1>1, <1>3 DEF Report, Drain, Running, Ended
  <2> QED
    BY <1>2, <2>1, Unseen
<1>4. CASE (\E v \in Verdicts : Finish(t, v)) \/ Panic(t)
  <2>1. t \in Running /\ Running' = Running \ {t} /\ Ended' = Ended \cup {t}
    BY <1>1, <1>4 DEF Finish, Panic, Running, Ended
  <2>2. Turns!End(t)
    BY <1>2, <2>1 DEF Turns!End
  <2> QED
    BY <2>2 DEF Turns!Next
<1> QED
  BY <1>3, <1>4 DEF ExecStep

(* A failure clears the queue when no execution of its session runs on. *)
LEMMA TakeSeen ==
  ASSUME IInv, LifeInv, HandlerTake
  PROVE  [Turns!Next]_(Turns!ledger)
<1>1. PICK t \in Turn : TakeRetired(t) \/ TakeStale(t) \/ TakeCurrent(t)
  BY DEF HandlerTake
<1>2. PICK s \in Session : s = Home[t]
  BY SchedulerAssumption
<1>3. UNCHANGED <<op, exec, signalled, forsaken>>
  BY DEF HandlerTake
<1>4. CASE UNCHANGED <<queue, cancelEvents>>
  BY <1>3, <1>4, LineKept, TurnsKept, Unseen
<1>5. CASE ~UNCHANGED <<queue, cancelEvents>>
  <2>1. TakeCurrent(t) /\ ClearQueue(s)
    BY <1>1, <1>2, <1>5 DEF TakeRetired, TakeStale, TakeCurrent
  <2>2. active[s] \in {t, NoTurn} /\ handler.pc = "take" /\ handler.turn = t /\ op[s] = NoOp
    BY <1>2, <2>1 DEF TakeCurrent, AtTake, Stale, Free
  <2>3. ASSUME NEW u \in Turn, Home[u] = s, exec[u] = "running", u \notin signalled \cup forsaken
        PROVE  FALSE
    <3>1. u = active[s]
      BY <2>2, <2>3 DEF LifeInv, RunningIsAwaited, NoOp
    <3>2. u = t
      BY <2>2, <3>1, SchedulerAssumption
    <3> QED
      BY <2>2, <2>3, <3>2 DEF LifeInv, ReportedTurns
  <2>4. Stopped' = Stopped \cup Turns!Of(s)
    BY <1>3, <2>3 DEF Turns!Of, Running, Stopped
  <2>5. op' = [op EXCEPT ![s] = NoOp] /\ ~NoOp.queued
    BY <1>3, <2>2 DEF IInv, TypeOK, NoOp
  <2>6. Turns!Clear(s)
    BY <1>3, <2>1, <2>2, <2>4, <2>5, ClearStep
  <2> QED
    BY <2>6 DEF Turns!Next
<1> QED
  BY <1>4, <1>5

LEMMA HandlerSeen ==
  ASSUME IInv, PlaceInv, LifeInv, HandlerStep
  PROVE  [Turns!Next]_(Turns!ledger)
<1>1. CASE HandlerReceive \/ HandlerSettle
  BY <1>1, LineKept, TurnsKept, Unseen DEF HandlerReceive, HandlerSettle
<1>2. CASE HandlerForwards
  <2>1. PICK r \in Turn : SubmitLocked(Home[r], r, "handler")
    BY <1>2 DEF HandlerForwards, IInv, TurnRefs
  <2> QED
    BY <2>1, SubmitSeen
<1>3. CASE HandlerDispatches
  <2>1. PICK s \in Session : s = Home[handler.turn]
    BY <1>3, SchedulerAssumption DEF HandlerDispatches, IInv, TurnRefs
  <2>2. /\ UNCHANGED <<exec, signalled, forsaken, cancelEvents>> /\ op[s] = NoOp
        /\ \/ UNCHANGED <<queue, op>>
           \/ /\ queue[s] # <<>> /\ queue' = [queue EXCEPT ![s] = Dequeue(queue[s])]
              /\ op' = [op EXCEPT ![s] = StartOp(Head(queue[s]), "handler", TRUE)]
    BY <1>3, <2>1 DEF HandlerDispatches, BeginStart, Free
  <2>3. CASE UNCHANGED <<queue, op>>
    BY <2>2, <2>3, LineKept, TurnsKept, Unseen
  <2>4. CASE ~UNCHANGED <<queue, op>>
    <3> DEFINE o == StartOp(Head(queue[s]), "handler", TRUE)
    <3>1. op \in [Session -> OpType] /\ queue \in [Session -> Seq(Turn)]
      BY DEF IInv, TypeOK, OpType
    <3>2. PendingOf(op[s], queue[s]) = queue[s] /\ Pending(s) = queue[s]
      BY <2>2 DEF PendingOf, Pending, NoOp
    <3>3. <<Head(queue[s])>> \o Dequeue(queue[s]) = queue[s]
      BY <2>2, <2>4, <3>2, GoodHead DEF IInv, QueueInv
    <3>4. PendingOf(o, Dequeue(queue[s])) = queue[s]
      BY <3>3 DEF PendingOf, StartOp
    <3> HIDE DEF o
    <3>5. /\ op'[s] = o /\ queue'[s] = Dequeue(queue[s])
          /\ \A r \in Session : r # s => op'[r] = op[r] /\ queue'[r] = queue[r]
      BY <2>2, <2>4, <3>1 DEF o
    <3>6. Line' = [Line EXCEPT ![s] = Line[s]]
      BY <3>2, <3>4, <3>5, LineStep
    <3>7. Line' = Line
      BY <3>6 DEF Line
    <3> QED
      BY <2>2, <3>7, TurnsKept, Unseen
  <2> QED
    BY <2>3, <2>4
<1> QED
  BY <1>1, <1>2, <1>3, TakeSeen DEF HandlerStep

(* A signal stops a turn that runs, and nothing else is seen of it. *)
LEMMA SignalSeen ==
  ASSUME IInv, NEW s \in Session, NEW t \in Turn, SignalCancel(s, t),
         UNCHANGED <<op, queue, exec, cancelEvents>>
  PROVE  [Turns!Next]_(Turns!ledger)
<1>1. UNCHANGED <<Line, Running, Ended, cancelEvents, forsaken>>
  BY LineKept DEF Running, Ended, SignalCancel
<1>2. CASE exec[t] = "running"
  <2>1. t \in Running /\ Stopped' = Stopped \cup {t}
    BY <1>1, <1>2 DEF Running, Stopped, SignalCancel
  <2>2. Turns!Stop(t)
    BY <1>1, <2>1 DEF Turns!Stop
  <2> QED
    BY <2>2 DEF Turns!Next
<1>3. CASE exec[t] # "running"
  <2>1. UNCHANGED Stopped
    BY <1>1, <1>3 DEF Stopped, SignalCancel
  <2> QED
    BY <1>1, <2>1, Unseen
<1> QED
  BY <1>2, <1>3

LEMMA CancelSeen ==
  ASSUME IInv, PlaceInv, SessionInv, CancelStep
  PROVE  [Turns!Next]_(Turns!ledger)
<1>1. /\ op \in [Session -> OpType] /\ queue \in [Session -> Seq(Turn)]
      /\ UNCHANGED <<op, exec>>
  BY DEF IInv, TypeOK, OpType, CancelStep, CancelQueued, CancelActive, CancelSession, CancelFails
<1>2. ASSUME NEW t \in Turn, CancelQueued(t) PROVE [Turns!Next]_(Turns!ledger)
  <2>1. PICK s \in Session : s = Home[t]
    BY SchedulerAssumption
  <2>2. /\ op[s] = NoOp /\ UNCHANGED <<signalled, forsaken>> /\ t \in ToSet(queue[s])
        /\ queue' = [queue EXCEPT ![s] = RemoveTurn(queue[s], t)]
        /\ cancelEvents' = cancelEvents \cup {t}
    BY <1>2, <2>1 DEF CancelQueued, Free
  <2>3. \A q : PendingOf(op[s], q) = q
    BY <2>2 DEF PendingOf, NoOp
  <2>4. /\ op'[s] = op[s] /\ queue'[s] = RemoveTurn(queue[s], t)
        /\ \A r \in Session : r # s => op'[r] = op[r] /\ queue'[r] = queue[r]
    BY <1>1, <2>2
  <2>5. Line' = [Line EXCEPT ![s] = RemoveTurn(Line[s], t)] /\ Line[s] = queue[s]
    BY <2>3, <2>4, LineStep
  <2>6. UNCHANGED <<Running, Stopped, Ended>>
    BY <1>1, <2>2 DEF Running, Stopped, Ended
  <2>7. Turns!Leave(t)
    BY <2>1, <2>2, <2>5, <2>6, SameOperators DEF Turns!Leave
  <2> QED
    BY <2>7 DEF Turns!Next
<1>3. ASSUME NEW t \in Turn, CancelActive(t) PROVE [Turns!Next]_(Turns!ledger)
  <2>1. Home[t] \in Session
    BY SchedulerAssumption
  <2> QED
    BY <1>3, <2>1, SignalSeen DEF CancelActive
<1>4. ASSUME NEW s \in Session, NEW r \in Session, NEW timedOut \in BOOLEAN,
             CancelSession(s, r, timedOut)
      PROVE  [Turns!Next]_(Turns!ledger)
  <2>1. CASE state[s] = "Processing"
    <3>1. current[s] \in Turn
      BY <2>1 DEF IInv, TurnRefs
    <3> QED
      BY <1>4, <2>1, <3>1, SignalSeen DEF CancelSession
  <2>2. CASE state[s] # "Processing"
    BY <1>4, <2>2, LineKept, TurnsKept, Unseen DEF CancelSession
  <2> QED
    BY <2>1, <2>2
<1>5. ASSUME NEW s \in Session, CancelFails(s) PROVE [Turns!Next]_(Turns!ledger)
  <2> DEFINE t == current[s]
  <2>1. /\ op[s] = NoOp /\ state[s] = "Processing" /\ UNCHANGED signalled
        /\ forsaken' = forsaken \cup {u \in {t} : exec[u] = "running"}
        /\ UNCHANGED <<queue, cancelEvents>> \/ ClearQueue(s)
    BY <1>5 DEF CancelFails, Free, CancelUnsaved
  <2>2. t \in Turn /\ Home[t] = s
    BY <2>1 DEF SessionInv, CurrentAtHome
  <2>3. CASE ClearQueue(s)
    <3>1. \A u \in Turn : Home[u] = s /\ exec[u] = "running" /\ u # t => u \in Stopped
      BY <2>1 DEF IInv, RunningOwnsSession, Stopped
    <3>2. Stopped' = Stopped \cup Turns!Of(s)
      BY <2>1, <2>2, <3>1 DEF Turns!Of, Running, Stopped
    <3>3. op' = [op EXCEPT ![s] = NoOp] /\ ~NoOp.queued
      BY <1>1, <2>1 DEF NoOp
    <3>4. Turns!Clear(s)
      BY <1>1, <2>1, <2>3, <3>2, <3>3, ClearStep
    <3> QED
      BY <3>4 DEF Turns!Next
  <2>4. CASE UNCHANGED <<queue, cancelEvents>>
    <3>1. UNCHANGED <<Line, Running, Ended, cancelEvents>>
      BY <1>1, <2>4, LineKept DEF Running, Ended
    <3>2. CASE exec[t] = "running"
      <4>1. t \in Running /\ Stopped' = Stopped \cup {t}
        BY <2>1, <2>2, <3>2 DEF Running, Stopped
      <4>2. Turns!Stop(t)
        BY <3>1, <4>1 DEF Turns!Stop
      <4> QED
        BY <2>2, <4>2 DEF Turns!Next
    <3>3. CASE exec[t] # "running"
      <4>1. UNCHANGED Stopped
        BY <2>1, <3>3 DEF Stopped
      <4> QED
        BY <3>1, <4>1, Unseen
    <3> QED
      BY <3>2, <3>3
  <2> QED
    BY <2>1, <2>3, <2>4
<1> QED
  BY <1>2, <1>3, <1>4, <1>5 DEF CancelStep

LEMMA MaintenanceSeen ==
  ASSUME IInv, SessionInv, NEW s \in Session, MaintenanceStep(s)
  PROVE  [Turns!Next]_(Turns!ledger)
<1>1. op \in [Session -> OpType] /\ queue \in [Session -> Seq(Turn)]
  BY DEF IInv, TypeOK, OpType
<1>2. CASE MaintenanceBegins(s)
  <2> DEFINE o == [NoOp EXCEPT !.kind = "drain"]
             t == current[s]
  <2>1. op[s] = NoOp /\ ClearQueue(s) /\ UNCHANGED exec /\ op' = [op EXCEPT ![s] = o]
    BY <1>2 DEF MaintenanceBegins, Free
  <2>2. ~o.queued
    BY DEF NoOp
  <2> HIDE DEF o
  <2>3. Stopped' = Stopped \cup Turns!Of(s)
    <3>1. CASE state[s] = "Processing"
      <4>1. /\ forsaken' = forsaken
            /\ signalled' = IF exec[t] = "running" THEN signalled \cup {t} ELSE signalled
        BY <1>2, <3>1 DEF MaintenanceBegins, SignalCancel
      <4>2. t \in Turn /\ Home[t] = s
        BY <3>1 DEF SessionInv, CurrentAtHome
      <4>3. \A u \in Turn : Home[u] = s /\ exec[u] = "running" /\ u # t => u \in Stopped
        BY DEF IInv, RunningOwnsSession, Stopped
      <4> QED
        BY <4>1, <4>2, <4>3 DEF Turns!Of, Running, Stopped
    <3>2. CASE state[s] # "Processing"
      BY <1>2, <3>2, IdleStopped DEF MaintenanceBegins, Stopped
    <3> QED
      BY <3>1, <3>2
  <2>4. Turns!Clear(s)
    BY <2>1, <2>2, <2>3, ClearStep
  <2> QED
    BY <2>4 DEF Turns!Next
<1>3. CASE ~MaintenanceBegins(s)
  <2>1. UNCHANGED <<queue, exec, signalled, forsaken, cancelEvents>>
    BY <1>3 DEF MaintenanceStep, MaintenanceGranted, MaintenanceTimesOut, MaintenanceEnds,
       CreateSession
  <2>2. \/ op' = op
        \/ /\ op[s].kind \in {"drain", "permit"} /\ \A r \in Session : r # s => op'[r] = op[r]
           /\ op'[s].kind \in {"none", "permit"}
    BY <1>1, <1>3 DEF MaintenanceStep, MaintenanceGranted, MaintenanceTimesOut, MaintenanceEnds,
       CreateSession, OpType, NoOp
  <2>3. Line' = Line
    BY <2>1, <2>2 DEF Line, Pending
  <2> QED
    BY <2>1, <2>3, TurnsKept, Unseen
<1> QED
  BY <1>2, <1>3

LEMMA NextSeen ==
  ASSUME IInv, PlaceInv, LifeInv, SessionInv, [Next]_vars
  PROVE  [Turns!Next]_(Turns!ledger)
<1>1. CASE UNCHANGED vars
  BY <1>1, LineKept, TurnsKept, Unseen DEF vars
<1>2. ASSUME NEW t \in Turn, Submit(t) PROVE [Turns!Next]_(Turns!ledger)
  BY <1>2, SubmitSeen DEF Submit
<1>3. CASE Next
  BY <1>2, <1>3, StartSeen, ExecSeen, HandlerSeen, CancelSeen, MaintenanceSeen DEF Next
<1> QED
  BY <1>1, <1>3

LEMMA InitSeen == Init => Turns!Init
BY DEF Init, Turns!Init, Line, Pending, NoOp, Running, Stopped, Ended

(* The scheduler implements SessionTurns. *)
THEOREM SchedulerImplementsSessionTurns == Spec => ImplementsSessionTurns
BY InitSeen, NextSeen, Invariance, Places, Lives, SessionsHold, PTL
   DEF Spec, ImplementsSessionTurns, Turns!Spec

(* A turn that was announced as cancelled has no execution. *)
CancelledIdle == cancelEvents \cap (Running \cup Ended) = {}

(* By the steps of SessionTurns: only a turn of a line is cancelled, and only one of
   a line or a new one begins. *)
LEMMA CancelledStep ==
  ASSUME IInv, PlaceInv, CancelledIdle, [Turns!Next]_(Turns!ledger)
  PROVE  CancelledIdle'
<1>1. ASSUME NEW s \in Session, NEW t \in Turns!ToSet(Line[s])
      PROVE  t \notin Running \cup Ended \cup cancelEvents
  <2>1. t \in ToSet(Pending(s))
    BY <1>1, SameOperators DEF Line
  <2>2. exec[t] = "none" /\ t \notin cancelEvents
    BY <2>1 DEF PlaceInv
  <2> QED
    BY <2>2 DEF Running, Ended
<1>2. ASSUME NEW s \in Session, Line[s] # <<>> PROVE Head(Line[s]) \in Turns!ToSet(Line[s])
  <2>1. Line[s] \in Seq(Turn)
    BY DEF Line, IInv, QueueInv, GoodQueue
  <2>2. Head(Line[s]) = Line[s][1] /\ 1 \in DOMAIN Line[s]
    BY <1>2, <2>1
  <2> QED
    BY <2>2 DEF Turns!ToSet
<1>3. CASE UNCHANGED Turns!ledger
  BY <1>3 DEF Turns!ledger, CancelledIdle
<1>4. ASSUME NEW t \in Turn, Turns!Join(t) \/ Turns!End(t) \/ Turns!Stop(t) PROVE CancelledIdle'
  BY <1>4 DEF Turns!Join, Turns!End, Turns!Stop, CancelledIdle
<1>5. ASSUME NEW t \in Turn, Turns!Begin(t) PROVE CancelledIdle'
  <2>1. Home[t] \in Session
    BY SchedulerAssumption
  <2>2. t \notin cancelEvents
    BY <1>1, <1>2, <1>5, <2>1 DEF Turns!Begin, Turns!New
  <2> QED
    BY <1>5, <2>2 DEF Turns!Begin, CancelledIdle
<1>6. ASSUME NEW t \in Turn, Turns!Leave(t) PROVE CancelledIdle'
  <2>1. Home[t] \in Session
    BY SchedulerAssumption
  <2> QED
    BY <1>1, <1>6, <2>1 DEF Turns!Leave, CancelledIdle
<1>7. ASSUME NEW s \in Session, Turns!Clear(s) PROVE CancelledIdle'
  BY <1>1, <1>7 DEF Turns!Clear, CancelledIdle
<1> QED
  BY <1>3, <1>4, <1>5, <1>6, <1>7 DEF Turns!Next

(* A turn whose cancellation was announced while it waited never runs, whatever
   starts, failures and requeues come in between. *)
THEOREM CancelledNeverRuns == Spec => []CancelledIdle
<1>1. Init => CancelledIdle
  BY DEF Init, CancelledIdle
<1> QED
  BY <1>1, NextSeen, CancelledStep, Invariance, Places, Lives, SessionsHold, PTL DEF Spec
================================================================================
