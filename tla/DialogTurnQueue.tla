---------------------------- MODULE DialogTurnQueue ----------------------------
(***************************************************************************)
(* The queue of one session in DialogTurnQueue<T>                          *)
(* (src/src/crates/execution/agent-runtime/src/scheduler.rs): a sequence   *)
(* of turns, the next one to dispatch at its head.  A queued item of the   *)
(* code is a turn with its priority; here the priority is a function of    *)
(* the turn.                                                               *)
(***************************************************************************)
EXTENDS Naturals, Sequences, SequencesExt

CONSTANTS Turn,       \* turn ids (UUIDs in the code)
          Priority,   \* DialogQueuePriority of each turn: Low 0, Normal 1, High 2
          MaxDepth    \* max_depth, 20 by default

ASSUME QueueAssumption ==
  /\ Priority \in [Turn -> Nat]
  /\ MaxDepth \in Nat \ {0}

(* enqueue refuses at the limit.  The mutant is off by one. *)
FullBeyondLimit(q) == Len(q) > MaxDepth

Full(q) == Len(q) >= MaxDepth

(* Position of the first item of strictly lower priority, 0 if there is none.
   The mutant also goes before equal priorities. *)
FirstLowerOrEqual(q, t) == SelectInSeq(q, LAMBDA u : Priority[u] <= Priority[t])

FirstLower(q, t) == SelectInSeq(q, LAMBDA u : Priority[u] < Priority[t])

(* enqueue below the limit: before the first lower priority, else at the back. *)
Enqueue(q, t) ==
  LET i == FirstLower(q, t) IN IF i > 0 THEN InsertAt(q, i, t) ELSE Append(q, t)

(* dequeue_next takes the head.  The mutant only looks at it. *)
Peek(q) == q

Dequeue(q) == Tail(q)

(* remove_first_matching with the predicate of remove_queued_turn_by_id. *)
RemoveTurn(q, t) == RemoveFirst(q, t)

(* requeue_front: neither the limit nor the priority is looked at.  The
   mutant requeues at the back. *)
RequeueBack(q, t) == Append(q, t)

RequeueFront(q, t) == <<t>> \o q

(* Dispatch order: priorities never increase towards the back. *)
ByPriority(q) == \A i, j \in 1..Len(q) : i < j => Priority[q[i]] >= Priority[q[j]]

(* t stands before u in q. *)
Before(q, t, u) == \E i, j \in 1..Len(q) : i < j /\ q[i] = t /\ q[j] = u
================================================================================
