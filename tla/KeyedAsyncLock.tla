----------------------------- MODULE KeyedAsyncLock -----------------------------
(***************************************************************************)
(* KeyedAsyncLock (assembly/core/src/agentic/keyed_lock.rs), the lock that *)
(* serialises the operations on one session.  The registry maps a key to a *)
(* weak reference to the current generation of its mutex; strong           *)
(* references are held by the calls that wait for it and by guards.        *)
(*                                                                         *)
(* A client is one call of `lock` and the guard it returns; calls run      *)
(* concurrently on the threads of the runtime and may be dropped while     *)
(* they wait.  A generation is the address of an allocation: it is reused  *)
(* only when neither a strong nor a weak reference to it is left.          *)
(***************************************************************************)
EXTENDS Naturals

CONSTANTS Key, Client, Generation, NoKey, NoGeneration,
          MaxAbandons  \* bound: waiting calls that are dropped

ASSUME LockAssumption ==
  /\ NoKey \notin Key
  /\ NoGeneration \notin Generation
  /\ MaxAbandons \in Nat

VARIABLES
  pc,        \* "idle", "waiting", "holding", "released" (inside the guard's drop)
  key,       \* key of each call, NoKey when idle
  gen,       \* generation of each call, NoGeneration when idle
  registry,  \* the weak reference of each key
  abandoned  \* number of waiting calls dropped so far

vars == <<pc, key, gen, registry, abandoned>>

Init ==
  /\ pc = [c \in Client |-> "idle"]
  /\ key = [c \in Client |-> NoKey]
  /\ gen = [c \in Client |-> NoGeneration]
  /\ registry = [k \in Key |-> NoGeneration]
  /\ abandoned = 0

Strong(c) == pc[c] \in {"waiting", "holding"}

(* Weak::upgrade succeeds: some strong reference is left.  The mutant does not
   see the references of waiting calls. *)
Held(g) == \E c \in Client : gen[c] = g /\ pc[c] = "holding"

Live(g) == \E c \in Client : gen[c] = g /\ Strong(c)

(* Some reference to g exists, so no allocation has its address. *)
Referenced(g) ==
  (\E c \in Client : gen[c] = g) \/ (\E k \in Key : registry[k] = g)

(* lock, up to its await: under the registry's mutex the call joins the live
   generation or registers a new one. *)
Lock(c, k) ==
  /\ pc[c] = "idle"
  /\ \E g \in Generation :
       /\ IF Live(registry[k]) THEN g = registry[k] ELSE ~Referenced(g)
       /\ gen' = [gen EXCEPT ![c] = g]
       /\ registry' = [registry EXCEPT ![k] = g]
  /\ pc' = [pc EXCEPT ![c] = "waiting"]
  /\ key' = [key EXCEPT ![c] = k]
  /\ UNCHANGED abandoned

(* The tokio mutex of c's generation is free.  The mutant waits for all other
   references to go. *)
SoleReference(c) == \A d \in Client \ {c} : gen[d] # gen[c]

Unlocked(c) == \A d \in Client : pc[d] = "holding" => gen[d] # gen[c]

(* lock_owned returns. *)
Acquire(c) ==
  /\ pc[c] = "waiting"
  /\ Unlocked(c)
  /\ pc' = [pc EXCEPT ![c] = "holding"]
  /\ UNCHANGED <<key, gen, registry, abandoned>>

(* The call and its guard are gone, with the references they held. *)
Returns(c) ==
  /\ pc' = [pc EXCEPT ![c] = "idle"]
  /\ key' = [key EXCEPT ![c] = NoKey]
  /\ gen' = [gen EXCEPT ![c] = NoGeneration]

(* The future of the call is dropped while it waits. *)
Abandon(c) ==
  /\ pc[c] = "waiting"
  /\ abandoned < MaxAbandons
  /\ Returns(c)
  /\ abandoned' = abandoned + 1
  /\ UNCHANGED registry

(* KeyedAsyncLockGuard::drop, first statement: the mutex is unlocked and the
   guard's strong reference is gone. *)
Release(c) ==
  /\ pc[c] = "holding"
  /\ pc' = [pc EXCEPT ![c] = "released"]
  /\ UNCHANGED <<key, gen, registry, abandoned>>

(* The condition under which the drop removes the entry.  The mutant is never
   fulfilled, as when the guard's own reference still counts. *)
NeverDead(c) == FALSE

DeadEntry(c) == registry[key[c]] = gen[c] /\ ~Live(gen[c])

(* The rest of the drop, under the registry's mutex. *)
Reclaim(c) ==
  /\ pc[c] = "released"
  /\ Returns(c)
  /\ registry' = IF DeadEntry(c) THEN [registry EXCEPT ![key[c]] = NoGeneration]
                                 ELSE registry
  /\ UNCHANGED abandoned

Next ==
  \E c \in Client :
    \/ \E k \in Key : Lock(c, k)
    \/ Acquire(c) \/ Abandon(c) \/ Release(c) \/ Reclaim(c)

Spec == Init /\ [][Next]_vars

(* The tokio mutex is first-in first-out, guards are dropped in the end. *)
Fairness ==
  \A c \in Client : SF_vars(Acquire(c)) /\ WF_vars(Release(c)) /\ WF_vars(Reclaim(c))

FairSpec == Spec /\ Fairness

--------------------------------------------------------------------------------
(* Every variable keeps its type; a call has a key and a generation. *)
TypeOK ==
  /\ pc \in [Client -> {"idle", "waiting", "holding", "released"}]
  /\ key \in [Client -> Key \cup {NoKey}]
  /\ gen \in [Client -> Generation \cup {NoGeneration}]
  /\ registry \in [Key -> Generation \cup {NoGeneration}]
  /\ abandoned \in Nat
  /\ \A c \in Client : pc[c] # "idle" => key[c] \in Key /\ gen[c] \in Generation

(* Two guards of one key never exist at the same time. *)
MutualExclusion ==
  \A c, d \in Client :
    pc[c] = "holding" /\ pc[d] = "holding" /\ key[c] = key[d] => c = d

(* The comment of the guard's drop: two live generations of a key cannot
   overlap.  The generation a call waits for or holds is the registered one. *)
OneLiveGeneration == \A c \in Client : Strong(c) => registry[key[c]] = gen[c]

(* The registry keeps no entry for a key nobody uses (the test
   dead_key_generations_are_reclaimed), unless a waiting call was dropped:
   such an entry stays until the key is locked again. *)
NoDeadEntry ==
  abandoned = 0 =>
    \A k \in Key : registry[k] # NoGeneration =>
      \E c \in Client : key[c] = k /\ gen[c] = registry[k]

(* A call of lock returns unless it is dropped. *)
EveryCallReturns == \A c \in Client : (pc[c] = "waiting") ~> (pc[c] # "waiting")

(* The generations and the registry implement one mutex per key. *)
waits == [c \in Client |-> IF pc[c] = "waiting" THEN key[c] ELSE NoKey]
holds == [c \in Client |-> IF pc[c] = "holding" THEN key[c] ELSE NoKey]

Abstract == INSTANCE SessionLock WITH
  Key <- Key, Client <- Client, NoKey <- NoKey, waits <- waits, holds <- holds

ImplementsSessionLock == Abstract!Spec
================================================================================
