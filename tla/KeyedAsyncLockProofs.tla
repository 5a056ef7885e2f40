-------------------------- MODULE KeyedAsyncLockProofs --------------------------
(***************************************************************************)
(* Proofs about KeyedAsyncLock: mutual exclusion per key, one live         *)
(* generation per key, reclamation, and the refinement of SessionLock, for *)
(* any number of keys, calls, addresses and abandoned calls.               *)
(***************************************************************************)
EXTENDS KeyedAsyncLock, TLAPS

(* An idle call refers to nothing. *)
IdleRefersToNothing == \A c \in Client : pc[c] = "idle" => gen[c] = NoGeneration

(* The mutex of one generation has at most one holder. *)
OneHolderPerGeneration ==
  \A c, d \in Client :
    pc[c] = "holding" /\ pc[d] = "holding" /\ gen[c] = gen[d] => c = d

(* An address is registered under one key only. *)
RegistryInjective ==
  \A k, l \in Key : registry[k] = registry[l] /\ registry[k] # NoGeneration => k = l

(* The inductive invariant.  MutualExclusion alone is not inductive: it takes
   the link from a call to the registry (OneLiveGeneration) to turn "same key"
   into "same mutex". *)
IInv ==
  /\ TypeOK /\ IdleRefersToNothing
  /\ OneLiveGeneration /\ OneHolderPerGeneration
  /\ RegistryInjective /\ NoDeadEntry

(* IInv holds initially. *)
LEMMA InitIInv == Init => IInv
BY LockAssumption DEF Init, IInv, TypeOK, IdleRefersToNothing, OneLiveGeneration,
   OneHolderPerGeneration, RegistryInjective, NoDeadEntry, Strong

(* IInv is preserved by lock: the generation joined or created is the one
   registered, and a new one is created only when nobody uses the old one. *)
LEMMA LockIInv == ASSUME IInv, NEW c \in Client, NEW k \in Key, Lock(c, k) PROVE IInv'
<1>1. PICK g \in Generation :
        /\ IF Live(registry[k]) THEN g = registry[k] ELSE ~Referenced(g)
        /\ gen' = [gen EXCEPT ![c] = g]
        /\ registry' = [registry EXCEPT ![k] = g]
  BY DEF Lock
<1>2. /\ pc[c] = "idle" /\ pc' = [pc EXCEPT ![c] = "waiting"]
      /\ key' = [key EXCEPT ![c] = k] /\ abandoned' = abandoned
  BY DEF Lock
<1>3. TypeOK' /\ IdleRefersToNothing'
  BY <1>1, <1>2 DEF IInv, TypeOK, IdleRefersToNothing
<1>4. \A d \in Client : Strong(d) /\ key[d] = k => registry[k] = g
  <2> SUFFICES ASSUME NEW d \in Client, Strong(d), key[d] = k PROVE registry[k] = g
    OBVIOUS
  <2>1. registry[k] = gen[d]
    BY DEF IInv, OneLiveGeneration
  <2> QED
    BY <1>1, <2>1 DEF Live
<1>5. OneLiveGeneration'
  BY <1>1, <1>2, <1>4 DEF IInv, TypeOK, OneLiveGeneration, Strong
<1>6. OneHolderPerGeneration'
  BY <1>1, <1>2 DEF IInv, TypeOK, OneHolderPerGeneration
<1>7. \A l \in Key : registry[l] = g => l = k
  <2>1. CASE Live(registry[k])
    BY <1>1, <2>1, LockAssumption DEF IInv, RegistryInjective
  <2>2. CASE ~Live(registry[k])
    BY <1>1, <2>2 DEF Referenced
  <2> QED
    BY <2>1, <2>2
<1>8. RegistryInjective'
  BY <1>1, <1>7 DEF IInv, TypeOK, RegistryInjective
<1>9. NoDeadEntry'
  BY <1>1, <1>2 DEF IInv, TypeOK, IdleRefersToNothing, NoDeadEntry
<1> QED
  BY <1>3, <1>5, <1>6, <1>8, <1>9 DEF IInv

(* IInv is preserved by the rest of the guard's drop: an entry is removed only
   when no call refers to its generation. *)
LEMMA ReclaimIInv == ASSUME IInv, NEW c \in Client, Reclaim(c) PROVE IInv'
<1>1. /\ pc[c] = "released" /\ pc' = [pc EXCEPT ![c] = "idle"]
      /\ key' = [key EXCEPT ![c] = NoKey] /\ gen' = [gen EXCEPT ![c] = NoGeneration]
      /\ abandoned' = abandoned
  BY DEF Reclaim, Returns
<1>2. registry' = IF DeadEntry(c) THEN [registry EXCEPT ![key[c]] = NoGeneration]
                                  ELSE registry
  BY DEF Reclaim
<1>3. TypeOK' /\ IdleRefersToNothing'
  BY <1>1, <1>2 DEF IInv, TypeOK, IdleRefersToNothing
<1>4. OneHolderPerGeneration' /\ RegistryInjective'
  BY <1>1, <1>2 DEF IInv, TypeOK, OneHolderPerGeneration, RegistryInjective
<1>5. ASSUME NEW d \in Client, Strong(d)' PROVE registry'[key'[d]] = gen'[d]
  <2>1. d # c /\ Strong(d)
    BY <1>1, <1>5 DEF IInv, TypeOK, Strong
  <2>2. registry[key[d]] = gen[d] /\ key'[d] = key[d] /\ gen'[d] = gen[d]
    BY <1>1, <2>1 DEF IInv, TypeOK, OneLiveGeneration
  <2>3. ASSUME DeadEntry(c) PROVE key[d] # key[c]
    BY <2>1, <2>2, <2>3 DEF DeadEntry, Live
  <2> QED
    BY <1>2, <2>1, <2>2, <2>3 DEF IInv, TypeOK
<1>6. OneLiveGeneration'
  BY <1>5 DEF OneLiveGeneration
<1>7. NoDeadEntry'
  <2> SUFFICES ASSUME abandoned = 0, NEW k \in Key, registry'[k] # NoGeneration
               PROVE  \E d \in Client : key'[d] = k /\ gen'[d] = registry'[k]
    BY <1>1 DEF NoDeadEntry
  <2>1. registry'[k] = registry[k]
    BY <1>2 DEF IInv, TypeOK
  <2>2. PICK d \in Client : key[d] = k /\ gen[d] = registry[k]
    BY <2>1 DEF IInv, NoDeadEntry
  <2>3. CASE d # c
    BY <1>1, <2>1, <2>2, <2>3 DEF IInv, TypeOK
  <2>4. CASE d = c
    <3>1. ~DeadEntry(c)
      BY <1>2, <2>2, <2>4 DEF IInv, TypeOK
    <3>2. PICK e \in Client : gen[e] = gen[c] /\ Strong(e)
      BY <2>2, <2>4, <3>1 DEF DeadEntry, Live
    <3>3. e # c /\ registry[key[e]] = registry[k] /\ key[e] \in Key
      BY <1>1, <2>2, <2>4, <3>2 DEF IInv, TypeOK, OneLiveGeneration, Strong
    <3>4. key[e] = k
      BY <2>1, <3>3 DEF IInv, RegistryInjective
    <3> QED
      BY <1>1, <2>1, <2>2, <2>4, <3>2, <3>3, <3>4 DEF IInv, TypeOK
  <2> QED
    BY <2>3, <2>4
<1> QED
  BY <1>3, <1>4, <1>6, <1>7 DEF IInv

(* IInv is preserved by every step. *)
LEMMA NextIInv == IInv /\ [Next]_vars => IInv'
<1> SUFFICES ASSUME IInv, [Next]_vars PROVE IInv'
  OBVIOUS
<1>1. ASSUME NEW c \in Client, NEW k \in Key, Lock(c, k) PROVE IInv'
  BY <1>1, LockIInv
<1>2. ASSUME NEW c \in Client, Acquire(c) PROVE IInv'
  <2>1. OneHolderPerGeneration'
    BY <1>2 DEF IInv, TypeOK, OneHolderPerGeneration, Acquire, Unlocked
  <2> QED
    BY <1>2, <2>1 DEF IInv, TypeOK, IdleRefersToNothing, OneLiveGeneration,
       RegistryInjective, NoDeadEntry, Acquire, Strong
<1>3. ASSUME NEW c \in Client, Abandon(c) PROVE IInv'
  BY <1>3 DEF IInv, TypeOK, IdleRefersToNothing, OneLiveGeneration,
     OneHolderPerGeneration, RegistryInjective, NoDeadEntry, Abandon, Returns, Strong
<1>4. ASSUME NEW c \in Client, Release(c) PROVE IInv'
  BY <1>4 DEF IInv, TypeOK, IdleRefersToNothing, OneLiveGeneration,
     OneHolderPerGeneration, RegistryInjective, NoDeadEntry, Release, Strong
<1>5. ASSUME NEW c \in Client, Reclaim(c) PROVE IInv'
  BY <1>5, ReclaimIInv
<1>6. CASE UNCHANGED vars
  BY <1>6 DEF vars, IInv, TypeOK, IdleRefersToNothing, OneLiveGeneration,
     OneHolderPerGeneration, RegistryInjective, NoDeadEntry, Strong
<1> QED
  BY <1>1, <1>2, <1>3, <1>4, <1>5, <1>6 DEF Next

(* The inductive invariant holds in every state of every behaviour. *)
THEOREM Invariant == Spec => []IInv
BY InitIInv, NextIInv, PTL DEF Spec

(* Two guards of one key never exist at the same time, however lookups,
   wake-ups, dropped calls and the two steps of a guard's drop interleave. *)
THEOREM LockMutualExclusion == Spec => []MutualExclusion
<1>1. IInv => MutualExclusion
  BY DEF IInv, MutualExclusion, OneLiveGeneration, OneHolderPerGeneration, Strong
<1> QED
  BY <1>1, Invariant, PTL

(* Two live generations of one key never overlap. *)
THEOREM LockOneLiveGeneration == Spec => []OneLiveGeneration
<1>1. IInv => OneLiveGeneration
  BY DEF IInv
<1> QED
  BY <1>1, Invariant, PTL

(* Unless a waiting call was dropped, the registry has entries only for keys
   in use. *)
THEOREM LockNoDeadEntry == Spec => []NoDeadEntry
<1>1. IInv => NoDeadEntry
  BY DEF IInv
<1> QED
  BY <1>1, Invariant, PTL

(* The registry with its generations implements one mutex per key. *)
THEOREM LockImplementsSessionLock == Spec => ImplementsSessionLock
<1>1. Init => Abstract!Init
  BY DEF Init, Abstract!Init, waits, holds
<1>2. IInv /\ [Next]_vars => [Abstract!Next]_<<waits, holds>>
  <2> SUFFICES ASSUME IInv, [Next]_vars
               PROVE  [Abstract!Next]_<<waits, holds>>
    OBVIOUS
  <2>1. ASSUME NEW c \in Client, NEW k \in Key, Lock(c, k) PROVE Abstract!Call(c, k)
    BY <2>1, LockAssumption DEF IInv, TypeOK, Lock, Abstract!Call, waits, holds
  <2>2. ASSUME NEW c \in Client, Acquire(c) PROVE Abstract!Enter(c)
    <3>1. \A d \in Client : holds[d] # waits[c]
      BY <2>2, LockAssumption DEF IInv, TypeOK, OneLiveGeneration, Strong, Acquire,
         Unlocked, waits, holds
    <3>2. waits[c] = key[c] /\ key[c] # NoKey
      BY <2>2, LockAssumption DEF IInv, TypeOK, Acquire, waits
    <3>3. /\ holds' = [holds EXCEPT ![c] = key[c]]
          /\ waits' = [waits EXCEPT ![c] = NoKey]
      BY <2>2 DEF IInv, TypeOK, Acquire, waits, holds
    <3> QED
      BY <3>1, <3>2, <3>3 DEF Abstract!Enter
  <2>3. ASSUME NEW c \in Client, Abandon(c) PROVE Abstract!GiveUp(c)
    BY <2>3, LockAssumption DEF IInv, TypeOK, Abandon, Returns, Abstract!GiveUp, waits, holds
  <2>4. ASSUME NEW c \in Client, Release(c) PROVE Abstract!Leave(c)
    BY <2>4, LockAssumption DEF IInv, TypeOK, Release, Abstract!Leave, waits, holds
  <2>5. ASSUME NEW c \in Client, Reclaim(c) PROVE UNCHANGED <<waits, holds>>
    BY <2>5 DEF IInv, TypeOK, Reclaim, Returns, waits, holds
  <2>6. CASE UNCHANGED vars
    BY <2>6 DEF vars, waits, holds
  <2> QED
    BY <2>1, <2>2, <2>3, <2>4, <2>5, <2>6 DEF Next, Abstract!Next
<1> QED
  BY <1>1, <1>2, Invariant, PTL DEF Spec, ImplementsSessionLock, Abstract!Spec
================================================================================
