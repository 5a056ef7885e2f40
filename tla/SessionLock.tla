------------------------------ MODULE SessionLock ------------------------------
(***************************************************************************)
(* What the callers of KeyedAsyncLock::lock rely on: for each key, at most *)
(* one caller is between the return of lock and the drop of its guard.  A  *)
(* caller is one call of lock; it may be dropped while it waits.           *)
(***************************************************************************)
CONSTANTS Key, Client, NoKey

VARIABLES waits, \* the key each client waits for, or NoKey
          holds  \* the key each client holds, or NoKey

Init ==
  /\ waits = [c \in Client |-> NoKey]
  /\ holds = [c \in Client |-> NoKey]

Call(c, k) ==
  /\ waits[c] = NoKey /\ holds[c] = NoKey
  /\ waits' = [waits EXCEPT ![c] = k]
  /\ UNCHANGED holds

Enter(c) ==
  /\ waits[c] # NoKey
  /\ \A d \in Client : holds[d] # waits[c]
  /\ holds' = [holds EXCEPT ![c] = waits[c]]
  /\ waits' = [waits EXCEPT ![c] = NoKey]

(* The guard is dropped. *)
Leave(c) ==
  /\ holds[c] # NoKey
  /\ holds' = [holds EXCEPT ![c] = NoKey]
  /\ UNCHANGED waits

(* The waiting call is dropped. *)
GiveUp(c) ==
  /\ waits[c] # NoKey
  /\ waits' = [waits EXCEPT ![c] = NoKey]
  /\ UNCHANGED holds

Next == \E c \in Client : (\E k \in Key : Call(c, k)) \/ Enter(c) \/ Leave(c) \/ GiveUp(c)

Spec == Init /\ [][Next]_<<waits, holds>>
================================================================================
