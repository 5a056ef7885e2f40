----------------------------- MODULE SessionTurns -----------------------------
(***************************************************************************)
(* What the users of DialogScheduler rely on, without its lock, its states *)
(* of a session, its outcome channel and its handler: a session has a line *)
(* of waiting turns and works on the turn at its head, one at a time except *)
(* for those told to stop.  A turn waits, runs and ends, or is cancelled    *)
(* while it waits; it does so once.                                         *)
(***************************************************************************)
EXTENDS Naturals, SequencesExt

CONSTANTS Session, Turn, Home, Priority, MaxDepth

VARIABLES line,     \* the turns waiting in each session, the next one first
          running,  \* the turns whose execution runs
          stopped,  \* the turns told to stop while they ran
          ended,    \* the turns whose execution is over
          cancelled \* the turns cancelled while they waited

ledger == <<line, running, stopped, ended, cancelled>>

Of(s) == {t \in running : Home[t] = s}

New(t) == t \notin running \cup ended \cup cancelled \cup ToSet(line[Home[t]])

Init ==
  /\ line = [s \in Session |-> <<>>]
  /\ running = {} /\ stopped = {} /\ ended = {} /\ cancelled = {}

(* A new turn gets its place: behind those of its priority, before lower ones. *)
Join(t) ==
  LET q == line[Home[t]]
  IN /\ New(t) /\ Len(q) < MaxDepth
     /\ \E i \in 1..(Len(q) + 1) :
          /\ \A j \in 1..Len(q) : j < i <=> Priority[q[j]] >= Priority[t]
          /\ line' = [line EXCEPT ![Home[t]] = InsertAt(q, i, t)]
     /\ UNCHANGED <<running, stopped, ended, cancelled>>

(* The first of the line begins, or a new turn when nobody waits. *)
Begin(t) ==
  LET q == line[Home[t]]
  IN /\ IF q = <<>> THEN New(t) /\ UNCHANGED line
                    ELSE t = Head(q) /\ line' = [line EXCEPT ![Home[t]] = Tail(q)]
     /\ Of(Home[t]) \subseteq stopped
     /\ running' = running \cup {t}
     /\ UNCHANGED <<stopped, ended, cancelled>>

End(t) ==
  /\ t \in running
  /\ running' = running \ {t} /\ ended' = ended \cup {t}
  /\ UNCHANGED <<line, stopped, cancelled>>

Stop(t) ==
  /\ t \in running
  /\ stopped' = stopped \cup {t}
  /\ UNCHANGED <<line, running, ended, cancelled>>

(* A waiting turn is cancelled. *)
Leave(t) ==
  /\ t \in ToSet(line[Home[t]])
  /\ line' = [line EXCEPT ![Home[t]] = RemoveFirst(@, t)]
  /\ cancelled' = cancelled \cup {t}
  /\ UNCHANGED <<running, stopped, ended>>

(* All that wait are cancelled.  Nothing runs on: what is still running has
   been told to stop, or is now. *)
Clear(s) ==
  /\ line' = [line EXCEPT ![s] = <<>>]
  /\ cancelled' = cancelled \cup ToSet(line[s])
  /\ stopped' = stopped \cup Of(s)
  /\ UNCHANGED <<running, ended>>

Next ==
  \/ \E t \in Turn : Join(t) \/ Begin(t) \/ End(t) \/ Stop(t) \/ Leave(t)
  \/ \E s \in Session : Clear(s)

Spec == Init /\ [][Next]_ledger
===============================================================================
