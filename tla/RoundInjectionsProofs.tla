------------------------- MODULE RoundInjectionsProofs -------------------------
(***************************************************************************)
(* Proofs about RoundInjections, for any turns and messages: a message is   *)
(* only given to the turn it is for, a turn does not answer before it has   *)
(* seen what it was given, and a message for one turn outlives every other. *)
(***************************************************************************)
EXTENDS RoundInjections, TLAPS

(* The buffer holds the messages that wait, and nothing else. *)
BufferMatchesFate == \A m \in Message : m \in buffer <=> fate[m] = "buffered"

(* The target of a message that was admitted. *)
TargetMatchesAim ==
  \A m \in Message : fate[m] \in {"checked", "buffered", "injected"} =>
    IF Kind[m] = "goal" THEN target[m] = AnyTurn
    ELSE target[m] \in Turn /\ Aim[m] \in {target[m], NoTurn}

(* A message was given to a turn it is eligible for, and to no other. *)
GivenMatchesTarget ==
  \A t \in Turn : \A m \in given[t] :
    /\ fate[m] = "injected"
    /\ target[m] \in {t, AnyTurn}
    /\ \A u \in Turn : m \in given[u] => u = t

(* Turns begin in order, complete when they end, and report when they are
   over. *)
TurnsMatch ==
  /\ \A t \in Turn : t <= started <=> pc[t] # "new"
  /\ \A t \in completed : pc[t] \in {"ending", "over"}
  /\ \A i \in 1..Len(outcomes) : pc[outcomes[i]] = "over"

IInv ==
  /\ TypeOK
  /\ BufferMatchesFate /\ TargetMatchesAim /\ GivenMatchesTarget
  /\ TurnsMatch
  /\ InjectedIsShown

LEMMA InitEstablishes == Init => IInv
BY InjectionsAssumption
DEF Init, IInv, TypeOK, BufferMatchesFate, TargetMatchesAim, GivenMatchesTarget,
    TurnsMatch, InjectedIsShown, Fate, Turn

--------------------------------------------------------------------------------
(* A step that leaves the messages alone keeps what is said of them. *)
LEMMA MessagesKept ==
  IInv /\ UNCHANGED messages =>
    BufferMatchesFate' /\ TargetMatchesAim' /\ GivenMatchesTarget'
BY DEF IInv, messages, BufferMatchesFate, TargetMatchesAim, GivenMatchesTarget

LEMMA DecideKeeps ==
  ASSUME NEW m \in Message, IInv,
         NEW f \in {"checked", "rejected", "followup"},
         NEW t \in Turn \cup {NoTurn, AnyTurn},
         Decide(m, f, t),
         f = "checked" =>
           IF Kind[m] = "goal" THEN t = AnyTurn
           ELSE t \in Turn /\ Aim[m] \in {t, NoTurn}
  PROVE  IInv'
<1>1. /\ fate' = [fate EXCEPT ![m] = f] /\ target' = [target EXCEPT ![m] = t]
      /\ fate[m] = "new"
      /\ UNCHANGED <<current, started, pc, completed, cancelled, outcomes, handled, shown,
                     buffer, given>>
  BY DEF Decide, turns
<1>2. TypeOK'
  BY <1>1 DEF IInv, TypeOK, Fate
<1>3. BufferMatchesFate'
  BY <1>1 DEF IInv, TypeOK, BufferMatchesFate
<1>4. TargetMatchesAim'
  BY <1>1 DEF IInv, TypeOK, TargetMatchesAim
<1>5. GivenMatchesTarget'
  BY <1>1 DEF IInv, TypeOK, GivenMatchesTarget
<1>6. TurnsMatch' /\ InjectedIsShown'
  BY <1>1 DEF IInv, TurnsMatch, InjectedIsShown
<1> QED
  BY <1>2, <1>3, <1>4, <1>5, <1>6 DEF IInv

LEMMA DeliverKeeps ==
  ASSUME NEW m \in Message, IInv, Deliver(m)
  PROVE  IInv'
<1>1. CASE SubmitSteering(m)
  <2>1. CASE current = Aim[m] /\ current # NoTurn
    <3>1. Decide(m, "checked", current) /\ current \in Turn /\ Kind[m] = "steering"
      BY <1>1, <2>1 DEF SubmitSteering, IInv, TypeOK
    <3> QED
      BY <2>1, <3>1, DecideKeeps
  <2>2. CASE ~(current = Aim[m] /\ current # NoTurn)
    <3>1. Decide(m, "rejected", NoTurn)
      BY <1>1, <2>2 DEF SubmitSteering
    <3> QED
      BY <3>1, DecideKeeps
  <2> QED
    BY <2>1, <2>2
<1>2. CASE DeliverResult(m)
  <2>1. CASE current # NoTurn /\ Aim[m] \in {current, NoTurn}
    <3>1. Decide(m, "checked", current) /\ current \in Turn /\ Kind[m] = "result"
      BY <1>2, <2>1 DEF DeliverResult, IInv, TypeOK
    <3> QED
      BY <2>1, <3>1, DecideKeeps
  <2>2. CASE ~(current # NoTurn /\ Aim[m] \in {current, NoTurn})
    <3>1. Decide(m, "followup", NoTurn)
      BY <1>2, <2>2 DEF DeliverResult
    <3> QED
      BY <3>1, DecideKeeps
  <2> QED
    BY <2>1, <2>2
<1>3. CASE DeliverGoal(m)
  <2>1. Kind[m] = "goal" /\ (Decide(m, "checked", AnyTurn) \/ Decide(m, "followup", NoTurn))
    BY <1>3 DEF DeliverGoal
  <2> QED
    BY <2>1, DecideKeeps
<1> QED
  BY <1>1, <1>2, <1>3 DEF Deliver

LEMMA PushKeeps ==
  ASSUME NEW m \in Message, IInv, Push(m)
  PROVE  IInv'
<1>1. /\ fate' = [fate EXCEPT ![m] = "buffered"] /\ buffer' = buffer \cup {m}
      /\ fate[m] = "checked"
      /\ UNCHANGED <<current, started, pc, completed, cancelled, outcomes, handled, shown,
                     target, given>>
  BY DEF Push, turns
<1>2. TypeOK'
  BY <1>1 DEF IInv, TypeOK, Fate
<1>3. BufferMatchesFate'
  BY <1>1 DEF IInv, TypeOK, BufferMatchesFate
<1>4. TargetMatchesAim'
  BY <1>1 DEF IInv, TypeOK, TargetMatchesAim
<1>5. GivenMatchesTarget'
  BY <1>1 DEF IInv, TypeOK, GivenMatchesTarget
<1>6. TurnsMatch' /\ InjectedIsShown'
  BY <1>1 DEF IInv, TurnsMatch, InjectedIsShown
<1> QED
  BY <1>2, <1>3, <1>4, <1>5, <1>6 DEF IInv

--------------------------------------------------------------------------------
(* What a drain takes from the buffer: eligible messages that were waiting. *)
LEMMA DrainKeeps ==
  ASSUME NEW t \in Turn, NEW f \in {"injected", "dropped"}, IInv,
         Drain(t, f), UNCHANGED target
  PROVE  /\ buffer' \subseteq Message /\ fate' \in [Message -> Fate]
         /\ BufferMatchesFate' /\ TargetMatchesAim'
         /\ \A m \in Message : fate[m] = "injected" => fate'[m] = "injected"
<1>1. /\ buffer' = buffer \ Taken(t)
      /\ fate' = [m \in Message |-> IF m \in Taken(t) THEN f ELSE fate[m]]
      /\ UNCHANGED target
  BY DEF Drain
<1>2. Taken(t) = {m \in buffer : target[m] \in {t, AnyTurn}}
  BY DEF Taken, Eligible
<1>3. buffer' \subseteq Message /\ fate' \in [Message -> Fate]
  BY <1>1 DEF IInv, TypeOK, Fate
<1>4. BufferMatchesFate'
  BY <1>1, <1>2 DEF IInv, TypeOK, BufferMatchesFate
<1>5. \A m \in Message : m \in Taken(t) => fate[m] = "buffered"
  BY <1>2 DEF IInv, BufferMatchesFate
<1>6. TargetMatchesAim'
  BY <1>1, <1>5 DEF IInv, TargetMatchesAim
<1> QED
  BY <1>1, <1>3, <1>4, <1>5, <1>6

LEMMA EndRoundKeeps ==
  ASSUME NEW t \in Turn, IInv, EndRound(t)
  PROVE  IInv'
<1>1. /\ pc[t] = "round"
      /\ shown' = [shown EXCEPT ![t] = given[t]]
      /\ given' = [given EXCEPT ![t] = given[t] \cup Taken(t)]
      /\ Drain(t, "injected")
      /\ UNCHANGED <<current, started, cancelled, outcomes, handled, target>>
  BY DEF EndRound, IInv, TypeOK
<1>2. \/ UNCHANGED <<pc, completed>>
      \/ /\ Taken(t) = {} /\ pc' = [pc EXCEPT ![t] = "ending"]
         /\ completed' = completed \cup {t}
      \/ /\ pc' = [pc EXCEPT ![t] = "ending"] /\ UNCHANGED completed
  BY DEF EndRound, Continue
<1>3. Taken(t) \subseteq Message /\ \A m \in Taken(t) : target[m] \in {t, AnyTurn}
  BY DEF IInv, TypeOK, Taken, Eligible
<1>4. /\ buffer' \subseteq Message /\ fate' \in [Message -> Fate]
      /\ BufferMatchesFate' /\ TargetMatchesAim'
      /\ \A m \in Message : fate[m] = "injected" => fate'[m] = "injected"
  BY <1>1, DrainKeeps
<1>5. pc' \in [Turn -> {"new", "round", "ending", "over"}] /\ completed' \subseteq Turn
  BY <1>2 DEF IInv, TypeOK
<1>6. TypeOK'
  BY <1>1, <1>3, <1>4, <1>5 DEF IInv, TypeOK
<1>7. \A m \in Taken(t) : fate'[m] = "injected" /\ fate[m] = "buffered"
  BY <1>1, <1>3 DEF Drain, IInv, BufferMatchesFate, Taken
<1>8. \A m \in Taken(t) : \A u \in Turn : m \notin given[u]
  BY <1>7 DEF IInv, GivenMatchesTarget
<1>9. GivenMatchesTarget'
  <2>1. \A u \in Turn : given'[u] = IF u = t THEN given[t] \cup Taken(t) ELSE given[u]
    BY <1>1 DEF IInv, TypeOK
  <2>2. \A u \in Turn : \A m \in given[u] : m \in Message
    BY DEF IInv, TypeOK
  <2> QED
    BY <1>1, <1>3, <1>4, <1>7, <1>8, <2>1, <2>2 DEF IInv, GivenMatchesTarget
<1>10. TurnsMatch'
  <2>1. \A u \in Turn \ {t} : pc'[u] = pc[u]
    BY <1>2 DEF IInv, TypeOK
  <2>2. pc'[t] \in {"round", "ending"} /\ t \notin completed
    BY <1>1, <1>2 DEF IInv, TypeOK, TurnsMatch
  <2>3. \A u \in completed' : u \in completed \/ (u = t /\ pc'[t] = "ending")
    BY <1>2 DEF IInv, TypeOK
  <2>4. \A i \in 1..Len(outcomes) : outcomes[i] \in Turn \ {t}
    BY <1>1 DEF IInv, TypeOK, TurnsMatch
  <2> QED
    BY <1>1, <1>5, <2>1, <2>2, <2>3, <2>4 DEF IInv, TypeOK, TurnsMatch
<1>11. InjectedIsShown'
  <2>1. t \notin completed
    BY <1>1 DEF IInv, TurnsMatch
  <2>2. \A u \in completed : u \in Turn /\ u # t
    BY <2>1 DEF IInv, TypeOK
  <2>3. \A u \in completed : shown'[u] = given'[u]
    BY <1>1, <2>2 DEF IInv, TypeOK, InjectedIsShown
  <2>4. Taken(t) = {} => shown'[t] = given'[t]
    BY <1>1 DEF IInv, TypeOK
  <2> QED
    BY <1>2, <2>3, <2>4 DEF InjectedIsShown
<1> QED
  BY <1>4, <1>6, <1>9, <1>10, <1>11 DEF IInv

LEMMA FinalizeRoundKeeps ==
  ASSUME NEW t \in Turn, IInv, FinalizeRound(t)
  PROVE  IInv'
<1>1. /\ pc[t] = "round"
      /\ shown' = [shown EXCEPT ![t] = given[t]]
      /\ pc' = [pc EXCEPT ![t] = "ending"]
      /\ completed' = completed \cup {t}
      /\ UNCHANGED <<messages, current, started, cancelled, outcomes, handled>>
  BY DEF FinalizeRound
<1>2. TypeOK'
  BY <1>1 DEF IInv, TypeOK, messages
<1>3. BufferMatchesFate' /\ TargetMatchesAim' /\ GivenMatchesTarget'
  BY <1>1, MessagesKept
<1>4. TurnsMatch'
  BY <1>1 DEF IInv, TypeOK, TurnsMatch
<1>5. InjectedIsShown'
  BY <1>1 DEF IInv, TypeOK, InjectedIsShown, messages
<1> QED
  BY <1>2, <1>3, <1>4, <1>5 DEF IInv

LEMMA BreakRoundKeeps ==
  ASSUME NEW t \in Turn, IInv, BreakRound(t)
  PROVE  IInv'
<1>1. /\ pc[t] = "round" /\ pc' = [pc EXCEPT ![t] = "ending"]
      /\ UNCHANGED <<messages, current, started, completed, cancelled, outcomes, handled,
                     shown>>
  BY DEF BreakRound
<1>2. TypeOK' /\ InjectedIsShown'
  BY <1>1 DEF IInv, TypeOK, messages, InjectedIsShown
<1>3. BufferMatchesFate' /\ TargetMatchesAim' /\ GivenMatchesTarget'
  BY <1>1, MessagesKept
<1>4. TurnsMatch'
  BY <1>1 DEF IInv, TypeOK, TurnsMatch
<1> QED
  BY <1>2, <1>3, <1>4 DEF IInv

LEMMA FinishKeeps ==
  ASSUME NEW t \in Turn, IInv, Finish(t)
  PROVE  IInv'
<1>1. /\ pc[t] = "ending" /\ pc' = [pc EXCEPT ![t] = "over"]
      /\ current' \in {current, NoTurn} /\ outcomes' = Append(outcomes, t)
      /\ UNCHANGED <<messages, started, completed, cancelled, handled, shown>>
  BY DEF Finish
<1>2. TypeOK' /\ InjectedIsShown'
  BY <1>1 DEF IInv, TypeOK, messages, InjectedIsShown
<1>3. BufferMatchesFate' /\ TargetMatchesAim' /\ GivenMatchesTarget'
  BY <1>1, MessagesKept
<1>4. TurnsMatch'
  <2>1. \A i \in 1..Len(outcomes') : outcomes'[i] = t \/ (i \in 1..Len(outcomes) /\ outcomes'[i] = outcomes[i])
    BY <1>1 DEF IInv, TypeOK
  <2> QED
    BY <1>1, <2>1 DEF IInv, TypeOK, TurnsMatch
<1> QED
  BY <1>2, <1>3, <1>4 DEF IInv

LEMMA StartKeeps ==
  ASSUME NEW t \in Turn, IInv, Start(t)
  PROVE  IInv'
<1>1. /\ t = started + 1 /\ started' = t /\ current' = t
      /\ pc' = [pc EXCEPT ![t] = "round"]
      /\ UNCHANGED <<messages, completed, cancelled, outcomes, handled, shown>>
  BY DEF Start
<1>2. TypeOK' /\ InjectedIsShown'
  BY <1>1 DEF IInv, TypeOK, messages, InjectedIsShown, Turn
<1>3. BufferMatchesFate' /\ TargetMatchesAim' /\ GivenMatchesTarget'
  BY <1>1, MessagesKept
<1>4. pc[t] = "new"
  BY <1>1 DEF IInv, TypeOK, TurnsMatch, Turn
<1>5. TurnsMatch'
  <2>1. \A u \in Turn : u <= started' <=> u <= started \/ u = t
    BY <1>1 DEF IInv, TypeOK, Turn
  <2>2. \A u \in Turn : pc'[u] = IF u = t THEN "round" ELSE pc[u]
    BY <1>1 DEF IInv, TypeOK
  <2>3. \A u \in completed' : u \in completed /\ u \in Turn /\ u # t
    BY <1>1, <1>4 DEF IInv, TypeOK, TurnsMatch
  <2>4. \A i \in 1..Len(outcomes) : outcomes[i] \in Turn \ {t}
    BY <1>4 DEF IInv, TypeOK, TurnsMatch
  <2> QED
    BY <1>1, <2>1, <2>2, <2>3, <2>4 DEF IInv, TurnsMatch
<1> QED
  BY <1>2, <1>3, <1>5 DEF IInv

LEMMA CancelKeeps ==
  ASSUME NEW t \in Turn, IInv, Cancel(t)
  PROVE  IInv'
<1>1. /\ current' = NoTurn /\ cancelled' = cancelled \cup {t}
      /\ UNCHANGED <<messages, started, pc, completed, outcomes, handled, shown>>
  BY DEF Cancel
<1>2. TypeOK' /\ InjectedIsShown' /\ TurnsMatch'
  BY <1>1 DEF IInv, TypeOK, messages, InjectedIsShown, TurnsMatch
<1>3. BufferMatchesFate' /\ TargetMatchesAim' /\ GivenMatchesTarget'
  BY <1>1, MessagesKept
<1> QED
  BY <1>2, <1>3 DEF IInv

(* Messages of a turn that is over are dropped. *)
LEMMA DropKeeps ==
  ASSUME NEW t \in Turn, IInv, Drain(t, "dropped"), UNCHANGED <<target, given>>
  PROVE  /\ buffer' \subseteq Message /\ fate' \in [Message -> Fate]
         /\ BufferMatchesFate' /\ TargetMatchesAim' /\ GivenMatchesTarget'
<1>1. /\ buffer' \subseteq Message /\ fate' \in [Message -> Fate]
      /\ BufferMatchesFate' /\ TargetMatchesAim'
      /\ \A m \in Message : fate[m] = "injected" => fate'[m] = "injected"
  BY DrainKeeps
<1>2. \A u \in Turn : \A m \in given[u] : m \in Message
  BY DEF IInv, TypeOK
<1>3. GivenMatchesTarget'
  BY <1>1, <1>2 DEF IInv, GivenMatchesTarget
<1> QED
  BY <1>1, <1>3

LEMMA HandleOutcomeKeeps ==
  ASSUME IInv, HandleOutcome
  PROVE  IInv'
<1>1. /\ outcomes # <<>> /\ outcomes' = Tail(outcomes)
      /\ handled' = handled \cup {Head(outcomes)}
      /\ Drain(Head(outcomes), "dropped")
      /\ UNCHANGED <<current, started, pc, completed, cancelled, shown, target, given>>
  BY DEF HandleOutcome
<1>2. Head(outcomes) \in Turn /\ outcomes' \in Seq(Turn)
  BY <1>1 DEF IInv, TypeOK
<1>3. /\ buffer' \subseteq Message /\ fate' \in [Message -> Fate]
      /\ BufferMatchesFate' /\ TargetMatchesAim' /\ GivenMatchesTarget'
  BY <1>1, <1>2, DropKeeps
<1>4. TypeOK'
  BY <1>1, <1>2, <1>3 DEF IInv, TypeOK
<1>5. TurnsMatch'
  <2>1. \A i \in 1..Len(outcomes') : i + 1 \in 1..Len(outcomes) /\ outcomes'[i] = outcomes[i + 1]
    BY <1>1 DEF IInv, TypeOK
  <2> QED
    BY <1>1, <2>1 DEF IInv, TurnsMatch
<1>6. InjectedIsShown'
  BY <1>1 DEF IInv, InjectedIsShown
<1> QED
  BY <1>3, <1>4, <1>5, <1>6 DEF IInv

LEMMA RetireKeeps ==
  ASSUME NEW t \in Turn, IInv, Retire(t)
  PROVE  IInv'
<1>1. Drain(t, "dropped") /\ UNCHANGED <<turns, target, given>>
  BY DEF Retire
<1>2. /\ buffer' \subseteq Message /\ fate' \in [Message -> Fate]
      /\ BufferMatchesFate' /\ TargetMatchesAim' /\ GivenMatchesTarget'
  BY <1>1, DropKeeps
<1>3. TypeOK' /\ TurnsMatch' /\ InjectedIsShown'
  BY <1>1, <1>2 DEF IInv, TypeOK, TurnsMatch, InjectedIsShown, turns
<1> QED
  BY <1>2, <1>3 DEF IInv

LEMMA StepKeeps == IInv /\ [Next]_vars => IInv'
<1> SUFFICES ASSUME IInv, [Next]_vars PROVE IInv'
  OBVIOUS
<1>1. CASE \E m \in Message : Deliver(m) \/ Push(m)
  BY <1>1, DeliverKeeps, PushKeeps
<1>2. ASSUME NEW t \in Turn, Start(t) \/ Execution(t) \/ Cancel(t) \/ Retire(t)
      PROVE  IInv'
  BY <1>2, StartKeeps, EndRoundKeeps, FinalizeRoundKeeps, BreakRoundKeeps, FinishKeeps,
     CancelKeeps, RetireKeeps DEF Execution
<1>3. CASE HandleOutcome
  BY <1>3, HandleOutcomeKeeps
<1>4. CASE UNCHANGED vars
  BY <1>4 DEF vars, turns, messages, IInv, TypeOK, BufferMatchesFate, TargetMatchesAim,
     GivenMatchesTarget, TurnsMatch, InjectedIsShown
<1> QED
  BY <1>1, <1>2, <1>3, <1>4 DEF Next

(* The invariant holds in every reachable state. *)
THEOREM InjectionsInvariant == Spec => []IInv
BY InitEstablishes, StepKeeps, PTL DEF Spec

(* A message is given to the turn it is for, to no other, and not after it was
   dropped, rejected or made a follow-up (drain_for_turn). *)
THEOREM MessagesReachTheirTurn == Spec => []ReachesItsTurn
<1>1. IInv => ReachesItsTurn
  <2> SUFFICES ASSUME IInv, NEW t \in Turn, NEW m \in given[t]
               PROVE  /\ fate[m] = "injected"
                      /\ Kind[m] # "goal" => Aim[m] \in {t, NoTurn}
                      /\ \A u \in Turn : m \in given[u] => u = t
    BY DEF ReachesItsTurn
  <2>1. m \in Message
    BY DEF IInv, TypeOK
  <2>2. /\ fate[m] = "injected" /\ target[m] \in {t, AnyTurn}
        /\ \A u \in Turn : m \in given[u] => u = t
    BY DEF IInv, GivenMatchesTarget
  <2>3. Kind[m] # "goal" => target[m] \in Turn /\ Aim[m] \in {target[m], NoTurn}
    BY <2>1, <2>2 DEF IInv, TargetMatchesAim
  <2> QED
    BY <2>2, <2>3, InjectionsAssumption
<1> QED
  BY <1>1, InjectionsInvariant, PTL

(* A turn does not answer before a model round was given all that was injected
   into it (the end of a round in the execution engine). *)
THEOREM InjectedBeforeAnswer == Spec => []InjectedIsShown
<1>1. IInv => InjectedIsShown
  BY DEF IInv
<1> QED
  BY <1>1, InjectionsInvariant, PTL

--------------------------------------------------------------------------------
(* OthersKept of one step. *)
KeepsOthers ==
  \A m \in Message :
    /\ fate[m] = "buffered" /\ fate'[m] # "buffered" /\ target[m] \in Turn
    => /\ fate'[m] = "injected" => pc[target[m]] = "round"
       /\ fate'[m] = "dropped" => pc[target[m]] = "over"

LEMMA DrainTakesItsOwn ==
  ASSUME NEW t \in Turn, NEW f \in {"injected", "dropped"}, IInv, Drain(t, f),
         NEW m \in Message, fate[m] = "buffered", fate'[m] # "buffered",
         target[m] \in Turn
  PROVE  target[m] = t /\ fate'[m] = f
<1>1. m \in Taken(t) /\ fate'[m] = f
  BY DEF Drain
<1>2. target[m] \in {t, AnyTurn}
  BY <1>1 DEF Taken, Eligible
<1> QED
  BY <1>1, <1>2, InjectionsAssumption

LEMMA StepKeepsOthers == IInv /\ [Next]_vars => KeepsOthers
<1> SUFFICES ASSUME IInv, [Next]_vars,
                    NEW m \in Message, fate[m] = "buffered", fate'[m] # "buffered",
                    target[m] \in Turn
             PROVE  /\ fate'[m] = "injected" => pc[target[m]] = "round"
                    /\ fate'[m] = "dropped" => pc[target[m]] = "over"
  BY DEF KeepsOthers
<1>1. ASSUME NEW n \in Message, Deliver(n) \/ Push(n)
      PROVE  FALSE
  <2>1. fate[n] \in {"new", "checked"} /\ \E f \in Fate : fate' = [fate EXCEPT ![n] = f]
    BY <1>1 DEF Deliver, SubmitSteering, DeliverResult, DeliverGoal, Decide, Push, Fate
  <2> QED
    BY <2>1 DEF IInv, TypeOK
<1>2. ASSUME NEW t \in Turn, EndRound(t)
      PROVE  target[m] = t /\ fate'[m] = "injected" /\ pc[t] = "round"
  BY <1>2, DrainTakesItsOwn DEF EndRound
<1>3. ASSUME NEW t \in Turn,
             Start(t) \/ FinalizeRound(t) \/ BreakRound(t) \/ Finish(t) \/ Cancel(t)
      PROVE  FALSE
  BY <1>3 DEF Start, FinalizeRound, BreakRound, Finish, Cancel, messages
<1>4. ASSUME NEW t \in Turn, Retire(t)
      PROVE  target[m] = t /\ fate'[m] = "dropped" /\ pc[t] = "over"
  <2>1. target[m] = t /\ fate'[m] = "dropped"
    BY <1>4, DrainTakesItsOwn DEF Retire
  <2>2. pc[t] = "over"
    BY <1>4 DEF Retire, IInv, TurnsMatch, Turn
  <2> QED
    BY <2>1, <2>2
<1>5. CASE HandleOutcome
  <2>1. Head(outcomes) \in Turn /\ pc[Head(outcomes)] = "over"
    <3>1. outcomes # <<>> /\ outcomes \in Seq(Turn)
      BY <1>5 DEF HandleOutcome, IInv, TypeOK
    <3>2. 1 \in 1..Len(outcomes) /\ Head(outcomes) = outcomes[1]
      BY <3>1
    <3> QED
      BY <3>1, <3>2 DEF IInv, TurnsMatch
  <2>2. Drain(Head(outcomes), "dropped")
    BY <1>5 DEF HandleOutcome
  <2> QED
    BY <2>1, <2>2, DrainTakesItsOwn
<1>6. CASE UNCHANGED vars
  BY <1>6 DEF vars, messages
<1> QED
  BY <1>1, <1>2, <1>3, <1>4, <1>5, <1>6 DEF Next, Execution

(* A message for one turn outlives the end of every other turn, however the
   handling of outcomes overlaps with later turns (run_outcome_handler). *)
THEOREM OtherTurnsKept == Spec => OthersKept
<1>1. KeepsOthers /\ [Next]_vars =>
        [\A m \in Message :
           /\ fate[m] = "buffered" /\ fate'[m] # "buffered" /\ target[m] \in Turn
           => /\ fate'[m] = "injected" => pc[target[m]] = "round"
              /\ fate'[m] = "dropped" => pc[target[m]] = "over"]_vars
  BY DEF KeepsOthers
<1> QED
  BY <1>1, StepKeepsOthers, InjectionsInvariant, PTL DEF Spec, OthersKept
================================================================================
