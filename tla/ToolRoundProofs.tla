----------------------------- MODULE ToolRoundProofs -----------------------------
(***************************************************************************)
(* Proofs about ToolRound, for any number of calls, requests, grants and   *)
(* interventions: who runs with whose approval, what is left behind by a   *)
(* round, that a serial call runs alone, and that each call gets one       *)
(* result.                                                                 *)
(***************************************************************************)
EXTENDS ToolRound, FiniteSetTheorems, WellFoundedInduction, TLAPS

Approved(r) == r \in waived \/ answer[r] \in {"once", "always"}

Authorized(t) == t \notin Denied /\ \A r \in Own(t) : Approved(r)

(* What a plan says of its call until the call takes it, and what a call knows
   of its requests.  Nothing is known of those of a call without a plan. *)
PlanInv(t) ==
  /\ left[t] \subseteq Own(t)
  /\ plan[t] # "none" => pc[t] \in {"idle", "called", "done"}
  /\ plan[t] = "none" /\ pc[t] \in {"idle", "called", "drafting"} =>
       left[t] = {} /\ \A r \in Own(t) : r \notin pending /\ audit[r] = {}
  /\ plan[t] \in {"allowed", "denied"} => left[t] = {}
  /\ plan[t] = "allowed" => t \notin Denied /\ Own(t) \subseteq waived
  /\ plan[t] = "awaiting" /\ pc[t] \in {"idle", "called"} =>
       t \notin Denied /\ left[t] # {} /\ Own(t) \ left[t] \subseteq waived
  /\ pc[t] \in {"allowed", "calling", "running", "settling"} => left[t] = {}
  /\ pc[t] = "done" /\ plan[t] = "none" => left[t] = {}

(* A call waits for what it has not been granted, and goes on with all of it. *)
ApprovalInv(t) ==
  /\ pc[t] \in {"awaiting", "approving"} =>
       t \notin Denied /\ left[t] # {} /\ \A r \in Own(t) \ left[t] : Approved(r)
  /\ pc[t] \in {"allowed", "calling", "running"} \/ t \in ran => Authorized(t)
  /\ pc[t] = "approving" => toApprove \cap Own(t) # {}
  /\ phase \in {"executing", "cleanup", "over"} /\ toApprove \cap Own(t) # {} =>
       pc[t] = "approving"

TokenInv(t) ==
  t \in stored =>
    /\ token[t] = "live"
    /\ \/ pc[t] \notin {"idle", "called", "settling", "done"}
       \/ pc[t] = "done" /\ outcome[t] = "unplanned"

(* The state of a task whose tool has not been called, and of a call that is
   over. *)
StatusInv(t) ==
  /\ pc[t] \in {"idle", "called", "drafting", "approving", "awaiting", "withdrawing", "allowed"} =>
       status[t] \in {"queued", "cancelled"} /\ t \notin ran
  /\ pc[t] = "calling" => t \notin ran
  /\ pc[t] = "withdrawing" => outcome[t] \in {"rejected", "denied", "cancelled", "error"}
  /\ pc[t] = "settling" => outcome[t] \in {"ok", "error", "timeout", "cancelled"}
  /\ pc[t] = "done" =>
       /\ outcome[t] # "none"
       /\ status[t] = "completed" => outcome[t] = "ok"
       /\ status[t] = "failed" => outcome[t] = "error"
       /\ status[t] = "rejected" => outcome[t] \in {"rejected", "denied"} /\ t \notin ran
       /\ status[t] = "queued" =>
            outcome[t] \in {"error", "cancelled", "unplanned"} /\ t \notin ran
       /\ status[t] \notin {"running", "streaming"}

ToolInv(t) == PlanInv(t) /\ ApprovalInv(t) /\ TokenInv(t) /\ StatusInv(t)

(* A request is open with its call, and closed with a record. *)
RequestInv(r) ==
  /\ r \in pending => audit[r] = {"requested"} /\ answer[r] = "none"
  /\ answer[r] \in {"once", "always", "reject"} <=> "replied" \in audit[r]
  /\ answer[r] = "cancelled" <=> "cancelled" \in audit[r]
  /\ r \in pending /\ errors = 0 => r \in left[Owner[r]]
  /\ r \in toApprove => auto /\ (phase # "failing" => r \in pending)

(* The calls of earlier batches are over, those of later ones have not begun. *)
RoundInv ==
  /\ phase = "planning" => toApprove = {} /\ \A r \in Request : r \notin pending /\ audit[r] = {}
  /\ phase = "approving" => toApprove # {}
  /\ phase = "failing" => errors # 0
  /\ phase \in {"planning", "approving", "failing"} =>
       batch = 0 /\ ~open /\ \A t \in Tool : pc[t] = "idle"
  /\ phase \in {"cleanup", "over"} => ~open /\ \A t \in Tool : pc[t] = "done"
  /\ phase = "over" => \A t \in Tool : plan[t] = "none"
  /\ phase = "executing" => \A t \in Tool :
       /\ BatchOf[t] < batch => pc[t] = "done"
       /\ BatchOf[t] = batch /\ ~open => pc[t] = "done"
       /\ BatchOf[t] > batch => pc[t] = "idle"

(* The parts of TypeOK. *)
RoundTyped ==
  /\ phase \in Phase /\ auto \in BOOLEAN
  /\ planned \in 0..Count /\ batch \in Nat
  /\ open \in BOOLEAN /\ watching \in BOOLEAN

TasksTyped ==
  /\ plan \in [Tool -> Plan] /\ left \in [Tool -> SUBSET Request]
  /\ waived \subseteq Request /\ toApprove \subseteq Request
  /\ pc \in [Tool -> Place] /\ outcome \in [Tool -> Outcome]
  /\ token \in [Tool -> Token] /\ status \in [Tool -> Status]
  /\ stored \subseteq Tool /\ ran \subseteq Tool

ManagerTyped ==
  /\ pending \subseteq Request /\ grants \subseteq Resources
  /\ answer \in [Request -> Answer]
  /\ audit \in [Request -> SUBSET {"requested", "replied", "cancelled"}]
  /\ errors \in Nat

UserTyped ==
  /\ preempt \in Preemption
  /\ sweep \in [Canceller -> SUBSET Tool] /\ marking \in [Canceller -> SUBSET Tool]
  /\ cancels \in Nat /\ steers \in Nat

IInv ==
  /\ RoundTyped /\ TasksTyped /\ ManagerTyped /\ UserTyped
  /\ RoundInv
  /\ \A t \in Tool : ToolInv(t)
  /\ \A r \in Request : RequestInv(r)

--------------------------------------------------------------------------------
(* A set of numbers that is not empty has a least one. *)
LEMMA LeastNumber ==
  ASSUME NEW S \in SUBSET Nat, S # {}
  PROVE  \E x \in S : \A y \in S : x =< y
<1>1. PICK x \in S : \A y \in S : ~(<<y, x>> \in OpToRel(<, Nat))
  BY WFMin, NatLessThanWellFounded
<1>2. ASSUME NEW y \in S PROVE x =< y
  <2>1. x \in Nat /\ y \in Nat /\ ~(y < x)
    BY <1>1 DEF OpToRel
  <2> QED
    BY <2>1
<1> QED
  BY <1>2

(* A request of a non-empty set comes first. *)
LEMMA MinIsMember ==
  ASSUME NEW R \in SUBSET Request, R # {}
  PROVE  Min(R) \in R
<1>1. R \in SUBSET Nat
  BY RoundAssumption
<1>2. \E x \in R : \A y \in R : x =< y
  BY <1>1, LeastNumber
<1> QED
  BY <1>2 DEF Min

(* Batches are numbered from 1 on; a call that is not safe has its own. *)
LEMMA BatchNumbers == BatchOf \in [Tool -> Nat \ {0}]
<1> SUFFICES ASSUME NEW t \in Tool
             PROVE  Cardinality({u \in 1..t : ~JoinsLast(u)}) \in Nat \ {0}
  BY DEF BatchOf
<1> DEFINE S == {u \in 1..t : ~JoinsLast(u)}
<1>1. t \in Nat \ {0}
  BY RoundAssumption DEF Tool
<1>2. IsFiniteSet(S) /\ Cardinality(S) \in Nat
  <2>1. IsFiniteSet(1..t)
    BY <1>1, FS_Interval
  <2> QED
    BY <2>1, FS_Subset, FS_CardinalityType
<1>3. 1 \in S
  BY <1>1 DEF JoinsLast
<1> QED
  BY <1>2, <1>3, FS_EmptySet

LEMMA BatchBoundary ==
  ASSUME NEW t \in Tool, NEW u \in Tool, u < t, Serial(t) \/ Serial(u)
  PROVE  BatchOf[u] < BatchOf[t]
<1> DEFINE S(v) == {x \in 1..v : ~JoinsLast(x)}
           n == IF Serial(t) THEN t ELSE u + 1
<1>1. t \in Nat /\ u \in Nat /\ 1 =< u
  BY RoundAssumption DEF Tool
<1>2. \A v \in Nat : IsFiniteSet(S(v))
  <2> SUFFICES ASSUME NEW v \in Nat PROVE IsFiniteSet(S(v))
    OBVIOUS
  <2>1. IsFiniteSet(1..v)
    BY FS_Interval
  <2> QED
    BY <2>1, FS_Subset
<1>3. n \in S(t) /\ n \notin S(u)
  BY <1>1 DEF JoinsLast, Serial
<1>4. S(u) \subseteq S(t)
  BY <1>1
<1>5. Cardinality(S(u)) < Cardinality(S(t))
  <2>1. IsFiniteSet(S(t)) /\ IsFiniteSet(S(u))
    BY <1>1, <1>2
  <2>2. S(u) # S(t)
    BY <1>3
  <2> HIDE DEF S
  <2>3. /\ Cardinality(S(u)) \in Nat /\ Cardinality(S(t)) \in Nat
        /\ Cardinality(S(u)) =< Cardinality(S(t))
        /\ Cardinality(S(u)) # Cardinality(S(t))
    BY <2>1, <2>2, <1>4, FS_Subset, FS_CardinalityType
  <2> QED
    BY <2>3
<1> QED
  BY <1>5 DEF BatchOf

--------------------------------------------------------------------------------
LEMMA InitEstablishes == Init => IInv
<1> SUFFICES ASSUME Init PROVE IInv
  OBVIOUS
<1>1. RoundTyped
  <2>1. auto \in BOOLEAN
    BY RoundAssumption, Zenon DEF Init
  <2>2. planned \in 0..Count /\ batch \in Nat
    BY RoundAssumption DEF Init
  <2>3. open \in BOOLEAN /\ watching \in BOOLEAN /\ phase \in Phase
    BY DEF Init, Phase
  <2> QED
    BY <2>1, <2>2, <2>3 DEF RoundTyped
<1>a. UserTyped
  <2>1. sweep \in [Canceller -> SUBSET Tool] /\ marking \in [Canceller -> SUBSET Tool]
    BY DEF Init
  <2> QED
    BY <2>1 DEF Init, UserTyped, Preemption
<1>2. TasksTyped
  BY DEF Init, TasksTyped, Plan, Place, Outcome, Token, Status
<1>3. ManagerTyped
  BY RoundAssumption DEF Init, ManagerTyped, Answer
<1>4. RoundInv
  BY DEF Init, RoundInv
<1>5. ASSUME NEW t \in Tool PROVE ToolInv(t)
  BY DEF Init, ToolInv, PlanInv, ApprovalInv, TokenInv, StatusInv, Own
<1>6. ASSUME NEW r \in Request PROVE RequestInv(r)
  BY DEF Init, RequestInv
<1> QED
  BY <1>1, <1>a, <1>2, <1>3, <1>4, <1>5, <1>6 DEF IInv

--------------------------------------------------------------------------------
(* The operations of the manager. *)
LEMMA RegisterBatchDoes ==
  ASSUME NEW R \in SUBSET Request, IInv, RegisterBatch(R)
  PROVE  /\ ManagerTyped' /\ errors' = errors
         /\ \A r \in Request : /\ r \in pending' <=> r \in pending \/ r \in R
                               /\ answer'[r] = answer[r]
                               /\ audit'[r] = IF r \in R THEN audit[r] \cup {"requested"}
                                                         ELSE audit[r]
<1>1. ManagerTyped
  BY DEF IInv
<1>2. audit' \in [Request -> SUBSET {"requested", "replied", "cancelled"}]
  BY <1>1 DEF RegisterBatch, ManagerTyped
<1> QED
  BY <1>1, <1>2 DEF RegisterBatch, ManagerTyped

LEMMA RegisterBatchFailsDoes ==
  ASSUME NEW R \in SUBSET Request, IInv, RegisterBatchFails(R)
  PROVE  /\ ManagerTyped' /\ errors' # 0 /\ UNCHANGED <<pending, answer>>
         /\ \A r \in Request :
              audit'[r] = audit[r] \/ (r \in R /\ audit'[r] = audit[r] \cup {"requested"})
<1>1. ManagerTyped
  BY DEF IInv
<1>2. PICK n \in R :
        audit' = [r \in Request |->
                    IF r \in R /\ r < n THEN audit[r] \cup {"requested"} ELSE audit[r]]
  BY DEF RegisterBatchFails
<1>3. audit' \in [Request -> SUBSET {"requested", "replied", "cancelled"}]
  BY <1>1, <1>2 DEF ManagerTyped
<1>4. errors' \in Nat /\ errors' # 0 /\ UNCHANGED <<pending, answer, grants>>
  BY <1>1 DEF RegisterBatchFails, StoreFails, ManagerTyped
<1> QED
  BY <1>1, <1>2, <1>3, <1>4 DEF ManagerTyped

LEMMA ResolveAllDoes ==
  ASSUME NEW R \in SUBSET Request, NEW k \in {"once", "always", "reject"}, IInv,
         ResolveAll(R, k), UNCHANGED errors
  PROVE  /\ ManagerTyped'
         /\ \A r \in Request : /\ r \in pending' <=> r \in pending /\ r \notin R
                               /\ answer'[r] = IF r \in R THEN k ELSE answer[r]
                               /\ audit'[r] = IF r \in R THEN audit[r] \cup {"replied"}
                                                         ELSE audit[r]
<1>1. ManagerTyped
  BY DEF IInv
<1>2. audit' \in [Request -> SUBSET {"requested", "replied", "cancelled"}]
  BY <1>1 DEF ResolveAll, ManagerTyped
<1>3. answer' \in [Request -> Answer]
  BY <1>1 DEF ResolveAll, ManagerTyped, Answer
<1>4. grants' \subseteq Resources
  BY <1>1 DEF ResolveAll, ManagerTyped, Resources
<1> QED
  BY <1>1, <1>2, <1>3, <1>4 DEF ResolveAll, ManagerTyped

LEMMA CancelRequestDoes ==
  ASSUME NEW r \in Request, IInv, CancelRequest(r)
  PROVE  /\ ManagerTyped' /\ (errors' = 0 => errors = 0)
         /\ \A q \in Request : q # r => /\ q \in pending' <=> q \in pending
                                        /\ answer'[q] = answer[q] /\ audit'[q] = audit[q]
         /\ \/ /\ answer'[r] = answer[r] /\ audit'[r] = audit[r]
               /\ r \in pending' <=> r \in pending
               /\ r \in pending' => errors' # 0
            \/ /\ r \in pending /\ r \notin pending' /\ answer'[r] = "cancelled"
               /\ audit'[r] = audit[r] \cup {"cancelled"}
<1>1. ManagerTyped
  BY DEF IInv
<1>2. CASE r \notin pending /\ UNCHANGED <<manager, errors>>
  BY <1>1, <1>2 DEF manager, ManagerTyped
<1>3. CASE /\ r \in pending /\ pending' = pending \ {r}
           /\ answer' = [answer EXCEPT ![r] = "cancelled"]
           /\ audit' = [audit EXCEPT ![r] = @ \cup {"cancelled"}]
           /\ UNCHANGED <<grants, errors>>
  <2>1. answer' \in [Request -> Answer]
    BY <1>1, <1>3 DEF ManagerTyped, Answer
  <2>2. audit' \in [Request -> SUBSET {"requested", "replied", "cancelled"}]
    <3>1. audit[r] \cup {"cancelled"} \in SUBSET {"requested", "replied", "cancelled"}
      BY <1>1 DEF ManagerTyped
    <3> QED
      BY <1>1, <1>3, <3>1 DEF ManagerTyped
  <2>3. ManagerTyped'
    BY <1>1, <1>3, <2>1, <2>2 DEF ManagerTyped
  <2>4. \A q \in Request : /\ answer'[q] = IF q = r THEN "cancelled" ELSE answer[q]
                           /\ audit'[q] = IF q = r THEN audit[r] \cup {"cancelled"} ELSE audit[q]
    BY <1>1, <1>3 DEF ManagerTyped
  <2> QED
    BY <1>3, <2>3, <2>4
<1>4. CASE r \in pending /\ StoreFails /\ UNCHANGED manager
  BY <1>1, <1>4 DEF manager, ManagerTyped, StoreFails
<1> QED
  BY <1>2, <1>3, <1>4 DEF CancelRequest

--------------------------------------------------------------------------------
(* A step of the execution of call t: what the others rely on stays. *)
Others(t) ==
  /\ \A u \in Tool \ {t} :
       /\ plan'[u] = plan[u] /\ left'[u] = left[u] /\ pc'[u] = pc[u]
       /\ outcome'[u] = outcome[u] /\ token'[u] = token[u] /\ status'[u] = status[u]
       /\ (u \in stored' <=> u \in stored) /\ (u \in ran' <=> u \in ran)
  /\ \A r \in Request : Owner[r] # t =>
       /\ (r \in pending' <=> r \in pending) /\ answer'[r] = answer[r] /\ audit'[r] = audit[r]
       /\ (r \in waived' <=> r \in waived) /\ (r \in toApprove' <=> r \in toApprove)

LEMMA OthersKept ==
  ASSUME NEW t \in Tool, IInv, Others(t), UNCHANGED <<phase, auto>>, errors' = 0 => errors = 0
  PROVE  /\ \A u \in Tool \ {t} : ToolInv(u)'
         /\ \A r \in Request : Owner[r] # t => RequestInv(r)'
<1>1. ASSUME NEW u \in Tool \ {t} PROVE ToolInv(u)'
  <2>1. \A r \in Own(u) : r \in Request /\ Owner[r] # t
    BY DEF Own
  <2>2. Own(u)' = Own(u)
    BY DEF Own
  <2>3. PlanInv(u)'
    BY <2>1, <2>2 DEF IInv, ToolInv, PlanInv, Others
  <2>4. ApprovalInv(u)'
    <3>1. \A r \in Own(u) : Approved(r)' <=> Approved(r)
      BY <2>1 DEF Approved, Others
    <3>2. toApprove' \cap Own(u) = toApprove \cap Own(u)
      BY <2>1 DEF Others
    <3> QED
      BY <2>2, <3>1, <3>2 DEF IInv, ToolInv, ApprovalInv, Authorized, Others
  <2>5. TokenInv(u)' /\ StatusInv(u)'
    BY DEF IInv, ToolInv, TokenInv, StatusInv, Others
  <2> QED
    BY <2>3, <2>4, <2>5 DEF ToolInv
<1>2. ASSUME NEW r \in Request, Owner[r] # t PROVE RequestInv(r)'
  <2>1. left'[Owner[r]] = left[Owner[r]]
    BY <1>2, RoundAssumption DEF Others
  <2> QED
    BY <1>2, <2>1 DEF IInv, RequestInv, Others
<1> QED
  BY <1>1, <1>2

LEMMA Executing ==
  ASSUME NEW t \in Tool, IInv, pc[t] \notin {"idle", "done"}
  PROVE  phase = "executing" /\ open /\ BatchOf[t] = batch
<1>1. phase = "executing"
  BY DEF IInv, RoundInv, RoundTyped, Phase
<1>2. BatchOf[t] \in Nat /\ batch \in Nat
  BY BatchNumbers DEF IInv, RoundTyped
<1> QED
  BY <1>1, <1>2 DEF IInv, RoundInv

LEMMA ToolStep ==
  ASSUME NEW t \in Tool, IInv, pc[t] \notin {"idle", "done"},
         UNCHANGED <<round, cancellation, steering>>, Others(t), errors' = 0 => errors = 0,
         TasksTyped', ManagerTyped', ToolInv(t)', \A r \in Own(t) : RequestInv(r)'
  PROVE  IInv'
<1>1. phase = "executing" /\ open /\ BatchOf[t] = batch
  BY Executing
<1>2. RoundTyped' /\ UserTyped'
  BY DEF IInv, RoundTyped, UserTyped, round, cancellation, steering
<1>3. RoundInv'
  <2>1. \A u \in Tool : /\ BatchOf[u] < batch \/ BatchOf[u] > batch => u # t
                        /\ u # t => pc'[u] = pc[u]
    BY <1>1, BatchNumbers DEF Others
  <2> QED
    BY <1>1, <2>1 DEF IInv, RoundInv, round
<1>4. \A u \in Tool : ToolInv(u)'
  BY OthersKept DEF round
<1>5. \A r \in Request : RequestInv(r)'
  BY OthersKept DEF round, Own
<1> QED
  BY <1>2, <1>3, <1>4, <1>5 DEF IInv

(* Steps that leave the requests alone. *)
LEMMA QuietStep ==
  ASSUME NEW t \in Tool, IInv, pc[t] \notin {"idle", "done"}, Others(t),
         UNCHANGED <<round, manager, cancellation, left, waived, toApprove, steering, errors>>,
         TasksTyped', PlanInv(t)', TokenInv(t)', StatusInv(t)',
         pc'[t] \in {"awaiting", "approving"} =>
           /\ t \notin Denied /\ left[t] # {} /\ \A r \in Own(t) \ left[t] : Approved(r)
           /\ pc'[t] = pc[t] \/ (toApprove \cap Own(t) = {} /\ pc'[t] = "awaiting"),
         toApprove \cap Own(t) # {} => pc'[t] = "approving",
         pc'[t] \in {"allowed", "calling", "running"} \/ t \in ran' => Authorized(t)
  PROVE  IInv'
<1>1. ManagerTyped'
  BY DEF IInv, ManagerTyped, manager
<1>2. Own(t)' = Own(t) /\ \A r \in Own(t) : Approved(r)' <=> Approved(r)
  BY DEF Own, Approved, manager
<1>3. ApprovalInv(t)'
  BY <1>2 DEF ApprovalInv, Authorized, IInv, ToolInv
<1>4. ASSUME NEW r \in Own(t) PROVE RequestInv(r)'
  <2>1. RequestInv(r)
    BY DEF IInv, Own
  <2> QED
    BY <2>1 DEF RequestInv, manager, round
<1> QED
  BY <1>1, <1>3, <1>4, ToolStep DEF ToolInv

LEMMA BeginKeeps ==
  ASSUME NEW t \in Tool, IInv, Begin(t)
  PROVE  IInv'
<1>1. /\ pc[t] = "called"
      /\ UNCHANGED <<round, manager, cancellation, left, waived, ran, toApprove, steering,
                     errors>>
  BY DEF Begin
<1>2. phase = "executing" /\ toApprove \cap Own(t) = {}
  BY <1>1, Executing DEF IInv, ToolInv, ApprovalInv
<1>3. CASE /\ pc' = [pc EXCEPT ![t] = "done"] /\ outcome' = [outcome EXCEPT ![t] = "error"]
           /\ status' = [status EXCEPT ![t] = "failed"] \/ UNCHANGED status
           /\ UNCHANGED <<plan, token, stored>>
  <2>1. TasksTyped'
    BY <1>1, <1>3 DEF IInv, TasksTyped, Place, Outcome, Status
  <2>2. Others(t)
    BY <1>1, <1>3 DEF Others, IInv, TasksTyped, manager
  <2>3. pc'[t] = "done" /\ outcome'[t] = "error" /\ status'[t] \in {"failed", status[t]}
    BY <1>3 DEF IInv, TasksTyped
  <2>4. PlanInv(t)'
    BY <1>1, <1>3, <2>3 DEF IInv, ToolInv, PlanInv, Own
  <2>5. TokenInv(t)' /\ StatusInv(t)'
    BY <1>1, <1>3, <2>3 DEF IInv, ToolInv, TokenInv, StatusInv
  <2>6. t \notin ran'
    BY <1>1 DEF IInv, ToolInv, StatusInv
  <2> QED
    BY <1>1, <1>2, <2>1, <2>2, <2>3, <2>4, <2>5, <2>6, QuietStep
<1>4. CASE /\ token' = [token EXCEPT ![t] = "live"] /\ stored' = stored \cup {t}
           /\ plan' = [plan EXCEPT ![t] = "none"]
           /\ pc' = [pc EXCEPT ![t] = CASE plan[t] = "none" -> "drafting"
                                        [] plan[t] = "allowed" -> "allowed"
                                        [] plan[t] = "denied" -> "withdrawing"
                                        [] plan[t] = "awaiting" -> "awaiting"]
           /\ outcome' = IF plan[t] = "denied" THEN [outcome EXCEPT ![t] = "denied"]
                                               ELSE outcome
           /\ UNCHANGED status
  <2>1. /\ plan[t] \in Plan
        /\ \/ plan[t] = "none" /\ pc' = [pc EXCEPT ![t] = "drafting"] /\ outcome' = outcome
           \/ plan[t] = "allowed" /\ pc' = [pc EXCEPT ![t] = "allowed"] /\ outcome' = outcome
           \/ /\ plan[t] = "denied" /\ pc' = [pc EXCEPT ![t] = "withdrawing"]
              /\ outcome' = [outcome EXCEPT ![t] = "denied"]
           \/ plan[t] = "awaiting" /\ pc' = [pc EXCEPT ![t] = "awaiting"] /\ outcome' = outcome
    BY <1>4 DEF IInv, TasksTyped, Plan
  <2>2. TasksTyped'
    <3>1. pc' \in [Tool -> Place] /\ outcome' \in [Tool -> Outcome]
      BY <2>1 DEF IInv, TasksTyped, Place, Outcome
    <3> QED
      BY <1>1, <1>4, <3>1 DEF IInv, TasksTyped, Plan, Token
  <2>3. Others(t)
    <3>1. \A u \in Tool \ {t} : pc'[u] = pc[u] /\ outcome'[u] = outcome[u]
      BY <2>1 DEF IInv, TasksTyped
    <3> QED
      BY <1>1, <1>4, <3>1 DEF Others, IInv, TasksTyped, manager
  <2>4. /\ token'[t] = "live" /\ plan'[t] = "none" /\ t \in stored'
        /\ \/ plan[t] = "none" /\ pc'[t] = "drafting"
           \/ plan[t] = "allowed" /\ pc'[t] = "allowed"
           \/ plan[t] = "denied" /\ pc'[t] = "withdrawing" /\ outcome'[t] = "denied"
           \/ plan[t] = "awaiting" /\ pc'[t] = "awaiting"
    BY <1>4, <2>1 DEF IInv, TasksTyped
  <2>5. PlanInv(t)'
    BY <1>1, <2>4 DEF IInv, ToolInv, PlanInv, Own, manager
  <2>6. TokenInv(t)' /\ StatusInv(t)'
    BY <1>1, <1>4, <2>4 DEF IInv, ToolInv, TokenInv, StatusInv
  <2>7. /\ pc'[t] = "awaiting" => /\ t \notin Denied /\ left[t] # {}
                                  /\ \A r \in Own(t) \ left[t] : Approved(r)
        /\ pc'[t] = "allowed" => Authorized(t)
    BY <1>1, <2>4 DEF IInv, ToolInv, PlanInv, Approved, Authorized
  <2>8. t \notin ran' /\ pc'[t] \notin {"approving", "calling", "running"}
    BY <1>1, <2>4 DEF IInv, ToolInv, StatusInv
  <2> QED
    BY <1>1, <1>2, <2>2, <2>3, <2>5, <2>6, <2>7, <2>8, QuietStep
<1> QED
  BY <1>3, <1>4 DEF Begin

LEMMA IntentsFailKeeps ==
  ASSUME NEW t \in Tool, IInv, IntentsFail(t)
  PROVE  IInv'
<1>1. /\ pc[t] = "drafting" /\ pc' = [pc EXCEPT ![t] = "done"]
      /\ outcome' = [outcome EXCEPT ![t] = "unplanned"]
      /\ UNCHANGED <<round, manager, cancellation, plan, left, waived, token, stored, status,
                     ran, toApprove, steering, errors>>
  BY DEF IntentsFail
<1>2. toApprove \cap Own(t) = {} /\ t \notin ran
  BY <1>1, Executing DEF IInv, ToolInv, ApprovalInv, StatusInv
<1>3. TasksTyped'
  BY <1>1 DEF IInv, TasksTyped, Place, Outcome
<1>4. Others(t)
  BY <1>1 DEF Others, IInv, TasksTyped, manager
<1>5. pc'[t] = "done" /\ outcome'[t] = "unplanned"
  BY <1>1 DEF IInv, TasksTyped
<1>6. PlanInv(t)'
  BY <1>1, <1>5 DEF IInv, ToolInv, PlanInv, Own
<1>7. TokenInv(t)' /\ StatusInv(t)'
  BY <1>1, <1>5 DEF IInv, ToolInv, TokenInv, StatusInv
<1> QED
  BY <1>1, <1>2, <1>3, <1>4, <1>5, <1>6, <1>7, QuietStep

LEMMA RefuseKeeps ==
  ASSUME NEW t \in Tool, IInv, Refuse(t)
  PROVE  IInv'
<1>1. /\ pc[t] = "withdrawing" /\ left[t] = {} /\ pc' = [pc EXCEPT ![t] = "done"]
      /\ stored' = stored \ {t}
      /\ status' = IF outcome[t] \in {"rejected", "denied"}
                     THEN [status EXCEPT ![t] = "rejected"] ELSE status
      /\ UNCHANGED <<round, manager, cancellation, plan, left, waived, outcome, token, ran,
                     toApprove, steering, errors>>
  BY DEF Refuse
<1>2. toApprove \cap Own(t) = {} /\ t \notin ran
  BY <1>1, Executing DEF IInv, ToolInv, ApprovalInv, StatusInv
<1>3. TasksTyped'
  BY <1>1 DEF IInv, TasksTyped, Place, Status
<1>4. Others(t)
  BY <1>1 DEF Others, IInv, TasksTyped, manager
<1>5. /\ pc'[t] = "done"
      /\ status'[t] = IF outcome[t] \in {"rejected", "denied"} THEN "rejected" ELSE status[t]
  BY <1>1 DEF IInv, TasksTyped
<1>6. PlanInv(t)'
  BY <1>1, <1>5 DEF IInv, ToolInv, PlanInv, Own
<1>7. TokenInv(t)' /\ StatusInv(t)'
  BY <1>1, <1>5 DEF IInv, ToolInv, TokenInv, StatusInv
<1> QED
  BY <1>1, <1>2, <1>3, <1>4, <1>5, <1>6, <1>7, QuietStep

LEMMA CheckTokenKeeps ==
  ASSUME NEW t \in Tool, IInv, CheckToken(t)
  PROVE  IInv'
<1>1. /\ pc[t] = "allowed"
      /\ UNCHANGED <<round, manager, cancellation, plan, left, waived, token, ran, toApprove,
                     steering, errors>>
      /\ \/ /\ pc' = [pc EXCEPT ![t] = "done"] /\ outcome' = [outcome EXCEPT ![t] = "cancelled"]
            /\ status' = [status EXCEPT ![t] = "cancelled"] /\ stored' = stored \ {t}
         \/ /\ pc' = [pc EXCEPT ![t] = "calling"] /\ UNCHANGED <<outcome, stored>>
            /\ status' = [status EXCEPT ![t] = IF t \in Streaming THEN "streaming" ELSE "running"]
  BY DEF CheckToken
<1>2. toApprove \cap Own(t) = {} /\ t \notin ran /\ Authorized(t)
  BY <1>1, Executing DEF IInv, ToolInv, ApprovalInv, StatusInv
<1>3. TasksTyped'
  <2>1. pc' \in [Tool -> Place] /\ outcome' \in [Tool -> Outcome] /\ stored' \subseteq Tool
    BY <1>1 DEF IInv, TasksTyped, Place, Outcome
  <2>2. status' \in [Tool -> Status]
    BY <1>1 DEF IInv, TasksTyped, Status
  <2> QED
    BY <1>1, <2>1, <2>2 DEF IInv, TasksTyped
<1>4. Others(t)
  BY <1>1 DEF Others, IInv, TasksTyped, manager
<1>5. \/ /\ pc'[t] = "done" /\ outcome'[t] = "cancelled" /\ status'[t] = "cancelled"
         /\ t \notin stored'
      \/ pc'[t] = "calling" /\ (t \in stored' <=> t \in stored)
  BY <1>1 DEF IInv, TasksTyped
<1>6. PlanInv(t)'
  BY <1>1, <1>5 DEF IInv, ToolInv, PlanInv, Own
<1>7. TokenInv(t)' /\ StatusInv(t)'
  BY <1>1, <1>2, <1>5 DEF IInv, ToolInv, TokenInv, StatusInv
<1> QED
  BY <1>1, <1>2, <1>3, <1>4, <1>5, <1>6, <1>7, QuietStep

LEMMA CallKeeps ==
  ASSUME NEW t \in Tool, IInv, Call(t)
  PROVE  IInv'
<1>1. /\ pc[t] = "calling"
      /\ UNCHANGED <<round, manager, cancellation, plan, left, waived, token, status,
                     toApprove, steering, errors>>
      /\ \/ /\ pc' = [pc EXCEPT ![t] = "settling"] /\ UNCHANGED ran
            /\ outcome' = [outcome EXCEPT ![t] = "cancelled"] /\ stored' = stored \ {t}
         \/ /\ pc' = [pc EXCEPT ![t] = "running"] /\ ran' = ran \cup {t}
            /\ UNCHANGED <<outcome, stored>>
  BY DEF Call
<1>2. toApprove \cap Own(t) = {} /\ Authorized(t)
  BY <1>1, Executing DEF IInv, ToolInv, ApprovalInv
<1>3. TasksTyped'
  <2>1. pc' \in [Tool -> Place] /\ outcome' \in [Tool -> Outcome]
    BY <1>1 DEF IInv, TasksTyped, Place, Outcome
  <2> QED
    BY <1>1, <2>1 DEF IInv, TasksTyped
<1>4. Others(t)
  BY <1>1 DEF Others, IInv, TasksTyped, manager
<1>5. \/ pc'[t] = "settling" /\ outcome'[t] = "cancelled" /\ t \notin stored'
      \/ pc'[t] = "running" /\ (t \in stored' <=> t \in stored)
  BY <1>1 DEF IInv, TasksTyped
<1>6. PlanInv(t)'
  BY <1>1, <1>5 DEF IInv, ToolInv, PlanInv, Own
<1>7. TokenInv(t)' /\ StatusInv(t)'
  BY <1>1, <1>5 DEF IInv, ToolInv, TokenInv, StatusInv
<1> QED
  BY <1>1, <1>2, <1>3, <1>4, <1>5, <1>6, <1>7, QuietStep

LEMMA ReturnKeeps ==
  ASSUME NEW t \in Tool, IInv, Return(t)
  PROVE  IInv'
<1>1. PICK o \in {"ok", "error", "timeout", "cancelled"} :
        /\ pc[t] = "running" /\ pc' = [pc EXCEPT ![t] = "settling"] /\ stored' = stored \ {t}
        /\ outcome' = [outcome EXCEPT ![t] = o]
        /\ status' \in {status, [status EXCEPT ![t] = "streaming"]}
        /\ UNCHANGED <<round, manager, cancellation, plan, left, waived, token, ran, toApprove,
                       steering, errors>>
  BY DEF Return
<1>2. toApprove \cap Own(t) = {} /\ Authorized(t)
  BY <1>1, Executing DEF IInv, ToolInv, ApprovalInv
<1>3. TasksTyped'
  <2>1. pc' \in [Tool -> Place] /\ outcome' \in [Tool -> Outcome] /\ stored' \subseteq Tool
    BY <1>1 DEF IInv, TasksTyped, Place, Outcome
  <2>2. status' \in [Tool -> Status]
    BY <1>1 DEF IInv, TasksTyped, Status
  <2> QED
    BY <1>1, <2>1, <2>2 DEF IInv, TasksTyped
<1>4. Others(t)
  BY <1>1 DEF Others, IInv, TasksTyped, manager
<1>5. pc'[t] = "settling" /\ outcome'[t] = o /\ t \notin stored'
  BY <1>1 DEF IInv, TasksTyped
<1>6. PlanInv(t)'
  BY <1>1, <1>5 DEF IInv, ToolInv, PlanInv, Own
<1>7. TokenInv(t)' /\ StatusInv(t)'
  BY <1>1, <1>5 DEF IInv, ToolInv, TokenInv, StatusInv
<1> QED
  BY <1>1, <1>2, <1>3, <1>4, <1>5, <1>6, <1>7, QuietStep

LEMMA SettleKeeps ==
  ASSUME NEW t \in Tool, IInv, Settle(t)
  PROVE  IInv'
<1>1. /\ pc[t] = "settling" /\ pc' = [pc EXCEPT ![t] = "done"]
      /\ status' = [status EXCEPT ![t] = Settled(outcome[t])]
      /\ UNCHANGED <<round, manager, cancellation, plan, left, waived, outcome, token, stored,
                     ran, toApprove, steering, errors>>
  BY DEF Settle
<1>a. /\ outcome[t] \in {"ok", "error", "timeout", "cancelled"}
      /\ \/ outcome[t] = "ok" /\ Settled(outcome[t]) = "completed"
         \/ outcome[t] = "error" /\ Settled(outcome[t]) = "failed"
         \/ outcome[t] \in {"timeout", "cancelled"} /\ Settled(outcome[t]) = "cancelled"
  BY <1>1 DEF IInv, ToolInv, StatusInv, Settled
<1>2. toApprove \cap Own(t) = {} /\ (t \in ran => Authorized(t))
  BY <1>1, Executing DEF IInv, ToolInv, ApprovalInv
<1>3. TasksTyped'
  <2>1. Settled(outcome[t]) \in Status
    BY <1>a DEF Status
  <2> QED
    BY <1>1, <2>1 DEF IInv, TasksTyped, Place
<1>4. Others(t)
  BY <1>1 DEF Others, IInv, TasksTyped, manager
<1>5. pc'[t] = "done" /\ status'[t] = Settled(outcome[t])
  BY <1>1 DEF IInv, TasksTyped
<1>6. PlanInv(t)'
  BY <1>1, <1>5 DEF IInv, ToolInv, PlanInv, Own
<1>7. TokenInv(t)' /\ StatusInv(t)'
  BY <1>1, <1>a, <1>5 DEF IInv, ToolInv, TokenInv, StatusInv
<1> QED
  BY <1>1, <1>2, <1>3, <1>4, <1>5, <1>6, <1>7, QuietStep

(* What a call that drafts its requests late knows of them. *)
LEMMA LateDraft ==
  ASSUME NEW t \in Tool, IInv, pc[t] = "drafting"
  PROVE  /\ phase = "executing" /\ toApprove \cap Own(t) = {} /\ t \notin ran
         /\ plan[t] = "none" /\ left[t] = {}
         /\ \A r \in Own(t) : /\ r \notin pending /\ audit[r] = {}
                              /\ answer[r] \notin {"once", "always", "reject", "cancelled"}
<1>1. phase = "executing" /\ toApprove \cap Own(t) = {} /\ t \notin ran
  BY Executing DEF IInv, ToolInv, ApprovalInv, StatusInv
<1>2. plan[t] = "none" /\ left[t] = {} /\ \A r \in Own(t) : r \notin pending /\ audit[r] = {}
  BY DEF IInv, ToolInv, PlanInv
<1>3. ASSUME NEW r \in Own(t)
      PROVE  answer[r] \notin {"once", "always", "reject", "cancelled"}
  BY <1>2 DEF IInv, RequestInv, Own
<1> QED
  BY <1>1, <1>2, <1>3

LEMMA DraftLateKeeps ==
  ASSUME NEW t \in Tool, IInv, DraftLate(t)
  PROVE  IInv'
<1>1. /\ pc[t] = "drafting"
      /\ UNCHANGED <<round, cancellation, plan, token, stored, status, ran, steering>>
  BY DEF DraftLate
<1>2. /\ phase = "executing" /\ toApprove \cap Own(t) = {} /\ t \notin ran
      /\ plan[t] = "none" /\ left[t] = {}
      /\ \A r \in Own(t) : /\ r \notin pending /\ audit[r] = {}
                           /\ answer[r] \notin {"once", "always", "reject", "cancelled"}
  BY <1>1, LateDraft
<1>3. CASE t \in Denied
  <2>1. /\ outcome' = [outcome EXCEPT ![t] = "denied"]
        /\ pc' = [pc EXCEPT ![t] = "withdrawing"]
        /\ UNCHANGED <<left, waived, manager, errors, toApprove>>
    BY <1>3 DEF DraftLate
  <2>2. TasksTyped'
    BY <1>1, <2>1 DEF IInv, TasksTyped, Place, Outcome
  <2>3. Others(t)
    BY <1>1, <2>1 DEF Others, IInv, TasksTyped, manager
  <2>4. pc'[t] = "withdrawing" /\ outcome'[t] = "denied"
    BY <2>1 DEF IInv, TasksTyped
  <2>5. PlanInv(t)'
    BY <1>1, <1>2, <2>1, <2>4 DEF PlanInv, Own
  <2>6. TokenInv(t)' /\ StatusInv(t)'
    BY <1>1, <1>2, <2>4 DEF IInv, ToolInv, TokenInv, StatusInv
  <2> QED
    BY <1>1, <1>2, <2>1, <2>2, <2>3, <2>4, <2>5, <2>6, QuietStep
<1>4. CASE t \notin Denied
  <2> DEFINE N == Needed(t)
  <2>1. /\ RegisterBatch(N)
        /\ left' = [left EXCEPT ![t] = N]
        /\ waived' = waived \cup (Own(t) \ N)
        /\ toApprove' = IF auto THEN toApprove \cup N ELSE toApprove
        /\ pc' = [pc EXCEPT ![t] = IF N = {} THEN "allowed"
                                   ELSE IF auto THEN "approving" ELSE "awaiting"]
        /\ UNCHANGED outcome
    BY <1>4 DEF DraftLate
  <2>2. N \in SUBSET Request /\ N \subseteq Own(t) /\ Own(t) \subseteq Request
    BY DEF Needed, Own
  <2> HIDE DEF N
  <2>3. /\ ManagerTyped' /\ errors' = errors
        /\ \A r \in Request : /\ r \in pending' <=> r \in pending \/ r \in N
                              /\ answer'[r] = answer[r]
                              /\ audit'[r] = IF r \in N THEN audit[r] \cup {"requested"}
                                                        ELSE audit[r]
    BY <2>1, <2>2, RegisterBatchDoes
  <2>4. TasksTyped'
    <3>1. /\ pc' \in [Tool -> Place] /\ left' \in [Tool -> SUBSET Request]
          /\ waived' \subseteq Request /\ toApprove' \subseteq Request
      BY <2>1, <2>2 DEF IInv, TasksTyped, Place
    <3> QED
      BY <1>1, <2>1, <3>1 DEF IInv, TasksTyped
  <2>5. Others(t)
    <3>1. \A u \in Tool \ {t} : pc'[u] = pc[u] /\ left'[u] = left[u]
      BY <2>1 DEF IInv, TasksTyped
    <3>2. ASSUME NEW r \in Request, Owner[r] # t
          PROVE  /\ (r \in pending' <=> r \in pending)
                 /\ answer'[r] = answer[r] /\ audit'[r] = audit[r]
                 /\ (r \in waived' <=> r \in waived) /\ (r \in toApprove' <=> r \in toApprove)
      <4>1. r \notin Own(t) /\ r \notin N
        BY <2>2, <3>2 DEF Own
      <4> QED
        BY <2>1, <2>3, <4>1
    <3> QED
      BY <1>1, <2>1, <3>1, <3>2 DEF Others
  <2>6. /\ left'[t] = N /\ \A r \in Own(t) \ N : r \in waived'
        /\ \/ N = {} /\ pc'[t] = "allowed" /\ toApprove' \cap Own(t) = {}
           \/ N # {} /\ auto /\ pc'[t] = "approving" /\ toApprove' \cap Own(t) = N
           \/ N # {} /\ pc'[t] = "awaiting" /\ toApprove' \cap Own(t) = {}
    BY <1>2, <2>1, <2>2 DEF IInv, TasksTyped
  <2>7. PlanInv(t)'
    BY <1>1, <1>2, <2>2, <2>6 DEF PlanInv, Own
  <2>8. ApprovalInv(t)'
    BY <1>1, <1>2, <1>4, <2>6 DEF ApprovalInv, Authorized, Approved, Own
  <2>9. TokenInv(t)' /\ StatusInv(t)'
    BY <1>1, <1>2, <2>1, <2>6 DEF IInv, ToolInv, TokenInv, StatusInv
  <2>10. ASSUME NEW r \in Own(t) PROVE RequestInv(r)'
    <3>1. r \in Request /\ Owner[r] = t /\ RequestInv(r)
      BY DEF Own, IInv
    <3>2. /\ r \in pending' <=> r \in N
          /\ answer'[r] = answer[r] /\ audit'[r] = IF r \in N THEN {"requested"} ELSE {}
          /\ r \in toApprove' => r \in N /\ auto
      BY <1>2, <2>3, <2>6, <3>1
    <3>a. answer[r] = "none"
      <4>1. answer[r] \in Answer
        BY <3>1 DEF IInv, ManagerTyped
      <4> QED
        BY <4>1, <1>2 DEF Answer
    <3> QED
      BY <1>1, <1>2, <3>1, <3>2, <3>a, <2>6 DEF RequestInv, round
  <2> QED
    BY <1>1, <2>3, <2>4, <2>5, <2>7, <2>8, <2>9, <2>10, ToolStep DEF ToolInv
<1> QED
  BY <1>3, <1>4

LEMMA DraftLateFailsKeeps ==
  ASSUME NEW t \in Tool, IInv, DraftLateFails(t)
  PROVE  IInv'
<1>1. /\ pc[t] = "drafting" /\ RegisterBatchFails(Needed(t))
      /\ pc' = [pc EXCEPT ![t] = "done"]
      /\ outcome' = [outcome EXCEPT ![t] = "error"]
      /\ stored' = stored \ {t}
      /\ UNCHANGED <<round, cancellation, plan, left, waived, token, status, ran, steering,
                     toApprove>>
  BY DEF DraftLateFails, FailLate
<1>2. /\ phase = "executing" /\ toApprove \cap Own(t) = {} /\ t \notin ran
      /\ plan[t] = "none" /\ left[t] = {}
      /\ \A r \in Own(t) : /\ r \notin pending /\ audit[r] = {}
                           /\ answer[r] \notin {"once", "always", "reject", "cancelled"}
  BY <1>1, LateDraft
<1>3. Needed(t) \in SUBSET Request /\ Needed(t) \subseteq Own(t) /\ Own(t) \subseteq Request
  BY DEF Needed, Own
<1>4. /\ ManagerTyped' /\ errors' # 0 /\ UNCHANGED <<pending, answer>>
      /\ \A r \in Request :
           audit'[r] = audit[r] \/ (r \in Needed(t) /\ audit'[r] = audit[r] \cup {"requested"})
  BY <1>1, <1>3, RegisterBatchFailsDoes
<1>5. TasksTyped'
  BY <1>1 DEF IInv, TasksTyped, Place, Outcome
<1>6. Others(t)
  <2>1. ASSUME NEW r \in Request, Owner[r] # t PROVE audit'[r] = audit[r]
    BY <1>3, <1>4, <2>1 DEF Own
  <2> QED
    BY <1>1, <1>4, <2>1 DEF Others, IInv, TasksTyped
<1>7. pc'[t] = "done" /\ outcome'[t] = "error" /\ t \notin stored'
  BY <1>1 DEF IInv, TasksTyped
<1>8. PlanInv(t)'
  BY <1>1, <1>2, <1>7 DEF PlanInv, Own
<1>9. ApprovalInv(t)'
  BY <1>1, <1>2, <1>7 DEF ApprovalInv, Own
<1>10. TokenInv(t)' /\ StatusInv(t)'
  BY <1>1, <1>2, <1>7 DEF IInv, ToolInv, TokenInv, StatusInv
<1>11. ASSUME NEW r \in Own(t) PROVE RequestInv(r)'
  <2>1. r \in Request /\ RequestInv(r) /\ r \notin toApprove /\ r \notin pending
    BY <1>2 DEF Own, IInv
  <2> QED
    BY <1>1, <1>2, <1>4, <2>1 DEF RequestInv
<1> QED
  BY <1>1, <1>4, <1>5, <1>6, <1>8, <1>9, <1>10, <1>11, ToolStep DEF ToolInv

LEMMA ApproveLateKeeps ==
  ASSUME NEW t \in Tool, IInv, ApproveLate(t)
  PROVE  IInv'
<1> DEFINE mine == toApprove \cap Own(t)
           m == Min(mine)
<1>1. /\ pc[t] = "approving" /\ ResolveAll({m}, "once")
      /\ toApprove' = toApprove \ {m}
      /\ pc' = IF mine = {m} THEN [pc EXCEPT ![t] = "awaiting"] ELSE pc
      /\ UNCHANGED <<round, cancellation, plan, left, waived, outcome, token, stored, status,
                     ran, steering, errors>>
  BY DEF ApproveLate
<1>2. mine # {} /\ mine \in SUBSET Request /\ mine \subseteq Own(t) /\ mine \subseteq toApprove
  BY <1>1 DEF IInv, ToolInv, ApprovalInv, Own
<1> HIDE DEF mine
<1>3. m \in mine /\ m \in Own(t) /\ m \in toApprove /\ m \in Request /\ Owner[m] = t
  BY <1>2, MinIsMember DEF Own
<1> HIDE DEF m
<1>4. phase = "executing" /\ m \in pending
  BY <1>1, <1>3, Executing DEF IInv, RequestInv
<1>5. {m} \in SUBSET Request
  BY <1>3
<1>6. /\ ManagerTyped'
      /\ \A r \in Request :
           /\ r \in pending' <=> r \in pending /\ r \notin {m}
           /\ answer'[r] = IF r \in {m} THEN "once" ELSE answer[r]
           /\ audit'[r] = IF r \in {m} THEN audit[r] \cup {"replied"} ELSE audit[r]
  BY <1>1, <1>5, ResolveAllDoes
<1>7. TasksTyped'
  BY <1>1 DEF IInv, TasksTyped, Place
<1>8. Others(t)
  <2>1. \A r \in Request : Owner[r] # t => r # m
    BY <1>3
  <2>2. \A u \in Tool \ {t} : pc'[u] = pc[u]
    BY <1>1 DEF IInv, TasksTyped
  <2> QED
    BY <1>1, <1>6, <2>1, <2>2 DEF Others
<1>9. \/ mine = {m} /\ pc'[t] = "awaiting" /\ toApprove' \cap Own(t) = {}
      \/ mine # {m} /\ pc'[t] = "approving" /\ toApprove' \cap Own(t) # {}
  <2>1. toApprove' \cap Own(t) = mine \ {m}
    BY <1>1 DEF mine
  <2> QED
    BY <1>1, <1>3, <2>1 DEF IInv, TasksTyped
<1>10. PlanInv(t)'
  <2>1. plan[t] = "none"
    BY <1>1 DEF IInv, ToolInv, PlanInv
  <2> QED
    BY <1>1, <1>9, <2>1 DEF IInv, ToolInv, PlanInv, Own
<1>11. ApprovalInv(t)'
  <2>1. \A r \in Own(t) : Approved(r) => Approved(r)'
    BY <1>1, <1>6 DEF Approved, Own
  <2>2. /\ t \notin Denied /\ left[t] # {} /\ t \notin ran
        /\ \A r \in Own(t) \ left[t] : Approved(r)
    BY <1>1 DEF IInv, ToolInv, ApprovalInv, StatusInv
  <2> QED
    BY <1>1, <1>9, <2>1, <2>2 DEF ApprovalInv, Own
<1>12. TokenInv(t)' /\ StatusInv(t)'
  BY <1>1, <1>9 DEF IInv, ToolInv, TokenInv, StatusInv
<1>13. ASSUME NEW r \in Own(t) PROVE RequestInv(r)'
  <2>1. r \in Request /\ RequestInv(r) /\ RequestInv(m)
    BY <1>3 DEF Own, IInv
  <2>2. CASE r = m
    <3>1. /\ m \notin pending' /\ answer'[m] = "once"
          /\ audit'[m] = {"requested", "replied"} /\ m \notin toApprove'
      BY <1>1, <1>3, <1>4, <1>6, <2>1 DEF RequestInv
    <3> QED
      BY <2>2, <3>1 DEF RequestInv
  <2>3. CASE r # m
    <3>1. /\ r \in pending' <=> r \in pending
          /\ answer'[r] = answer[r] /\ audit'[r] = audit[r]
          /\ r \in toApprove' => r \in toApprove
      BY <1>1, <1>6, <2>1, <2>3
    <3> QED
      BY <1>1, <1>4, <2>1, <3>1 DEF RequestInv, round
  <2> QED
    BY <2>2, <2>3
<1> QED
  BY <1>1, <1>6, <1>7, <1>8, <1>10, <1>11, <1>12, <1>13, ToolStep DEF ToolInv

LEMMA ApproveLateFailsKeeps ==
  ASSUME NEW t \in Tool, IInv, ApproveLateFails(t)
  PROVE  IInv'
<1>1. /\ pc[t] = "approving" /\ StoreFails
      /\ pc' = [pc EXCEPT ![t] = "withdrawing"]
      /\ outcome' = [outcome EXCEPT ![t] = "error"]
      /\ toApprove' = toApprove \ Own(t)
      /\ UNCHANGED <<round, manager, cancellation, plan, left, waived, token, stored, status,
                     ran, steering>>
  BY DEF ApproveLateFails
<1>2. phase = "executing" /\ plan[t] = "none" /\ t \notin ran
  BY <1>1, Executing DEF IInv, ToolInv, PlanInv, StatusInv
<1>3. ManagerTyped' /\ errors' # 0
  BY <1>1 DEF IInv, ManagerTyped, manager, StoreFails
<1>4. TasksTyped'
  BY <1>1 DEF IInv, TasksTyped, Place, Outcome
<1>5. Others(t)
  <2>1. \A r \in Request : Owner[r] # t => r \notin Own(t)
    BY DEF Own
  <2> QED
    BY <1>1, <2>1 DEF Others, IInv, TasksTyped, manager
<1>6. pc'[t] = "withdrawing" /\ outcome'[t] = "error" /\ toApprove' \cap Own(t) = {}
  BY <1>1 DEF IInv, TasksTyped
<1>7. PlanInv(t)'
  BY <1>1, <1>2, <1>6 DEF IInv, ToolInv, PlanInv, Own
<1>8. ApprovalInv(t)'
  BY <1>1, <1>2, <1>6 DEF ApprovalInv, Own
<1>9. TokenInv(t)' /\ StatusInv(t)'
  BY <1>1, <1>2, <1>6 DEF IInv, ToolInv, TokenInv, StatusInv
<1>10. ASSUME NEW r \in Own(t) PROVE RequestInv(r)'
  <2>1. RequestInv(r) /\ r \notin toApprove'
    BY <1>1 DEF Own, IInv
  <2> QED
    BY <1>1, <1>3, <2>1 DEF RequestInv, manager
<1> QED
  BY <1>1, <1>3, <1>4, <1>5, <1>7, <1>8, <1>9, <1>10, ToolStep DEF ToolInv

LEMMA AwaitReplyKeeps ==
  ASSUME NEW t \in Tool, IInv, AwaitReply(t)
  PROVE  IInv'
<1> DEFINE m == Min(left[t])
<1>1. /\ pc[t] = "awaiting"
      /\ UNCHANGED <<round, manager, cancellation, plan, waived, token, stored, status, ran,
                     toApprove, steering, errors>>
  BY DEF AwaitReply
<1>2. /\ phase = "executing" /\ toApprove \cap Own(t) = {}
      /\ plan[t] = "none" /\ t \notin ran /\ t \notin Denied
      /\ left[t] # {} /\ left[t] \in SUBSET Request /\ left[t] \subseteq Own(t)
      /\ \A r \in Own(t) \ left[t] : Approved(r)
  BY <1>1, Executing DEF IInv, ToolInv, PlanInv, ApprovalInv, StatusInv, TasksTyped
<1>3. m \in left[t]
  BY <1>2, MinIsMember
<1> HIDE DEF m
<1>4. \/ /\ left' \in {left, [left EXCEPT ![t] = @ \ {m}]}
         /\ left' # left => answer[m] # "none"
         /\ pc' = [pc EXCEPT ![t] = "withdrawing"]
         /\ \E o \in {"rejected", "cancelled"} : outcome' = [outcome EXCEPT ![t] = o]
      \/ /\ left' = [left EXCEPT ![t] = @ \ {m}] /\ answer[m] \in {"once", "always"}
         /\ pc' = IF left'[t] = {} THEN [pc EXCEPT ![t] = "allowed"] ELSE pc
         /\ UNCHANGED outcome
  <2>1. CASE token[t] = "fired" /\ Deny(t, "cancelled") /\ UNCHANGED left
    BY <2>1 DEF Deny
  <2>2. CASE answer[m] # "none" /\ ReceiveReply(t, m)
    <3>1. answer[m] \in Answer
      BY <1>2, <1>3 DEF IInv, ManagerTyped
    <3>2. left' = [left EXCEPT ![t] = @ \ {m}]
      BY <2>2 DEF ReceiveReply
    <3>3. CASE answer[m] = "reject"
      BY <2>2, <3>2, <3>3 DEF ReceiveReply, Deny
    <3>4. CASE answer[m] # "reject" /\ (answer[m] = "cancelled" \/ token[t] = "fired")
      BY <2>2, <3>2, <3>4 DEF ReceiveReply, Deny
    <3>5. CASE answer[m] # "reject" /\ ~(answer[m] = "cancelled" \/ token[t] = "fired")
      BY <2>2, <3>1, <3>2, <3>5 DEF ReceiveReply, Answer
    <3> QED
      BY <3>3, <3>4, <3>5
  <2> QED
    BY <2>1, <2>2 DEF AwaitReply, m
<1>5. /\ left'[t] \subseteq left[t] /\ left[t] \ left'[t] \subseteq {m}
      /\ left'[t] # left[t] => answer[m] # "none"
      /\ \/ pc'[t] = "withdrawing" /\ outcome'[t] \in {"rejected", "cancelled"}
         \/ /\ answer[m] \in {"once", "always"} /\ outcome'[t] = outcome[t]
            /\ \/ left'[t] = {} /\ pc'[t] = "allowed"
               \/ left'[t] # {} /\ pc'[t] = "awaiting"
  BY <1>1, <1>4 DEF IInv, TasksTyped
<1>6. TasksTyped' /\ \A u \in Tool \ {t} : /\ pc'[u] = pc[u] /\ outcome'[u] = outcome[u]
                                           /\ left'[u] = left[u]
  <2>1. pc' \in [Tool -> Place] /\ outcome' \in [Tool -> Outcome]
    BY <1>4 DEF IInv, TasksTyped, Place, Outcome
  <2>2. left' \in [Tool -> SUBSET Request]
    BY <1>2, <1>4 DEF IInv, TasksTyped
  <2>3. \A u \in Tool \ {t} : pc'[u] = pc[u] /\ outcome'[u] = outcome[u] /\ left'[u] = left[u]
    BY <1>4 DEF IInv, TasksTyped
  <2> QED
    BY <1>1, <2>1, <2>2, <2>3 DEF IInv, TasksTyped
<1>7. Others(t)
  BY <1>1, <1>6 DEF Others, manager
<1>8. ManagerTyped' /\ errors' = errors
  BY <1>1 DEF IInv, ManagerTyped, manager
<1>9. PlanInv(t)'
  BY <1>1, <1>2, <1>5 DEF PlanInv, Own
<1>10. ApprovalInv(t)'
  <2>1. \A r \in Own(t) : Approved(r)' <=> Approved(r)
    BY <1>1 DEF Approved, manager
  <2>2. answer[m] \in {"once", "always"} => \A r \in Own(t) \ left'[t] : Approved(r)
    BY <1>2, <1>5 DEF Approved
  <2> QED
    BY <1>1, <1>2, <1>5, <2>1, <2>2 DEF ApprovalInv, Authorized, Own
<1>11. TokenInv(t)' /\ StatusInv(t)'
  BY <1>1, <1>2, <1>5 DEF IInv, ToolInv, TokenInv, StatusInv
<1>12. ASSUME NEW r \in Own(t) PROVE RequestInv(r)'
  <2>1. r \in Request /\ RequestInv(r) /\ Owner[r] = t
    BY DEF Own, IInv
  <2>2. r \in pending /\ r \in left[t] => r \in left'[t]
    BY <1>5, <2>1 DEF RequestInv
  <2> QED
    BY <1>1, <2>1, <2>2 DEF RequestInv, manager, round
<1> QED
  BY <1>1, <1>6, <1>7, <1>8, <1>9, <1>10, <1>11, <1>12, ToolStep DEF ToolInv

LEMMA WithdrawKeeps ==
  ASSUME NEW t \in Tool, IInv, Withdraw(t)
  PROVE  IInv'
<1> DEFINE m == Min(left[t])
<1>1. /\ pc[t] = "withdrawing" /\ left[t] # {} /\ CancelRequest(m)
      /\ left' = [left EXCEPT ![t] = @ \ {m}]
      /\ UNCHANGED <<round, cancellation, plan, waived, pc, outcome, token, stored, status, ran,
                     toApprove, steering>>
  BY DEF Withdraw
<1>2. /\ phase = "executing" /\ toApprove \cap Own(t) = {}
      /\ plan[t] = "none" /\ t \notin ran
      /\ left[t] \in SUBSET Request /\ left[t] \subseteq Own(t)
  BY <1>1, Executing DEF IInv, ToolInv, PlanInv, ApprovalInv, StatusInv, TasksTyped
<1>3. m \in left[t] /\ m \in Request /\ m \in Own(t) /\ Owner[m] = t
  BY <1>1, <1>2, MinIsMember DEF Own
<1> HIDE DEF m
<1>4. /\ ManagerTyped' /\ (errors' = 0 => errors = 0)
      /\ \A q \in Request : q # m => /\ q \in pending' <=> q \in pending
                                     /\ answer'[q] = answer[q] /\ audit'[q] = audit[q]
      /\ \/ /\ answer'[m] = answer[m] /\ audit'[m] = audit[m]
            /\ m \in pending' <=> m \in pending
            /\ m \in pending' => errors' # 0
         \/ /\ m \in pending /\ m \notin pending' /\ answer'[m] = "cancelled"
            /\ audit'[m] = audit[m] \cup {"cancelled"}
  BY <1>1, <1>3, CancelRequestDoes
<1>5. left'[t] = left[t] \ {m} /\ \A u \in Tool \ {t} : left'[u] = left[u]
  BY <1>1 DEF IInv, TasksTyped
<1>6. TasksTyped'
  BY <1>1, <1>2 DEF IInv, TasksTyped
<1>7. Others(t)
  <2>1. \A r \in Request : Owner[r] # t => r # m
    BY <1>3
  <2> QED
    BY <1>1, <1>4, <1>5, <2>1 DEF Others
<1>8. PlanInv(t)'
  BY <1>1, <1>2, <1>5 DEF PlanInv, Own
<1>9. ApprovalInv(t)'
  BY <1>1, <1>2 DEF ApprovalInv, Own
<1>10. TokenInv(t)' /\ StatusInv(t)'
  BY <1>1 DEF IInv, ToolInv, TokenInv, StatusInv
<1>11. ASSUME NEW r \in Own(t) PROVE RequestInv(r)'
  <2>1. r \in Request /\ RequestInv(r) /\ Owner[r] = t /\ r \notin toApprove
    BY <1>2 DEF Own, IInv
  <2>2. CASE r # m
    BY <1>1, <1>4, <1>5, <2>1, <2>2 DEF RequestInv
  <2>3. CASE r = m
    BY <1>1, <1>4, <2>1, <2>3 DEF RequestInv
  <2> QED
    BY <2>2, <2>3
<1> QED
  BY <1>1, <1>4, <1>6, <1>7, <1>8, <1>9, <1>10, <1>11, ToolStep DEF ToolInv

--------------------------------------------------------------------------------
(* Before the first batch no call has begun. *)
LEMMA BeforeBatches ==
  ASSUME IInv, phase \in {"planning", "approving", "failing"}
  PROVE  /\ batch = 0 /\ ~open
         /\ \A t \in Tool : /\ pc[t] = "idle" /\ t \notin ran /\ t \notin stored
                            /\ status[t] \in {"queued", "cancelled"}
<1>1. batch = 0 /\ ~open /\ \A t \in Tool : pc[t] = "idle"
  BY DEF IInv, RoundInv
<1>2. ASSUME NEW t \in Tool
      PROVE  t \notin ran /\ t \notin stored /\ status[t] \in {"queued", "cancelled"}
  BY <1>1 DEF IInv, ToolInv, StatusInv, TokenInv
<1> QED
  BY <1>1, <1>2

LEMMA IdleStep ==
  ASSUME IInv, phase \in {"planning", "approving", "failing"},
         UNCHANGED <<batch, open, pc, token, stored, status, ran, cancellation, steering>>,
         RoundTyped', TasksTyped', ManagerTyped',
         \A t \in Tool : PlanInv(t)', \A r \in Request : RequestInv(r)',
         phase' \in {"planning", "approving", "failing", "executing"},
         phase' = "executing" => toApprove' = {},
         phase' = "planning" =>
           toApprove' = {} /\ \A r \in Request : r \notin pending' /\ audit'[r] = {},
         phase' = "approving" => toApprove' # {},
         phase' = "failing" => errors' # 0
  PROVE  IInv'
<1>1. /\ batch = 0 /\ ~open
      /\ \A t \in Tool : /\ pc[t] = "idle" /\ t \notin ran /\ t \notin stored
                         /\ status[t] \in {"queued", "cancelled"}
  BY BeforeBatches
<1>2. ASSUME NEW t \in Tool PROVE ToolInv(t)'
  BY <1>1 DEF ToolInv, ApprovalInv, TokenInv, StatusInv
<1>3. UserTyped'
  BY DEF IInv, UserTyped, cancellation, steering
<1>4. RoundInv'
  <2>1. \A t \in Tool : BatchOf[t] \in Nat \ {0}
    BY BatchNumbers
  <2>2. \A t \in Tool : ~(BatchOf[t] < batch) /\ BatchOf[t] # batch
    BY <1>1, <2>1
  <2> QED
    BY <1>1, <2>2 DEF RoundInv
<1> QED
  BY <1>2, <1>3, <1>4 DEF IInv

LEMMA PlanToolKeeps ==
  ASSUME NEW t \in Tool, IInv, PlanTool(t)
  PROVE  IInv'
<1>1. /\ phase = "planning" /\ planned' = t
      /\ UNCHANGED <<phase, auto, batch, open, watching, results, manager, cancellation, pc,
                     outcome, token, stored, status, ran, toApprove, steering, errors>>
  BY DEF PlanTool
<1>2. /\ toApprove = {} /\ pc[t] = "idle"
      /\ \A r \in Request : r \notin pending /\ audit[r] = {}
  BY <1>1 DEF IInv, RoundInv
<1>3. RoundTyped' /\ ManagerTyped'
  BY <1>1, RoundAssumption DEF IInv, RoundTyped, ManagerTyped, manager, Tool
<1>4. Needed(t) \in SUBSET Request /\ Needed(t) \subseteq Own(t) /\ Own(t) \subseteq Request
  BY DEF Needed, Own
<1>5. CASE UNCHANGED <<plan, left, waived>>
  <2>1. TasksTyped'
    BY <1>1, <1>5 DEF IInv, TasksTyped
  <2>2. \A u \in Tool : PlanInv(u)'
    BY <1>1, <1>5 DEF IInv, ToolInv, PlanInv, Own, manager
  <2>3. \A r \in Request : RequestInv(r)'
    BY <1>1, <1>5 DEF IInv, RequestInv, manager
  <2> QED
    BY <1>1, <1>2, <1>3, <2>1, <2>2, <2>3, IdleStep DEF manager
<1>6. CASE Draft(t)
  <2>1. /\ plan'[t] \in {"denied", "allowed", "awaiting"}
        /\ plan'[t] = "denied" => left'[t] = {}
        /\ plan'[t] = "allowed" => t \notin Denied /\ left'[t] = {} /\ Own(t) \subseteq waived'
        /\ plan'[t] = "awaiting" => /\ t \notin Denied /\ left'[t] = Needed(t) /\ left'[t] # {}
                                    /\ Own(t) \ left'[t] \subseteq waived'
    BY <1>4, <1>6 DEF Draft, IInv, TasksTyped
  <2>2. TasksTyped'
    <3>1. plan' \in [Tool -> Plan] /\ waived' \subseteq Request
      BY <1>4, <1>6 DEF Draft, IInv, TasksTyped, Plan
    <3>2. left' \in [Tool -> SUBSET Request]
      BY <1>4, <1>6 DEF Draft, IInv, TasksTyped
    <3> QED
      BY <1>1, <3>1, <3>2 DEF IInv, TasksTyped
  <2>3. Others(t)
    <3>1. \A u \in Tool \ {t} : plan'[u] = plan[u] /\ left'[u] = left[u]
      BY <1>6 DEF Draft, IInv, TasksTyped
    <3>2. \A r \in Request : Owner[r] # t => (r \in waived' <=> r \in waived)
      BY <1>6 DEF Draft, Own
    <3> QED
      BY <1>1, <3>1, <3>2 DEF Others, manager
  <2>4. \A u \in Tool \ {t} : ToolInv(u)'
    BY <1>1, <2>3, OthersKept
  <2>5. PlanInv(t)'
    BY <1>1, <1>2, <1>4, <2>1 DEF PlanInv, Own
  <2>6. \A u \in Tool : PlanInv(u)'
    BY <2>4, <2>5 DEF ToolInv
  <2>7. \A r \in Request : RequestInv(r)'
    BY <1>1, <1>2 DEF IInv, RequestInv, manager
  <2> QED
    BY <1>1, <1>2, <1>3, <2>2, <2>6, <2>7, IdleStep DEF manager
<1> QED
  BY <1>5, <1>6 DEF PlanTool

(* No call has plans of another, nor another's requests. *)
LEMMA AllLeftIs ==
  ASSUME IInv
  PROVE  /\ AllLeft \in SUBSET Request
         /\ \A r \in Request : r \in AllLeft <=> r \in left[Owner[r]]
<1>1. left \in [Tool -> SUBSET Request]
  BY DEF IInv, TasksTyped
<1>2. \A t \in Tool : left[t] \subseteq Own(t)
  BY DEF IInv, ToolInv, PlanInv
<1>3. \A r \in Request : Owner[r] \in Tool
  BY RoundAssumption
<1> QED
  BY <1>1, <1>2, <1>3 DEF AllLeft, Own

LEMMA RegisterPlansKeeps ==
  ASSUME IInv, RegisterPlans
  PROVE  IInv'
<1>1. /\ phase = "planning" /\ RegisterBatch(AllLeft)
      /\ toApprove' = IF auto THEN AllLeft ELSE {}
      /\ phase' = IF auto /\ AllLeft # {} THEN "approving" ELSE "executing"
      /\ UNCHANGED <<auto, planned, batch, open, watching, results, cancellation, plan, left,
                     waived, pc, outcome, token, stored, status, ran, steering>>
  BY DEF RegisterPlans
<1>2. /\ \A t \in Tool : pc[t] = "idle"
      /\ \A r \in Request : r \notin pending /\ audit[r] = {}
  BY <1>1 DEF IInv, RoundInv
<1>3. AllLeft \in SUBSET Request /\ \A r \in Request : r \in AllLeft <=> r \in left[Owner[r]]
  BY AllLeftIs
<1> HIDE DEF AllLeft
<1>4. /\ ManagerTyped' /\ errors' = errors
      /\ \A r \in Request : /\ r \in pending' <=> r \in pending \/ r \in AllLeft
                            /\ answer'[r] = answer[r]
                            /\ audit'[r] = IF r \in AllLeft THEN audit[r] \cup {"requested"}
                                                            ELSE audit[r]
  BY <1>1, <1>3, RegisterBatchDoes
<1>5. TasksTyped'
  BY <1>1, <1>3 DEF IInv, TasksTyped
<1>6. RoundTyped'
  BY <1>1 DEF IInv, RoundTyped, Phase
<1>7. ASSUME NEW t \in Tool PROVE PlanInv(t)'
  <2>1. plan[t] = "none" => \A r \in Own(t) : r \notin AllLeft
    BY <1>2, <1>3 DEF IInv, ToolInv, PlanInv, Own
  <2>2. PlanInv(t)
    BY DEF IInv, ToolInv
  <2>3. plan[t] = "none" => \A r \in Own(t) : r \notin pending' /\ audit'[r] = {}
    BY <1>2, <1>4, <2>1 DEF Own
  <2> QED
    BY <1>1, <1>2, <2>2, <2>3 DEF PlanInv, Own
<1>8. ASSUME NEW r \in Request PROVE RequestInv(r)'
  <2>1. answer[r] = "none"
    BY <1>2 DEF IInv, RequestInv, ManagerTyped, Answer
  <2>2. \/ r \in AllLeft /\ r \in pending' /\ audit'[r] = {"requested"} /\ answer'[r] = "none"
        \/ r \notin AllLeft /\ r \notin pending' /\ audit'[r] = {} /\ answer'[r] = "none"
    BY <1>2, <1>4, <2>1
  <2> QED
    BY <1>1, <1>3, <2>2 DEF RequestInv
<1>9. /\ phase' \in {"approving", "executing"}
      /\ phase' = "executing" => toApprove' = {}
      /\ phase' = "approving" => toApprove' # {}
  BY <1>1
<1> QED
  BY <1>1, <1>4, <1>5, <1>6, <1>7, <1>8, <1>9, IdleStep

(* A round that gives up leaves its calls where they are. *)
LEMMA GiveUpKeeps ==
  ASSUME IInv, phase \in {"planning", "failing"}, GiveUp, UNCHANGED <<cancellation, steering>>,
         ManagerTyped', errors' # 0, UNCHANGED <<pending, answer>>,
         \A r \in Request : \/ audit'[r] = audit[r]
                            \/ r \notin pending /\ audit'[r] = audit[r] \cup {"requested"}
  PROVE  IInv'
<1>1. /\ batch = 0 /\ ~open
      /\ \A t \in Tool : /\ pc[t] = "idle" /\ t \notin ran /\ t \notin stored
                         /\ status[t] \in {"queued", "cancelled"}
  BY BeforeBatches
<1>2. /\ phase' = "over" /\ toApprove' = {}
      /\ UNCHANGED <<auto, planned, batch, open, watching, waived, token, stored, status, ran>>
      /\ \A t \in Tool : /\ pc'[t] = "done" /\ outcome'[t] = "error"
                         /\ plan'[t] = "none" /\ left'[t] = {}
  BY DEF GiveUp
<1>3. TasksTyped' /\ RoundTyped'
  BY DEF GiveUp, IInv, TasksTyped, RoundTyped, Place, Outcome, Plan, Phase
<1>4. UserTyped'
  BY DEF IInv, UserTyped, cancellation, steering
<1>5. RoundInv'
  BY <1>1, <1>2 DEF RoundInv
<1>6. ASSUME NEW t \in Tool PROVE ToolInv(t)'
  BY <1>1, <1>2 DEF ToolInv, PlanInv, ApprovalInv, TokenInv, StatusInv
<1>7. ASSUME NEW r \in Request PROVE RequestInv(r)'
  BY <1>2 DEF IInv, RequestInv
<1> QED
  BY <1>3, <1>4, <1>5, <1>6, <1>7 DEF IInv

LEMMA RoundGivesUp ==
  ASSUME IInv, PlanFails \/ RegisterPlansFails \/ FailPlans
  PROVE  IInv'
<1>1. CASE PlanFails
  <2>1. ManagerTyped' /\ errors' # 0
    BY <1>1 DEF PlanFails, IInv, ManagerTyped, manager, StoreFails
  <2> QED
    BY <1>1, <2>1, GiveUpKeeps DEF PlanFails, manager
<1>2. CASE RegisterPlansFails
  <2>1. AllLeft \in SUBSET Request
    BY AllLeftIs
  <2>2. /\ ManagerTyped' /\ errors' # 0 /\ UNCHANGED <<pending, answer>>
        /\ \A r \in Request :
             audit'[r] = audit[r] \/ (r \in AllLeft /\ audit'[r] = audit[r] \cup {"requested"})
    BY <1>2, <2>1, RegisterBatchFailsDoes DEF RegisterPlansFails
  <2>3. \A r \in Request : r \notin pending
    BY <1>2 DEF RegisterPlansFails, IInv, RoundInv
  <2> QED
    BY <1>2, <2>2, <2>3, GiveUpKeeps DEF RegisterPlansFails
<1>3. CASE FailPlans
  <2>1. ManagerTyped' /\ errors' # 0
    BY <1>3 DEF FailPlans, IInv, ManagerTyped, manager, RoundInv
  <2> QED
    BY <1>3, <2>1, GiveUpKeeps DEF FailPlans, manager
<1> QED
  BY <1>1, <1>2, <1>3

LEMMA ApprovePlansKeeps ==
  ASSUME IInv, ApprovePlans
  PROVE  IInv'
<1> DEFINE m == Min(toApprove)
<1>1. /\ phase = "approving" /\ toApprove # {}
      /\ ResolveAll({m}, "once")
      /\ toApprove' = toApprove \ {m}
      /\ phase' = IF toApprove' = {} THEN "executing" ELSE phase
      /\ UNCHANGED <<auto, planned, batch, open, watching, results, cancellation, plan, left,
                     waived, pc, outcome, token, stored, status, ran, steering, errors>>
  BY DEF ApprovePlans
<1>2. m \in toApprove /\ m \in Request
  BY <1>1, MinIsMember DEF IInv, TasksTyped
<1> HIDE DEF m
<1>3. m \in pending /\ audit[m] = {"requested"}
  BY <1>1, <1>2 DEF IInv, RequestInv
<1>4. {m} \in SUBSET Request
  BY <1>2
<1>5. /\ ManagerTyped'
      /\ \A r \in Request :
           /\ r \in pending' <=> r \in pending /\ r \notin {m}
           /\ answer'[r] = IF r \in {m} THEN "once" ELSE answer[r]
           /\ audit'[r] = IF r \in {m} THEN audit[r] \cup {"replied"} ELSE audit[r]
  BY <1>1, <1>4, ResolveAllDoes
<1>6. TasksTyped' /\ RoundTyped'
  BY <1>1 DEF IInv, TasksTyped, RoundTyped, Phase
<1>7. ASSUME NEW t \in Tool PROVE PlanInv(t)'
  BY <1>1, <1>3, <1>5 DEF IInv, ToolInv, PlanInv, Own
<1>8. ASSUME NEW r \in Request PROVE RequestInv(r)'
  <2>1. CASE r = m
    <3>1. /\ m \notin pending' /\ answer'[m] = "once" /\ m \notin toApprove'
          /\ audit'[m] = {"requested", "replied"}
      BY <1>1, <1>2, <1>3, <1>5
    <3> QED
      BY <2>1, <3>1 DEF RequestInv
  <2>2. CASE r # m
    <3>1. /\ r \in pending' <=> r \in pending
          /\ answer'[r] = answer[r] /\ audit'[r] = audit[r]
          /\ r \in toApprove' => r \in toApprove
      BY <1>1, <1>5, <2>2
    <3> QED
      BY <1>1, <3>1 DEF IInv, RequestInv
  <2> QED
    BY <2>1, <2>2
<1> QED
  BY <1>1, <1>5, <1>6, <1>7, <1>8, IdleStep

LEMMA ApprovePlansFailsKeeps ==
  ASSUME IInv, ApprovePlansFails
  PROVE  IInv'
<1>1. /\ phase = "approving" /\ StoreFails /\ phase' = "failing" /\ toApprove' = AllLeft
      /\ UNCHANGED <<auto, planned, batch, open, watching, results, manager, cancellation, plan,
                     left, waived, pc, outcome, token, stored, status, ran, steering>>
  BY DEF ApprovePlansFails
<1>2. auto
  <2>1. PICK r \in toApprove : TRUE
    BY <1>1 DEF IInv, RoundInv
  <2> QED
    BY <2>1 DEF IInv, RequestInv, TasksTyped
<1>3. ManagerTyped' /\ errors' # 0
  BY <1>1 DEF IInv, ManagerTyped, manager, StoreFails
<1>4. AllLeft \in SUBSET Request
  BY AllLeftIs
<1>5. TasksTyped' /\ RoundTyped'
  BY <1>1, <1>4 DEF IInv, TasksTyped, RoundTyped, Phase
<1>6. ASSUME NEW t \in Tool PROVE PlanInv(t)'
  BY <1>1 DEF IInv, ToolInv, PlanInv, Own, manager
<1>7. ASSUME NEW r \in Request PROVE RequestInv(r)'
  BY <1>1, <1>2, <1>3 DEF IInv, RequestInv, manager
<1> QED
  BY <1>1, <1>3, <1>5, <1>6, <1>7, IdleStep

LEMMA WithdrawPlansKeeps ==
  ASSUME IInv, WithdrawPlans
  PROVE  IInv'
<1> DEFINE m == Min(toApprove)
<1>1. /\ phase = "failing" /\ toApprove # {} /\ CancelRequest(m)
      /\ toApprove' = toApprove \ {m}
      /\ UNCHANGED <<round, cancellation, plan, left, waived, pc, outcome, token, stored,
                     status, ran, steering>>
  BY DEF WithdrawPlans
<1>2. m \in toApprove /\ m \in Request
  BY <1>1, MinIsMember DEF IInv, TasksTyped
<1> HIDE DEF m
<1>3. /\ ManagerTyped' /\ (errors' = 0 => errors = 0)
      /\ \A q \in Request : q # m => /\ q \in pending' <=> q \in pending
                                     /\ answer'[q] = answer[q] /\ audit'[q] = audit[q]
      /\ \/ /\ answer'[m] = answer[m] /\ audit'[m] = audit[m]
            /\ m \in pending' <=> m \in pending
            /\ m \in pending' => errors' # 0
         \/ /\ m \in pending /\ m \notin pending' /\ answer'[m] = "cancelled"
            /\ audit'[m] = audit[m] \cup {"cancelled"}
  BY <1>1, <1>2, CancelRequestDoes
<1>4. errors' # 0
  BY <1>1, <1>3 DEF IInv, RoundInv
<1>5. TasksTyped' /\ RoundTyped'
  BY <1>1 DEF IInv, TasksTyped, RoundTyped, Phase, round
<1>6. ASSUME NEW t \in Tool PROVE PlanInv(t)'
  <2>1. ASSUME NEW r \in Own(t), r \notin pending /\ audit[r] = {}
        PROVE  r \notin pending' /\ audit'[r] = {}
    BY <1>3, <2>1 DEF Own
  <2> QED
    BY <1>1, <2>1 DEF IInv, ToolInv, PlanInv, Own
<1>7. ASSUME NEW r \in Request PROVE RequestInv(r)'
  <2>1. RequestInv(r) /\ r \in toApprove' => r \in toApprove
    BY <1>1 DEF IInv
  <2>2. CASE r # m
    BY <1>1, <1>3, <1>4, <2>1, <2>2 DEF IInv, RequestInv, round
  <2>3. CASE r = m
    BY <1>1, <1>3, <1>4, <2>1, <2>3 DEF IInv, RequestInv, round
  <2> QED
    BY <2>2, <2>3
<1>8. phase' = "failing"
  BY <1>1 DEF round
<1> QED
  BY <1>1, <1>3, <1>4, <1>5, <1>6, <1>7, <1>8, IdleStep DEF round

--------------------------------------------------------------------------------
(* Steps of the batches: calls begin, are dropped or are left as they are. *)
Untouched(t) ==
  /\ pc'[t] = pc[t] /\ outcome'[t] = outcome[t] /\ status'[t] = status[t]

Called(t) ==
  /\ pc[t] = "idle" /\ pc'[t] = "called"
  /\ outcome'[t] = outcome[t] /\ status'[t] = status[t]

Dropped(t) ==
  /\ pc[t] = "idle" /\ pc'[t] = "done"
  /\ outcome'[t] = "steered" /\ status'[t] = "cancelled"

LEMMA BatchStep ==
  ASSUME IInv, phase = "executing", phase' \in {"executing", "cleanup"},
         UNCHANGED <<manager, plan, left, waived, token, stored, ran, toApprove, steering,
                     errors, auto>>,
         \A t \in Tool : Untouched(t) \/ Called(t) \/ Dropped(t),
         RoundTyped', TasksTyped', UserTyped', RoundInv'
  PROVE  IInv'
<1>1. ManagerTyped'
  BY DEF IInv, ManagerTyped, manager
<1>2. ASSUME NEW t \in Tool PROVE ToolInv(t)'
  <2>1. PlanInv(t)'
    BY DEF IInv, ToolInv, PlanInv, Own, manager, Untouched, Called, Dropped
  <2>2. ApprovalInv(t)'
    <3>1. \A r \in Own(t) : Approved(r)' <=> Approved(r)
      BY DEF Approved, manager
    <3>2. Own(t)' = Own(t) /\ (Authorized(t) => Authorized(t)')
      BY <3>1 DEF Own, Authorized
    <3>3. ApprovalInv(t)
      BY DEF IInv, ToolInv
    <3> QED
      BY <3>1, <3>2, <3>3 DEF ApprovalInv, Untouched, Called, Dropped
  <2>3. TokenInv(t)'
    BY DEF IInv, ToolInv, TokenInv, Untouched, Called, Dropped
  <2>4. StatusInv(t)'
    BY DEF IInv, ToolInv, StatusInv, Untouched, Called, Dropped
  <2> QED
    BY <2>1, <2>2, <2>3, <2>4 DEF ToolInv
<1>3. ASSUME NEW r \in Request PROVE RequestInv(r)'
  BY DEF IInv, RequestInv, manager
<1> QED
  BY <1>1, <1>2, <1>3 DEF IInv

LEMMA StartBatchKeeps ==
  ASSUME IInv, StartBatch
  PROVE  IInv'
<1>1. /\ phase = "executing" /\ ~open /\ batch' = batch + 1 /\ open' = TRUE /\ watching' = TRUE
      /\ pc' = [t \in Tool |-> IF t \in Batch(batch + 1) /\ ~Serial(t) THEN "called" ELSE pc[t]]
      /\ UNCHANGED <<phase, auto, planned, results, manager, cancellation, plan, left, waived,
                     outcome, token, stored, status, ran, toApprove, steering, errors>>
  BY DEF StartBatch
<1>2. batch \in Nat /\ \A t \in Tool : BatchOf[t] \in Nat
  BY BatchNumbers DEF IInv, RoundTyped
<1>3. \A t \in Tool : /\ BatchOf[t] =< batch => pc[t] = "done"
                      /\ BatchOf[t] > batch => pc[t] = "idle"
  BY <1>1, <1>2 DEF IInv, RoundInv
<1>4. \A t \in Tool : \/ pc'[t] = pc[t]
                      \/ BatchOf[t] = batch + 1 /\ pc[t] = "idle" /\ pc'[t] = "called"
  <2>1. \A t \in Tool : t \in Batch(batch + 1) => BatchOf[t] = batch + 1 /\ pc[t] = "idle"
    BY <1>2, <1>3 DEF Batch
  <2> QED
    BY <1>1, <2>1
<1>5. RoundTyped' /\ TasksTyped' /\ UserTyped'
  BY <1>1 DEF IInv, RoundTyped, TasksTyped, UserTyped, Place, cancellation, steering
<1>6. RoundInv'
  <2>1. ASSUME NEW t \in Tool
        PROVE  /\ BatchOf[t] < batch' => pc'[t] = "done"
               /\ BatchOf[t] > batch' => pc'[t] = "idle"
    BY <1>1, <1>2, <1>3, <1>4
  <2> QED
    BY <1>1, <2>1 DEF RoundInv
<1> QED
  BY <1>1, <1>4, <1>5, <1>6, BatchStep DEF Untouched, Called

LEMMA DropRemainingKeeps ==
  ASSUME IInv, DropRemaining
  PROVE  IInv'
<1>1. /\ phase = "executing" /\ ~open /\ phase' = "cleanup"
      /\ Drop(Remaining)
      /\ UNCHANGED <<auto, planned, batch, open, watching, manager, cancellation, plan, left,
                     waived, token, stored, ran, toApprove, steering, errors>>
  BY DEF DropRemaining
<1>2. batch \in Nat /\ \A t \in Tool : BatchOf[t] \in Nat
  BY BatchNumbers DEF IInv, RoundTyped
<1>3. \A t \in Tool : \/ t \notin Remaining /\ pc[t] = "done"
                      \/ t \in Remaining /\ pc[t] = "idle"
  BY <1>1, <1>2 DEF IInv, RoundInv, Remaining
<1>4. RoundTyped' /\ UserTyped'
  BY <1>1 DEF IInv, RoundTyped, UserTyped, Phase, cancellation, steering
<1>5. TasksTyped'
  BY <1>1 DEF IInv, TasksTyped, Drop, Place, Outcome, Status
<1>6. \A t \in Tool : pc'[t] = "done" /\ (Untouched(t) \/ Dropped(t))
  BY <1>1, <1>3 DEF Drop, Untouched, Dropped
<1>7. RoundInv'
  BY <1>1, <1>6 DEF RoundInv
<1> QED
  BY <1>1, <1>4, <1>5, <1>6, <1>7, BatchStep

LEMMA CallSerialKeeps ==
  ASSUME NEW t \in Tool, IInv, CallSerial(t)
  PROVE  IInv'
<1>1. /\ open /\ BatchOf[t] = batch /\ pc[t] = "idle"
      /\ UNCHANGED <<round, manager, cancellation, plan, left, waived, token, stored, ran,
                     toApprove, steering, errors>>
      /\ \/ pc' = [pc EXCEPT ![t] = "called"] /\ UNCHANGED <<outcome, status>>
         \/ Drop({t})
  BY DEF CallSerial, Batch
<1>2. phase = "executing"
  BY <1>1 DEF IInv, RoundInv, RoundTyped, Phase
<1>3. \A u \in Tool : /\ Untouched(u) \/ Called(u) \/ Dropped(u)
                      /\ u # t => Untouched(u)
  BY <1>1 DEF Drop, Untouched, Called, Dropped, IInv, TasksTyped
<1>4. RoundTyped' /\ UserTyped'
  BY <1>1 DEF IInv, RoundTyped, UserTyped, cancellation, steering, round
<1>5. TasksTyped'
  BY <1>1 DEF IInv, TasksTyped, Drop, Place, Outcome, Status
<1>6. RoundInv'
  <2>1. batch \in Nat
    BY DEF IInv, RoundTyped
  <2>2. ASSUME NEW u \in Tool, BatchOf[u] < batch \/ BatchOf[u] > batch PROVE pc'[u] = pc[u]
    <3>1. u # t
      BY <1>1, <2>1, <2>2
    <3> QED
      BY <1>3, <3>1 DEF Untouched
  <2> QED
    BY <1>1, <1>2, <2>2 DEF IInv, RoundInv, round
<1>7. phase' = "executing" /\ UNCHANGED auto
  BY <1>1, <1>2 DEF round
<1> QED
  BY <1>1, <1>2, <1>3, <1>4, <1>5, <1>6, <1>7, BatchStep

LEMMA EndBatchKeeps ==
  ASSUME IInv, EndBatch
  PROVE  IInv'
<1>1. /\ open /\ (\A t \in Batch(batch) : pc[t] = "done")
      /\ open' = FALSE /\ watching' = FALSE
      /\ sweep' = [sweep EXCEPT !["watch"] = {}]
      /\ phase' = IF Remaining = {} THEN "cleanup" ELSE phase
      /\ UNCHANGED <<auto, planned, batch, manager, marking, cancels, tasks, steering, errors>>
  BY DEF EndBatch
<1>2. phase = "executing"
  BY <1>1 DEF IInv, RoundInv, RoundTyped, Phase
<1>3. batch \in Nat /\ \A t \in Tool : BatchOf[t] \in Nat
  BY BatchNumbers DEF IInv, RoundTyped
<1>4. \A t \in Tool : /\ BatchOf[t] =< batch => pc[t] = "done"
                      /\ BatchOf[t] > batch => pc[t] = "idle"
  BY <1>1, <1>2, <1>3 DEF IInv, RoundInv, Batch
<1>5. Remaining = {} => \A t \in Tool : pc[t] = "done"
  BY <1>3, <1>4 DEF Remaining
<1>6. RoundTyped' /\ TasksTyped'
  BY <1>1 DEF IInv, RoundTyped, TasksTyped, Phase, tasks
<1>7. UserTyped'
  BY <1>1 DEF IInv, UserTyped, steering, Canceller
<1>8. RoundInv'
  BY <1>1, <1>2, <1>3, <1>4, <1>5 DEF RoundInv, tasks
<1> QED
  BY <1>1, <1>2, <1>6, <1>7, <1>8, BatchStep DEF Untouched, tasks

LEMMA CloseRoundKeeps ==
  ASSUME IInv, CloseRound
  PROVE  IInv'
<1>1. /\ phase = "cleanup" /\ phase' = "over" /\ (\A t \in Tool : plan[t] = "none")
      /\ UNCHANGED <<auto, planned, batch, open, watching, results, manager, cancellation, tasks,
                     steering, errors>>
  BY DEF CloseRound
<1>2. RoundTyped' /\ TasksTyped' /\ ManagerTyped' /\ UserTyped'
  BY <1>1 DEF IInv, RoundTyped, TasksTyped, ManagerTyped, UserTyped, Phase, tasks, manager,
              steering, cancellation
<1>3. RoundInv'
  BY <1>1 DEF IInv, RoundInv, tasks
<1>4. ASSUME NEW t \in Tool PROVE ToolInv(t)'
  <2>1. ToolInv(t) /\ UNCHANGED <<plan, left, waived, pc, outcome, token, stored, status, ran,
                                  toApprove, pending, answer, audit>>
    BY <1>1 DEF IInv, tasks, manager
  <2> QED
    BY <1>1, <2>1 DEF ToolInv, PlanInv, ApprovalInv, TokenInv, StatusInv, Authorized, Approved, Own
<1>5. ASSUME NEW r \in Request PROVE RequestInv(r)'
  BY <1>1 DEF IInv, RequestInv, tasks, manager
<1> QED
  BY <1>2, <1>3, <1>4, <1>5 DEF IInv

LEMMA CleanUpKeeps ==
  ASSUME NEW t \in Tool, IInv, CleanUp(t)
  PROVE  IInv'
<1> DEFINE m == Min(left[t])
<1>1. /\ phase = "cleanup" /\ plan[t] # "none"
      /\ UNCHANGED <<round, cancellation, waived, pc, outcome, token, stored, status, ran,
                     toApprove, steering>>
  BY DEF CleanUp
<1>2. /\ \A u \in Tool : pc[u] = "done"
      /\ toApprove \cap Own(t) = {}
      /\ left[t] \in SUBSET Request /\ left[t] \subseteq Own(t)
  BY <1>1 DEF IInv, RoundInv, ToolInv, ApprovalInv, PlanInv, TasksTyped
<1>3. RoundTyped' /\ UserTyped' /\ RoundInv'
  BY <1>1 DEF IInv, RoundTyped, UserTyped, RoundInv, round, cancellation, steering
<1>4. CASE left[t] = {}
  <2>1. plan' = [plan EXCEPT ![t] = "none"] /\ UNCHANGED <<manager, errors, left>>
    BY <1>4 DEF CleanUp
  <2>2. TasksTyped' /\ ManagerTyped'
    BY <1>1, <2>1 DEF IInv, TasksTyped, ManagerTyped, Plan, manager
  <2>3. Others(t) /\ plan'[t] = "none"
    BY <1>1, <2>1 DEF Others, IInv, TasksTyped, manager
  <2>4. PlanInv(t)'
    BY <1>1, <1>2, <1>4, <2>1, <2>3 DEF PlanInv, Own
  <2>5. ApprovalInv(t)' /\ TokenInv(t)' /\ StatusInv(t)'
    BY <1>1, <1>2, <2>1 DEF IInv, ToolInv, ApprovalInv, TokenInv, StatusInv, Authorized,
                            Approved, Own, manager
  <2>6. \A u \in Tool : ToolInv(u)'
    BY <1>1, <2>1, <2>3, <2>4, <2>5, OthersKept DEF ToolInv, round
  <2>7. \A r \in Request : RequestInv(r)'
    BY <1>1, <2>1 DEF IInv, RequestInv, manager, round
  <2> QED
    BY <1>3, <2>2, <2>6, <2>7 DEF IInv
<1>5. CASE left[t] # {}
  <2>1. /\ CancelRequest(m) /\ left' = [left EXCEPT ![t] = @ \ {m}] /\ UNCHANGED plan
    BY <1>5 DEF CleanUp
  <2>2. m \in left[t] /\ m \in Request /\ m \in Own(t) /\ Owner[m] = t
    BY <1>2, <1>5, MinIsMember DEF Own
  <2> HIDE DEF m
  <2>3. /\ ManagerTyped' /\ (errors' = 0 => errors = 0)
        /\ \A q \in Request : q # m => /\ q \in pending' <=> q \in pending
                                       /\ answer'[q] = answer[q] /\ audit'[q] = audit[q]
        /\ \/ /\ answer'[m] = answer[m] /\ audit'[m] = audit[m]
              /\ m \in pending' <=> m \in pending
              /\ m \in pending' => errors' # 0
           \/ /\ m \in pending /\ m \notin pending' /\ answer'[m] = "cancelled"
              /\ audit'[m] = audit[m] \cup {"cancelled"}
    BY <2>1, <2>2, CancelRequestDoes
  <2>4. left'[t] = left[t] \ {m} /\ \A u \in Tool \ {t} : left'[u] = left[u]
    BY <2>1 DEF IInv, TasksTyped
  <2>5. TasksTyped'
    BY <1>1, <1>2, <2>1 DEF IInv, TasksTyped
  <2>6. Others(t)
    <3>1. \A r \in Request : Owner[r] # t => r # m
      BY <2>2
    <3> QED
      BY <1>1, <2>1, <2>3, <2>4, <3>1 DEF Others
  <2>7. PlanInv(t)'
    BY <1>1, <1>2, <1>5, <2>1, <2>4 DEF IInv, ToolInv, PlanInv, Own
  <2>8. ApprovalInv(t)'
    <3>1. \A r \in Own(t) : Approved(r) => Approved(r)'
      <4>1. ASSUME m \in pending PROVE answer[m] = "none"
        BY <2>2, <4>1 DEF IInv, RequestInv
      <4>2. ASSUME NEW r \in Own(t), Approved(r) PROVE Approved(r)'
        BY <1>1, <2>3, <4>1, <4>2 DEF Approved, Own
      <4> QED
        BY <4>2
    <3> QED
      BY <1>1, <1>2, <3>1 DEF IInv, ToolInv, ApprovalInv, Authorized, Own
  <2>9. TokenInv(t)' /\ StatusInv(t)'
    BY <1>1 DEF IInv, ToolInv, TokenInv, StatusInv
  <2>10. \A u \in Tool : ToolInv(u)'
    BY <1>1, <2>3, <2>6, <2>7, <2>8, <2>9, OthersKept DEF ToolInv, round
  <2>11. ASSUME NEW r \in Own(t) PROVE RequestInv(r)'
    <3>1. r \in Request /\ RequestInv(r) /\ Owner[r] = t /\ r \notin toApprove
      BY <1>2 DEF Own, IInv
    <3>2. CASE r # m
      BY <1>1, <2>3, <2>4, <3>1, <3>2 DEF RequestInv
    <3>3. CASE r = m
      BY <1>1, <2>3, <3>1, <3>3 DEF RequestInv
    <3> QED
      BY <3>2, <3>3
  <2>12. \A r \in Request : RequestInv(r)'
    BY <1>1, <2>3, <2>6, <2>11, OthersKept DEF round, Own
  <2> QED
    BY <1>3, <2>3, <2>5, <2>10, <2>12 DEF IInv
<1> QED
  BY <1>4, <1>5

--------------------------------------------------------------------------------
(* The user's answers, and steps that leave plans and requests alone. *)
LEMMA ReplyKeeps ==
  ASSUME NEW r \in Request, NEW k \in {"once", "always", "reject"}, NEW f \in BOOLEAN, IInv,
         Reply(r, k, f)
  PROVE  IInv'
<1> DEFINE R == IF f THEN {q \in pending : Owner[q] >= Owner[r]} ELSE {r}
<1>1. /\ ~auto /\ r \in pending /\ ResolveAll(R, k)
      /\ UNCHANGED <<round, cancellation, tasks, steering, errors>>
  BY DEF Reply
<1>2. R \in SUBSET Request /\ R \subseteq pending
  BY <1>1 DEF IInv, ManagerTyped
<1> HIDE DEF R
<1>3. /\ ManagerTyped'
      /\ \A q \in Request : /\ q \in pending' <=> q \in pending /\ q \notin R
                            /\ answer'[q] = IF q \in R THEN k ELSE answer[q]
                            /\ audit'[q] = IF q \in R THEN audit[q] \cup {"replied"}
                                                      ELSE audit[q]
  BY <1>1, <1>2, ResolveAllDoes
<1>4. \A q \in R : audit[q] = {"requested"} /\ answer[q] = "none" /\ q \in Request
  BY <1>2 DEF IInv, RequestInv
<1>5. RoundTyped' /\ TasksTyped' /\ UserTyped'
  BY <1>1 DEF IInv, RoundTyped, TasksTyped, UserTyped, round, tasks, cancellation, steering
<1>6. RoundInv'
  <2>1. phase = "planning" => \A q \in Request : q \notin pending' /\ audit'[q] = {}
    BY <1>2, <1>3 DEF IInv, RoundInv
  <2> QED
    BY <1>1, <2>1 DEF IInv, RoundInv, round, tasks
<1>7. ASSUME NEW t \in Tool PROVE ToolInv(t)'
  <2>1. ASSUME NEW q \in Own(t)
        PROVE  /\ (q \notin pending /\ audit[q] = {} => q \notin pending' /\ audit'[q] = {})
               /\ (Approved(q) => Approved(q)')
    <3>1. q \in Request /\ waived' = waived
      BY <1>1 DEF Own, tasks
    <3>2. q \in R => q \in pending /\ answer[q] = "none"
      BY <1>2, <1>4
    <3> QED
      BY <1>3, <3>1, <3>2 DEF Approved
  <2>2. ToolInv(t) /\ UNCHANGED <<phase, plan, left, pc, outcome, token, stored, status, ran,
                                  toApprove>>
    BY <1>1 DEF IInv, round, tasks
  <2>3. PlanInv(t)'
    <3>1. PlanInv(t) /\ waived' = waived
      BY <1>1, <2>2 DEF ToolInv, tasks
    <3> QED
      BY <2>1, <2>2, <3>1 DEF PlanInv, Own
  <2>4. ApprovalInv(t)'
    <3>1. Own(t)' = Own(t) /\ (Authorized(t) => Authorized(t)')
      BY <2>1 DEF Own, Authorized
    <3> QED
      BY <2>1, <2>2, <3>1 DEF ToolInv, ApprovalInv
  <2> QED
    BY <2>2, <2>3, <2>4 DEF ToolInv, TokenInv, StatusInv
<1>8. ASSUME NEW q \in Request PROVE RequestInv(q)'
  <2>1. RequestInv(q) /\ q \notin toApprove
    BY <1>1 DEF IInv, RequestInv
  <2>2. CASE q \in R
    <3>1. q \notin pending' /\ answer'[q] = k /\ audit'[q] = {"requested", "replied"}
      BY <1>3, <1>4, <2>2
    <3> QED
      BY <1>1, <2>1, <3>1 DEF RequestInv, tasks
  <2>3. CASE q \notin R
    BY <1>1, <1>3, <2>1, <2>3 DEF RequestInv, tasks
  <2> QED
    BY <2>2, <2>3
<1> QED
  BY <1>3, <1>5, <1>6, <1>7, <1>8 DEF IInv

LEMMA AsideStep ==
  ASSUME IInv,
         UNCHANGED <<phase, auto, batch, open, plan, left, waived, pc, outcome, ran, toApprove,
                     pending, answer, audit>>,
         errors' = 0 => errors = 0,
         RoundTyped', TasksTyped', ManagerTyped', UserTyped',
         \A t \in Tool : TokenInv(t)' /\ StatusInv(t)'
  PROVE  IInv'
<1>1. RoundInv'
  BY DEF IInv, RoundInv
<1>2. ASSUME NEW t \in Tool PROVE ToolInv(t)'
  <2>1. ToolInv(t) /\ TokenInv(t)' /\ StatusInv(t)'
    BY DEF IInv
  <2>2. PlanInv(t)'
    BY <2>1 DEF ToolInv, PlanInv, Own
  <2>3. ApprovalInv(t)'
    BY <2>1 DEF ToolInv, ApprovalInv, Authorized, Approved, Own
  <2> QED
    BY <2>1, <2>2, <2>3 DEF ToolInv
<1>3. ASSUME NEW r \in Request PROVE RequestInv(r)'
  BY DEF IInv, RequestInv
<1> QED
  BY <1>1, <1>2, <1>3 DEF IInv

LEMMA UserKeeps ==
  ASSUME IInv,
         \/ \E r \in Request : ReplyFails(r)
         \/ \E x \in Resources : RemoveGrant(x)
         \/ CancelTurn
         \/ \E t \in Tool : CancelTool(t)
         \/ WatchFires
         \/ \E p \in Preemption : Steer(p)
         \/ UNCHANGED vars
  PROVE  IInv'
<1>1. /\ UNCHANGED <<phase, auto, planned, batch, open, tasks, pending, answer, audit>>
      /\ watching' \in BOOLEAN /\ grants' \subseteq grants /\ errors' \in {errors, errors + 1}
  BY DEF IInv, RoundTyped, ReplyFails, StoreFails, RemoveGrant, CancelTurn, CancelTool,
         WatchFires, Steer, vars, round, manager, tasks
<1>2. UserTyped'
  <2>1. CASE \E r \in Request : ReplyFails(r)
    BY <2>1 DEF ReplyFails, IInv, UserTyped, cancellation, steering
  <2>2. CASE \E x \in Resources : RemoveGrant(x)
    BY <2>2 DEF RemoveGrant, IInv, UserTyped, steering
  <2>3. CASE CancelTurn
    BY <2>3 DEF CancelTurn, IInv, UserTyped, steering, Canceller
  <2>4. CASE \E t \in Tool : CancelTool(t)
    BY <2>4 DEF CancelTool, IInv, UserTyped, steering, Canceller
  <2>5. CASE WatchFires
    BY <2>5 DEF WatchFires, IInv, UserTyped, steering, Canceller, Batch
  <2>6. CASE \E p \in Preemption : Steer(p)
    BY <2>6 DEF Steer, IInv, UserTyped, cancellation
  <2>7. CASE UNCHANGED vars
    BY <2>7 DEF vars, IInv, UserTyped, cancellation, steering
  <2> QED
    BY <2>1, <2>2, <2>3, <2>4, <2>5, <2>6, <2>7
<1>3. RoundTyped' /\ TasksTyped' /\ ManagerTyped'
  BY <1>1 DEF IInv, RoundTyped, TasksTyped, ManagerTyped, tasks
<1>4. errors' = 0 => errors = 0
  BY <1>1 DEF IInv, ManagerTyped
<1>5. \A t \in Tool : TokenInv(t)' /\ StatusInv(t)'
  BY <1>1 DEF IInv, ToolInv, TokenInv, StatusInv, tasks
<1> QED
  BY <1>1, <1>2, <1>3, <1>4, <1>5, AsideStep DEF tasks

LEMMA SignalKeeps ==
  ASSUME NEW c \in Canceller, NEW t \in Tool, IInv, Signal(c, t)
  PROVE  IInv'
<1>1. /\ sweep' = [sweep EXCEPT ![c] = @ \ {t}]
      /\ \/ UNCHANGED <<marking, token, stored>>
         \/ /\ token' = IF t \in stored THEN [token EXCEPT ![t] = "fired"] ELSE token
            /\ stored' = stored \ {t} /\ marking' = [marking EXCEPT ![c] = {t}]
      /\ UNCHANGED <<round, manager, cancels, plan, left, waived, pc, outcome, status, ran,
                     toApprove, steering, errors>>
  BY DEF Signal
<1>2. RoundTyped' /\ ManagerTyped'
  BY <1>1 DEF IInv, RoundTyped, ManagerTyped, round, manager
<1>3. TasksTyped'
  <2>1. token' \in [Tool -> Token] /\ stored' \subseteq Tool
    BY <1>1 DEF IInv, TasksTyped, Token
  <2> QED
    BY <1>1, <2>1 DEF IInv, TasksTyped
<1>4. UserTyped'
  <2>1. sweep' \in [Canceller -> SUBSET Tool] /\ marking' \in [Canceller -> SUBSET Tool]
    BY <1>1 DEF IInv, UserTyped
  <2> QED
    BY <1>1, <2>1 DEF IInv, UserTyped, steering
<1>5. \A u \in Tool : u \in stored' => u \in stored /\ token'[u] = token[u]
  BY <1>1 DEF IInv, TasksTyped
<1>6. \A u \in Tool : TokenInv(u)' /\ StatusInv(u)'
  BY <1>1, <1>5 DEF IInv, ToolInv, TokenInv, StatusInv
<1> QED
  BY <1>1, <1>2, <1>3, <1>4, <1>6, AsideStep DEF round, manager

LEMMA MarkKeeps ==
  ASSUME NEW c \in Canceller, NEW t \in Tool, IInv, Mark(c, t)
  PROVE  IInv'
<1>1. /\ status' = [status EXCEPT ![t] = "cancelled"]
      /\ marking' = [marking EXCEPT ![c] = {}]
      /\ UNCHANGED <<round, manager, sweep, cancels, plan, left, waived, pc, outcome, token,
                     stored, ran, toApprove, steering, errors>>
  BY DEF Mark
<1>2. RoundTyped' /\ ManagerTyped'
  BY <1>1 DEF IInv, RoundTyped, ManagerTyped, round, manager
<1>3. TasksTyped' /\ UserTyped'
  BY <1>1 DEF IInv, TasksTyped, UserTyped, Status, steering
<1>4. \A u \in Tool : status'[u] = status[u] \/ status'[u] = "cancelled"
  BY <1>1 DEF IInv, TasksTyped
<1>5. \A u \in Tool : TokenInv(u)' /\ StatusInv(u)'
  BY <1>1, <1>4 DEF IInv, ToolInv, TokenInv, StatusInv
<1> QED
  BY <1>1, <1>2, <1>3, <1>5, AsideStep DEF round, manager

--------------------------------------------------------------------------------
LEMMA StepKeeps == IInv /\ [Next]_vars => IInv'
<1> SUFFICES ASSUME IInv, [Next]_vars PROVE IInv'
  OBVIOUS
<1>1. CASE Planning
  BY <1>1, PlanToolKeeps, RegisterPlansKeeps, ApprovePlansKeeps, WithdrawPlansKeeps,
     RoundGivesUp DEF Planning
<1>2. ASSUME NEW t \in Tool, Execution(t) PROVE IInv'
  BY <1>2, CallSerialKeeps, BeginKeeps, DraftLateKeeps, ApproveLateKeeps, AwaitReplyKeeps,
     WithdrawKeeps, RefuseKeeps, CheckTokenKeeps, CallKeeps, ReturnKeeps, SettleKeeps,
     CleanUpKeeps DEF Execution
<1>3. CASE Batches
  BY <1>3, StartBatchKeeps, DropRemainingKeeps, EndBatchKeeps, CloseRoundKeeps DEF Batches
<1>4. CASE Cancelling
  BY <1>4, SignalKeeps, MarkKeeps DEF Cancelling
<1>5. CASE User
  BY <1>5, ReplyKeeps, UserKeeps DEF User
<1>6. CASE Failures
  BY <1>6, RoundGivesUp, ApprovePlansFailsKeeps, IntentsFailKeeps, DraftLateFailsKeeps,
     ApproveLateFailsKeeps, UserKeeps DEF Failures
<1>7. CASE WatchFires \/ UNCHANGED vars
  BY <1>7, UserKeeps
<1> QED
  BY <1>1, <1>2, <1>3, <1>4, <1>5, <1>6, <1>7 DEF Next

(* The plans, approvals, tokens and states of every round of any size are as
   the invariant says, from the planning to the cleanup, whatever the user and
   the permission store do: execute_tools and execute_single_tool. *)
THEOREM RoundInvariant == Spec => []IInv
<1>1. Init => IInv
  BY InitEstablishes
<1>2. IInv /\ [Next]_vars => IInv'
  BY StepKeeps
<1> QED
  BY <1>1, <1>2, PTL DEF Spec

(* Every variable of the round keeps its type. *)
THEOREM RoundTypeOK == Spec => []TypeOK
<1>1. IInv => TypeOK
  BY DEF IInv, TypeOK, RoundTyped, TasksTyped, ManagerTyped, UserTyped
<1> QED
  BY <1>1, RoundInvariant, PTL

(* execute_single_tool calls a tool only when every request of its call is
   approved or was granted, and never against the policy. *)
THEOREM ToolsRunAuthorized == Spec => []RunsAuthorized
<1>1. IInv => RunsAuthorized
  <2> SUFFICES ASSUME IInv, NEW t \in ran
               PROVE  t \notin Denied /\ \A r \in Own(t) : Approved(r)
    BY DEF RunsAuthorized, Approved
  <2> QED
    BY DEF IInv, TasksTyped, ToolInv, ApprovalInv, Authorized
<1> QED
  BY <1>1, RoundInvariant, PTL

(* cleanup_permission_plans leaves no request of a finished round open. *)
THEOREM RequestsAreWithdrawn == Spec => []NothingLeftPending
<1>1. IInv => NothingLeftPending
  <2> SUFFICES ASSUME IInv, phase = "over", errors = 0, NEW r \in pending
               PROVE  FALSE
    BY DEF NothingLeftPending
  <2>1. r \in Request /\ Owner[r] \in Tool
    BY RoundAssumption DEF IInv, ManagerTyped
  <2>2. plan[Owner[r]] = "none" /\ pc[Owner[r]] = "done"
    BY <2>1 DEF IInv, RoundInv
  <2>3. left[Owner[r]] = {}
    BY <2>1, <2>2 DEF IInv, ToolInv, PlanInv
  <2>4. r \in left[Owner[r]]
    BY <2>1 DEF IInv, RequestInv
  <2> QED
    BY <2>3, <2>4
<1> QED
  BY <1>1, RoundInvariant, PTL

(* The token store holds only live tokens of calls that execute, except those
   of calls whose intents could not be derived. *)
THEOREM TokensAreReleased == Spec => []TokensReleased
<1>1. IInv => TokensReleased
  BY DEF IInv, TasksTyped, ToolInv, TokenInv, TokensReleased
<1> QED
  BY <1>1, RoundInvariant, PTL

(* partition_tool_batches gives a call that is not concurrency safe a batch of
   its own, and batches execute one after the other. *)
THEOREM SerialCallsAreAlone == Spec => []SerialAlone
<1>1. IInv => SerialAlone
  <2> SUFFICES ASSUME IInv, NEW t \in Tool, NEW u \in Tool, Serial(t),
                      pc[t] \notin {"idle", "done"}, u # t
               PROVE  pc[u] = IF u < t THEN "done" ELSE "idle"
    BY DEF SerialAlone
  <2>1. phase = "executing" /\ BatchOf[t] = batch
    BY Executing
  <2>2. t \in Nat /\ u \in Nat
    BY RoundAssumption DEF Tool
  <2>3. CASE u < t
    BY <2>1, <2>3, BatchBoundary DEF IInv, RoundInv
  <2>4. CASE t < u
    <3>1. BatchOf[t] < BatchOf[u] /\ BatchOf[t] \in Nat /\ BatchOf[u] \in Nat
      BY <2>4, BatchBoundary, BatchNumbers
    <3> QED
      BY <2>1, <2>2, <2>4, <3>1 DEF IInv, RoundInv
  <2> QED
    BY <2>2, <2>3, <2>4
<1> QED
  BY <1>1, RoundInvariant, PTL

(* The state a task ends in tells the result its call returns. *)
THEOREM StatusesTellOutcomes == Spec => []StatusTellsOutcome
<1>1. IInv => StatusTellsOutcome
  BY DEF IInv, ToolInv, StatusInv, StatusTellsOutcome
<1> QED
  BY <1>1, RoundInvariant, PTL

(* A request leaves the pending requests once, with one answer and one closing
   record: reply_from and cancel_request. *)
THEOREM RequestsCloseOnce == Spec => []ClosedOnce
<1>1. IInv => ClosedOnce
  BY DEF IInv, RequestInv, ClosedOnce
<1> QED
  BY <1>1, RoundInvariant, PTL

--------------------------------------------------------------------------------
(* Results come in the order of the calls.  Only the calls of batches that are
   over have one, and a part of the calls that is closed downwards is an
   interval. *)
Collected ==
  IF phase \in {"cleanup", "over"} THEN Tool
  ELSE {t \in Tool : BatchOf[t] < batch \/ (BatchOf[t] = batch /\ ~open)}

Numbered(n) == [i \in 1..n |-> i]

ResultsInv == \E n \in 0..Count : results = Numbered(n) /\ Collected = 1..n

LEMMA ClosedDownwards ==
  ASSUME NEW D \in SUBSET Tool, \A t \in D, u \in Tool : u < t => u \in D
  PROVE  \E n \in 0..Count : D = 1..n
<1>0. Count \in Nat /\ Tool = 1..Count
  BY RoundAssumption DEF Tool
<1>1. CASE D = Tool
  <2>1. Count \in 0..Count /\ D = 1..Count
    BY <1>0, <1>1
  <2> QED
    BY <2>1
<1>2. CASE D # Tool
  <2>1. Tool \ D \in SUBSET Nat /\ Tool \ D # {}
    <3>1. PICK t \in Tool : t \notin D
      BY <1>2
    <3> QED
      BY <1>0, <3>1
  <2>2. PICK x \in Tool \ D : \A y \in Tool \ D : x =< y
    BY <2>1, LeastNumber
  <2>3. x - 1 \in 0..Count
    BY <1>0, <2>2
  <2>4. ASSUME NEW t \in D PROVE t \in 1..(x - 1)
    <3>1. t \in Nat /\ x \in Nat /\ 1 =< t /\ ~(x < t) /\ t # x
      BY <1>0, <2>2
    <3> QED
      BY <3>1
  <2>5. ASSUME NEW t \in 1..(x - 1) PROVE t \in D
    BY <1>0, <2>2
  <2>6. D = 1..(x - 1)
    BY <2>4, <2>5
  <2> QED
    BY <2>3, <2>6
<1> QED
  BY <1>1, <1>2

LEMMA BatchesInOrder ==
  ASSUME NEW t \in Tool, NEW u \in Tool, u < t
  PROVE  BatchOf[u] =< BatchOf[t]
<1> DEFINE S(v) == {x \in 1..v : ~JoinsLast(x)}
<1>1. t \in Nat /\ u \in Nat
  BY RoundAssumption DEF Tool
<1>2. IsFiniteSet(S(t))
  <2>1. IsFiniteSet(1..t)
    BY <1>1, FS_Interval
  <2> QED
    BY <2>1, FS_Subset
<1>3. S(u) \subseteq S(t)
  BY <1>1
<1> HIDE DEF S
<1>4. Cardinality(S(u)) =< Cardinality(S(t))
  BY <1>2, <1>3, FS_Subset
<1> QED
  BY <1>4 DEF BatchOf, S

(* The calls after the first a, as far as b, have the numbers a + 1 to b. *)
LEMMA SortedInterval ==
  ASSUME NEW a \in Nat, NEW b \in Nat, a =< b
  PROVE  Sorted((a + 1)..b) = [i \in 1..(b - a) |-> a + i]
<1> DEFINE S == (a + 1)..b
           n == b - a
           Good(s) == \A i, j \in 1..n : i < j => s[i] < s[j]
           e == [i \in 1..n |-> a + i]
<1>1. Cardinality(S) = n
  <2>1. Cardinality(S) = IF a + 1 > b THEN 0 ELSE b - (a + 1) + 1
    BY FS_Interval
  <2> QED
    BY <2>1
<1>2. e \in [1..n -> S] /\ Good(e)
  OBVIOUS
<1> DEFINE c == CHOOSE s \in [1..n -> S] : Good(s)
<1>3. Sorted(S) = c
  BY <1>1 DEF Sorted
<1>4. c \in [1..n -> S] /\ Good(c)
  BY <1>2
<1> HIDE DEF c
<1>5. ASSUME NEW i \in 1..n PROVE c[i] >= a + i
  <2> DEFINE B == {k \in 1..n : c[k] < a + k}
  <2> SUFFICES ASSUME B # {} PROVE FALSE
    BY <1>4
  <2>0. B \in SUBSET Nat
    OBVIOUS
  <2> HIDE DEF B
  <2>1. PICK k \in B : \A y \in B : k =< y
    BY <2>0, LeastNumber
  <2> USE DEF B
  <2>2. k \in 1..n /\ c[k] < a + k /\ c[k] \in S
    BY <1>4
  <2>3. k > 1
    BY <2>2
  <2>4. k - 1 \in 1..n /\ k - 1 \notin B
    <3>1. k \in Nat /\ ~(k =< k - 1)
      BY <2>2
    <3> QED
      BY <2>1, <2>2, <2>3, <3>1
  <2>5. c[k - 1] >= a + (k - 1) /\ c[k - 1] < c[k] /\ c[k - 1] \in S
    BY <1>4, <2>2, <2>4
  <2> QED
    BY <2>2, <2>5
<1>6. ASSUME NEW i \in 1..n PROVE c[i] =< a + i
  <2> DEFINE B == {k \in 0..(n - 1) : c[n - k] > a + (n - k)}
  <2> SUFFICES ASSUME B # {} PROVE FALSE
    <3>1. n - i \in 0..(n - 1) /\ n - (n - i) = i /\ c[i] \in S
      BY <1>4
    <3>2. ~(c[n - (n - i)] > a + (n - (n - i)))
      BY <3>1
    <3> QED
      BY <3>1, <3>2
  <2>0. B \in SUBSET Nat
    OBVIOUS
  <2> HIDE DEF B
  <2>1. PICK k \in B : \A y \in B : k =< y
    BY <2>0, LeastNumber
  <2> USE DEF B
  <2>2. k \in 0..(n - 1) /\ n - k \in 1..n /\ c[n - k] > a + (n - k) /\ c[n - k] \in S
    BY <1>4
  <2>3. k > 0
    BY <2>2
  <2>4. k - 1 \in 0..(n - 1) /\ k - 1 \notin B /\ n - (k - 1) \in 1..n
    BY <2>1, <2>2, <2>3
  <2>5. /\ c[n - (k - 1)] =< a + (n - (k - 1)) /\ c[n - k] < c[n - (k - 1)]
        /\ c[n - (k - 1)] \in S
    BY <1>4, <2>2, <2>4
  <2> QED
    BY <2>2, <2>5
<1>7. ASSUME NEW i \in 1..n PROVE c[i] = a + i
  <2>1. c[i] \in S
    BY <1>4
  <2> QED
    BY <1>5, <1>6, <2>1
<1>8. c = e
  BY <1>4, <1>7
<1> QED
  BY <1>3, <1>8

LEMMA NumberedGrows ==
  ASSUME NEW a \in Nat, NEW b \in Nat, a =< b
  PROVE  Numbered(a) \o Sorted((a + 1)..b) = Numbered(b)
<1>1. Numbered(a) \o [i \in 1..(b - a) |-> a + i] = Numbered(b)
  BY DEF Numbered
<1> QED
  BY <1>1, SortedInterval

(* Steps that collect the calls of D which have no result yet, and steps that
   collect none. *)
LEMMA ResultsGrow ==
  ASSUME ResultsInv, NEW D \in SUBSET Tool, \A t \in D, u \in Tool : u < t => u \in D,
         Collected \subseteq D, results' = results \o Sorted(D \ Collected), Collected' = D
  PROVE  ResultsInv'
<1>1. PICK n \in 0..Count : results = Numbered(n) /\ Collected = 1..n
  BY DEF ResultsInv
<1>2. PICK m \in 0..Count : D = 1..m
  BY ClosedDownwards
<1>3. n \in Nat /\ m \in Nat /\ n =< m
  <2>1. n \in Nat /\ m \in Nat
    BY <1>1, <1>2, RoundAssumption
  <2>2. 1..n \subseteq 1..m
    BY <1>1, <1>2
  <2>3. n # 0 => n \in 1..n
    BY <2>1
  <2> QED
    BY <2>1, <2>2, <2>3
<1>4. D \ Collected = (n + 1)..m
  BY <1>1, <1>2, <1>3
<1>5. results' = Numbered(m)
  BY <1>1, <1>3, <1>4, NumberedGrows
<1> QED
  BY <1>2, <1>5 DEF ResultsInv, Numbered

LEMMA ResultsStay ==
  ASSUME ResultsInv, UNCHANGED results, Collected' = Collected
  PROVE  ResultsInv'
  BY DEF ResultsInv, Numbered

LEMMA EndBatchCollects ==
  ASSUME IInv, ResultsInv, EndBatch
  PROVE  ResultsInv'
<1> DEFINE D == {t \in Tool : BatchOf[t] =< batch}
<1>1. /\ open /\ open' = FALSE /\ UNCHANGED batch
      /\ results' = results \o Sorted(Batch(batch))
      /\ phase' = IF Remaining = {} THEN "cleanup" ELSE phase
  BY DEF EndBatch
<1>2. phase = "executing"
  BY <1>1 DEF IInv, RoundInv, RoundTyped, Phase
<1>3. batch \in Nat /\ \A t \in Tool : BatchOf[t] \in Nat
  BY BatchNumbers DEF IInv, RoundTyped
<1>4. ASSUME NEW t \in D, NEW u \in Tool, u < t PROVE u \in D
  BY <1>3, <1>4, BatchesInOrder
<1>5. Collected = {t \in Tool : BatchOf[t] < batch}
  BY <1>1, <1>2 DEF Collected
<1>6. Collected \subseteq D /\ D \ Collected = Batch(batch)
  BY <1>3, <1>5 DEF Batch
<1>7. Collected' = D
  <2>1. CASE Remaining = {}
    <3>1. Collected' = Tool
      BY <1>1, <2>1 DEF Collected
    <3>2. \A t \in Tool : BatchOf[t] =< batch
      BY <1>3, <2>1 DEF Remaining
    <3> QED
      BY <3>1, <3>2
  <2>2. CASE Remaining # {}
    <3>1. Collected' = {t \in Tool : BatchOf[t] < batch \/ BatchOf[t] = batch}
      BY <1>1, <1>2, <2>2 DEF Collected
    <3> QED
      BY <1>3, <3>1
  <2> QED
    BY <2>1, <2>2
<1> HIDE DEF D
<1>8. D \in SUBSET Tool
  BY DEF D
<1> QED
  BY <1>1, <1>4, <1>6, <1>7, <1>8, ResultsGrow

LEMMA DropRemainingCollects ==
  ASSUME IInv, ResultsInv, DropRemaining
  PROVE  ResultsInv'
<1>1. /\ phase = "executing" /\ ~open /\ phase' = "cleanup"
      /\ results' = results \o Sorted(Remaining)
  BY DEF DropRemaining
<1>2. batch \in Nat /\ \A t \in Tool : BatchOf[t] \in Nat
  BY BatchNumbers DEF IInv, RoundTyped
<1>3. Collected \subseteq Tool /\ Tool \ Collected = Remaining
  BY <1>1, <1>2 DEF Collected, Remaining
<1>4. Collected' = Tool
  BY <1>1 DEF Collected
<1> QED
  BY <1>1, <1>3, <1>4, ResultsGrow

LEMMA StartBatchCollects ==
  ASSUME IInv, ResultsInv, StartBatch
  PROVE  ResultsInv'
<1>1. /\ phase = "executing" /\ ~open /\ batch' = batch + 1 /\ open' = TRUE
      /\ UNCHANGED <<phase, results>>
  BY DEF StartBatch
<1>2. batch \in Nat /\ \A t \in Tool : BatchOf[t] \in Nat
  BY BatchNumbers DEF IInv, RoundTyped
<1>3. Collected' = Collected
  <2>1. Collected' = {t \in Tool : BatchOf[t] < batch + 1}
    BY <1>1 DEF Collected
  <2>2. Collected = {t \in Tool : BatchOf[t] < batch \/ BatchOf[t] = batch}
    BY <1>1 DEF Collected
  <2> QED
    BY <1>2, <2>1, <2>2
<1> QED
  BY <1>1, <1>3, ResultsStay

LEMMA GiveUpCollects ==
  ASSUME GiveUp
  PROVE  ResultsInv'
<1>1. results' = Numbered(Count) /\ Collected' = 1..Count
  BY DEF GiveUp, Collected, Numbered, Tool
<1>2. Count \in 0..Count
  BY RoundAssumption
<1> QED
  BY <1>1, <1>2 DEF ResultsInv, Numbered

LEMMA ResultsStep == IInv /\ ResultsInv /\ [Next]_vars => ResultsInv'
<1> SUFFICES ASSUME IInv, ResultsInv, [Next]_vars PROVE ResultsInv'
  OBVIOUS
<1>1. CASE UNCHANGED round
  BY <1>1, ResultsStay DEF round, Collected
<1>2. CASE /\ UNCHANGED <<batch, open, results>>
           /\ phase \in {"planning", "approving"}
           /\ phase' \in {"planning", "approving", "failing", "executing"}
  <2>1. Collected' = Collected
    BY <1>2 DEF Collected
  <2> QED
    BY <1>2, <2>1, ResultsStay
<1>3. CASE Planning
  BY <1>1, <1>2, <1>3, GiveUpCollects DEF Planning, PlanTool, RegisterPlans, ApprovePlans,
     WithdrawPlans, FailPlans
<1>4. ASSUME NEW t \in Tool, Execution(t) PROVE UNCHANGED round
  BY <1>4 DEF Execution, CallSerial, Begin, DraftLate, ApproveLate, AwaitReply, Withdraw, Refuse,
              CheckToken, Call, Return, Settle, CleanUp
<1>5. CASE Batches
  <2>1. CASE CloseRound
    <3>1. Collected' = Collected /\ UNCHANGED results
      BY <2>1 DEF CloseRound, Collected
    <3> QED
      BY <3>1, ResultsStay
  <2> QED
    BY <1>5, <2>1, StartBatchCollects, DropRemainingCollects, EndBatchCollects DEF Batches
<1>6. CASE Cancelling
  BY <1>1, <1>6 DEF Cancelling, Signal, Mark
<1>7. CASE User
  BY <1>1, <1>7 DEF User, Reply, CancelTurn, CancelTool, Steer, RemoveGrant
<1>8. CASE Failures
  BY <1>1, <1>2, <1>8, GiveUpCollects DEF Failures, PlanFails, RegisterPlansFails,
     ApprovePlansFails, IntentsFail, DraftLateFails, FailLate, ApproveLateFails, ReplyFails
<1>9. CASE WatchFires
  <2>1. Collected' = Collected /\ UNCHANGED results
    BY <1>9 DEF WatchFires, Collected
  <2> QED
    BY <2>1, ResultsStay
<1>10. CASE UNCHANGED vars
  BY <1>1, <1>10 DEF vars
<1> QED
  BY <1>1, <1>3, <1>4, <1>5, <1>6, <1>7, <1>8, <1>9, <1>10 DEF Next

LEMMA NothingCollected == Init => ResultsInv
<1> SUFFICES ASSUME Init PROVE ResultsInv
  OBVIOUS
<1>1. Collected = 1..0
  BY BatchNumbers DEF Init, Collected
<1>2. results = Numbered(0)
  BY DEF Init, Numbered
<1>3. 0 \in 0..Count
  BY RoundAssumption
<1> QED
  BY <1>1, <1>2, <1>3 DEF ResultsInv

(* execute_tools collects the results batch by batch: at any time they are those
   of the calls of the batches that are over, in their order. *)
THEOREM ResultsFollowBatches == Spec => []ResultsInv
<1>1. Init => ResultsInv
  BY NothingCollected
<1>2. IInv /\ ResultsInv /\ [Next]_vars => ResultsInv'
  BY ResultsStep
<1> QED
  BY <1>1, <1>2, RoundInvariant, PTL DEF Spec

(* The model gets one result for each call, in the order of the calls, whether
   batches execute, fail, are cancelled or are dropped for a steering message. *)
THEOREM EachCallHasOneResult == Spec => []OneResultEach
<1>1. IInv /\ ResultsInv => OneResultEach
  <2> SUFFICES ASSUME IInv, ResultsInv PROVE OneResultEach
    OBVIOUS
  <2>1. PICK n \in 0..Count : results = Numbered(n) /\ Collected = 1..n
    BY DEF ResultsInv
  <2>2. n \in Nat /\ n =< Count /\ Len(results) = n /\ \A i \in 1..n : results[i] = i
    BY <2>1, RoundAssumption DEF Numbered
  <2>3. ASSUME NEW t \in Collected PROVE pc[t] = "done" /\ outcome[t] # "none"
    <3>1. t \in Tool /\ BatchOf[t] \in Nat \ {0}
      BY BatchNumbers DEF Collected
    <3>2. pc[t] = "done"
      BY <3>1 DEF IInv, RoundInv, RoundTyped, Phase, Collected
    <3> QED
      BY <3>1, <3>2 DEF IInv, ToolInv, StatusInv
  <2>4. ASSUME phase = "over" PROVE n = Count
    <3>1. 1..Count = 1..n
      BY <2>1, <2>4 DEF Collected, Tool
    <3>2. Count \in 1..n
      BY <3>1, RoundAssumption
    <3> QED
      BY <2>2, <3>2
  <2> QED
    BY <2>1, <2>2, <2>3, <2>4 DEF OneResultEach
<1> QED
  BY <1>1, RoundInvariant, ResultsFollowBatches, PTL
================================================================================
