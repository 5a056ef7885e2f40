------------------------------- MODULE ToolRound -------------------------------
(***************************************************************************)
(* The tool calls of one model round: ToolPipeline::execute_tools and       *)
(* execute_single_tool (tool_pipeline.rs), the permission requests they     *)
(* wait for (PermissionRequestManager, permission.rs), the store of         *)
(* cancellation tokens and the batches (tool-execution/pipeline.rs).        *)
(*                                                                         *)
(* Tools are numbered in the order of the calls, requests in the order they *)
(* are registered.  An operation of the manager runs under its lock and is  *)
(* one step; so is what a tool's execution or a cancellation does between   *)
(* two awaits.  The user answers requests, cancels tools or the turn,       *)
(* removes grants and sends steering messages at any time.  allow_parallel  *)
(* FALSE is an empty Safe, and a round never retries a call (max_retries 0, *)
(* round_executor.rs).                                                      *)
(***************************************************************************)
EXTENDS Integers, SequencesExt

CONSTANTS
  Count,      \* number of tool calls of the round
  Safe,       \* calls that are concurrency safe
  Request,    \* the requests the calls may need, as numbers
  Owner,      \* the call each request belongs to
  Resource,   \* what each request asks for, the key of a grant
  Denied,     \* calls the policy denies
  Flaky,      \* calls whose admission or validation may fail
  Streaming,  \* calls of tools that stream their results
  Granted,    \* resources with a project grant at first
  AutoModes,  \* values of the option auto_approve_ask
  MaxTroubles \* bound: interventions of the user and failures of the permission store

Tool == 1..Count
Resources == {Resource[r] : r \in Request}

ASSUME RoundAssumption ==
  /\ Count \in Nat \ {0}
  /\ Safe \subseteq Tool /\ Denied \subseteq Tool
  /\ Flaky \subseteq Tool /\ Streaming \subseteq Tool
  /\ Request \subseteq Nat
  /\ Owner \in [Request -> Tool]
  /\ Granted \subseteq Resources
  /\ AutoModes \subseteq BOOLEAN
  /\ MaxTroubles \in Nat

Phase == {"planning", "approving", "failing", "executing", "cleanup", "over"}
Plan == {"none", "allowed", "denied", "awaiting"}
Place == {"idle", "called", "drafting", "approving", "awaiting", "withdrawing", "allowed",
          "calling", "running", "settling", "done"}
Status == {"queued", "running", "streaming", "completed", "failed", "rejected", "cancelled"}
TerminalStatus == {"completed", "failed", "rejected", "cancelled"}
Answer == {"none", "once", "always", "reject", "cancelled"}
Outcome == {"none", "ok", "error", "unplanned", "timeout", "cancelled", "rejected", "denied", "steered"}
Token == {"none", "live", "fired"}
Preemption == {"none", "after_current", "cancel_running"}
Canceller == {"user", "watch"}

VARIABLES
  phase,   \* progress of execute_tools
  auto,    \* the option auto_approve_ask
  planned, \* the calls whose plan has been drafted are 1..planned
  batch,   \* the batch being or last executed
  open,    \* whether it is being executed
  watching, \* whether its watch still looks for a steering message that cancels
  plan,    \* drafts, then permission_plans
  left,    \* the receivers each call has not awaited yet
  waived,  \* requests not made because a grant covered them when drafted
  pc,      \* progress of execute_single_tool
  outcome, \* what each call's execution results in
  token,   \* each call's cancellation token
  stored,  \* calls whose token is in the store
  status,  \* the state of each task
  ran,     \* calls whose tool has been called
  results, \* the results collected, by call
  pending, \* the manager's pending requests
  answer,  \* what was sent to each request's receiver
  audit,   \* the audit records of each request
  grants,  \* resources with a project grant
  toApprove, \* registered requests still to be approved automatically
  preempt, \* what the waiting steering messages demand
  sweep,   \* calls each cancellation has still to cancel
  marking, \* the call it has signalled and not marked yet, if any
  cancels, \* cancellations and removals of grants by the user so far
  steers,  \* steering messages so far
  errors   \* failures of the permission store so far

round == <<phase, auto, planned, batch, open, watching, results>>
manager == <<pending, answer, audit, grants>>
cancellation == <<sweep, marking, cancels>>
tasks == <<plan, left, waived, pc, outcome, token, stored, status, ran, toApprove>>
steering == <<preempt, steers>>
vars == <<round, manager, cancellation, tasks, steering, errors>>

(* partition_tool_batches: a batch begins with every call that does not join the
   one before it.  The mutant joins every safe call to the batch before it. *)
JoinsAny(t) == t > 1 /\ t \in Safe
JoinsLast(t) == t > 1 /\ t \in Safe /\ t - 1 \in Safe

BatchOf == [t \in Tool |-> Cardinality({u \in 1..t : ~JoinsLast(u)})]

Batch(b) == {t \in Tool : BatchOf[t] = b}
Serial(t) == t \notin Safe

Own(t) == {r \in Request : Owner[r] = t}

Init ==
  /\ phase = "planning" /\ auto \in AutoModes
  /\ planned = 0 /\ batch = 0 /\ open = FALSE /\ watching = FALSE /\ results = <<>>
  /\ plan = [t \in Tool |-> "none"]
  /\ left = [t \in Tool |-> {}]
  /\ waived = {}
  /\ pc = [t \in Tool |-> "idle"]
  /\ outcome = [t \in Tool |-> "none"]
  /\ token = [t \in Tool |-> "none"]
  /\ stored = {}
  /\ status = [t \in Tool |-> "queued"]
  /\ ran = {}
  /\ toApprove = {}
  /\ pending = {} /\ grants = Granted
  /\ answer = [r \in Request |-> "none"]
  /\ audit = [r \in Request |-> {}]
  /\ preempt = "none"
  /\ sweep = [c \in Canceller |-> {}]
  /\ marking = [c \in Canceller |-> {}]
  /\ cancels = 0 /\ errors = 0 /\ steers = 0

StoreFails == cancels + errors + steers < MaxTroubles /\ errors' = errors + 1

--------------------------------------------------------------------------------
(* PermissionRequestManager.  Registering a batch makes all its requests
   pending before any is recorded. *)
RegisterBatch(R) ==
  /\ pending' = pending \cup R
  /\ audit' = [r \in Request |-> IF r \in R THEN audit[r] \cup {"requested"} ELSE audit[r]]
  /\ UNCHANGED <<answer, grants, errors>>

(* A record that cannot be appended withdraws the batch; the records of the
   requests before it stay. *)
RegisterBatchFails(R) ==
  /\ StoreFails
  /\ \E n \in R :
       audit' = [r \in Request |->
                   IF r \in R /\ r < n THEN audit[r] \cup {"requested"} ELSE audit[r]]
  /\ UNCHANGED <<pending, answer, grants>>

(* The requests of R get the reply k. *)
ResolveAll(R, k) ==
  /\ answer' = [r \in Request |-> IF r \in R THEN k ELSE answer[r]]
  /\ audit' = [r \in Request |-> IF r \in R THEN audit[r] \cup {"replied"} ELSE audit[r]]
  /\ grants' = IF k = "always" THEN grants \cup {Resource[r] : r \in R} ELSE grants
  /\ pending' = pending \ R

(* cancel_request: nothing happens to a request that is not pending, or whose
   record cannot be appended. *)
CancelRequest(r) ==
  \/ /\ r \notin pending
     /\ UNCHANGED <<manager, errors>>
  \/ /\ r \in pending
     /\ pending' = pending \ {r}
     /\ answer' = [answer EXCEPT ![r] = "cancelled"]
     /\ audit' = [audit EXCEPT ![r] = @ \cup {"cancelled"}]
     /\ UNCHANGED <<grants, errors>>
  \/ /\ r \in pending /\ StoreFails
     /\ UNCHANGED manager

(* reply_from, called for the user: also resolves the later requests of the
   round when asked to.  Requests of an automatic round are not shown. *)
Reply(r, k, following) ==
  /\ ~auto /\ r \in pending
  /\ ResolveAll(IF following THEN {q \in pending : Owner[q] >= Owner[r]} ELSE {r}, k)
  /\ UNCHANGED <<round, cancellation, tasks, steering, errors>>

ReplyFails(r) ==
  /\ ~auto /\ r \in pending /\ StoreFails
  /\ UNCHANGED <<round, manager, cancellation, tasks, steering>>

(* remove_project_grant *)
RemoveGrant(x) ==
  /\ x \in grants /\ cancels + errors + steers < MaxTroubles
  /\ grants' = grants \ {x}
  /\ cancels' = cancels + 1
  /\ UNCHANGED <<round, tasks, pending, answer, audit, sweep, marking, steering, errors>>

--------------------------------------------------------------------------------
(* draft_permission_plan: the requests call t has to make now. *)
Needed(t) == {r \in Own(t) : Resource[r] \notin grants}

Draft(t) ==
  /\ plan' = [plan EXCEPT ![t] = IF t \in Denied THEN "denied"
                                 ELSE IF Needed(t) = {} THEN "allowed" ELSE "awaiting"]
  /\ left' = [left EXCEPT ![t] = IF t \in Denied THEN {} ELSE Needed(t)]
  /\ waived' = IF t \in Denied THEN waived ELSE waived \cup (Own(t) \ Needed(t))

(* A round that gives up: every call gets an error, its task stays queued. *)
GiveUp ==
  /\ phase' = "over"
  /\ pc' = [t \in Tool |-> "done"]
  /\ outcome' = [t \in Tool |-> "error"]
  /\ results' = [t \in Tool |-> t]
  /\ plan' = [t \in Tool |-> "none"]
  /\ left' = [t \in Tool |-> {}]
  /\ toApprove' = {}
  /\ UNCHANGED <<auto, planned, batch, open, watching, waived, token, stored, status, ran>>

(* prepare_permission_plans, one call at a time; a call that is not admitted
   now gets no plan. *)
PlanTool(t) ==
  /\ phase = "planning" /\ t = planned + 1
  /\ planned' = t
  /\ \/ Draft(t)
     \/ t \in Flaky /\ UNCHANGED <<plan, left, waived>>
  /\ UNCHANGED <<phase, auto, batch, open, watching, results, manager, cancellation, pc, outcome,
                 token, stored, status, ran, toApprove, steering, errors>>

PlanFails ==
  /\ phase = "planning" /\ planned < Count /\ StoreFails
  /\ GiveUp
  /\ UNCHANGED <<manager, cancellation, steering>>

AllLeft == UNION {left[t] : t \in Tool}

RegisterPlans ==
  /\ phase = "planning" /\ planned = Count
  /\ RegisterBatch(AllLeft)
  /\ toApprove' = IF auto THEN AllLeft ELSE {}
  /\ phase' = IF auto /\ AllLeft # {} THEN "approving" ELSE "executing"
  /\ UNCHANGED <<auto, planned, batch, open, watching, results, cancellation, plan, left, waived, pc,
                 outcome, token, stored, status, ran, steering>>

RegisterPlansFails ==
  /\ phase = "planning" /\ planned = Count
  /\ RegisterBatchFails(AllLeft)
  /\ GiveUp
  /\ UNCHANGED <<cancellation, steering>>

(* register_permission_requests with auto_approve: the round's requests are
   approved one by one, all before the execution begins. *)
ApprovePlans ==
  /\ phase = "approving" /\ toApprove # {}
  /\ ResolveAll({Min(toApprove)}, "once")
  /\ toApprove' = toApprove \ {Min(toApprove)}
  /\ phase' = IF toApprove' = {} THEN "executing" ELSE phase
  /\ UNCHANGED <<auto, planned, batch, open, watching, results, cancellation, plan, left, waived, pc,
                 outcome, token, stored, status, ran, steering, errors>>

ApprovePlansFails ==
  /\ phase = "approving" /\ StoreFails
  /\ phase' = "failing"
  /\ toApprove' = AllLeft
  /\ UNCHANGED <<auto, planned, batch, open, watching, results, manager, cancellation, plan, left,
                 waived, pc, outcome, token, stored, status, ran, steering>>

WithdrawPlans ==
  /\ phase = "failing" /\ toApprove # {}
  /\ CancelRequest(Min(toApprove))
  /\ toApprove' = toApprove \ {Min(toApprove)}
  /\ UNCHANGED <<round, cancellation, plan, left, waived, pc, outcome, token, stored,
                 status, ran, steering>>

FailPlans ==
  /\ phase = "failing" /\ toApprove = {}
  /\ GiveUp
  /\ UNCHANGED <<manager, cancellation, steering, errors>>

--------------------------------------------------------------------------------
(* execute_tools: before each batch the rest of the round is dropped when a
   steering message waits.  A batch of safe calls executes all of them at
   once; a serial call looks for a steering message again. *)
Remaining == {t \in Tool : BatchOf[t] > batch}

(* The mutant does not mark the calls. *)
DropQuietly(S) ==
  /\ outcome' = [t \in Tool |-> IF t \in S THEN "steered" ELSE outcome[t]]
  /\ pc' = [t \in Tool |-> IF t \in S THEN "done" ELSE pc[t]]
  /\ UNCHANGED status

Drop(S) ==
  /\ status' = [t \in Tool |-> IF t \in S THEN "cancelled" ELSE status[t]]
  /\ outcome' = [t \in Tool |-> IF t \in S THEN "steered" ELSE outcome[t]]
  /\ pc' = [t \in Tool |-> IF t \in S THEN "done" ELSE pc[t]]

(* The calls of S in their order, the order in which their results are
   collected. *)
Sorted(S) ==
  CHOOSE s \in [1..Cardinality(S) -> S] :
    \A i, j \in 1..Cardinality(S) : i < j => s[i] < s[j]

StartBatch ==
  /\ phase = "executing" /\ ~open /\ Remaining # {} /\ preempt = "none"
  /\ batch' = batch + 1 /\ open' = TRUE /\ watching' = TRUE
  /\ pc' = [t \in Tool |-> IF t \in Batch(batch + 1) /\ ~Serial(t) THEN "called" ELSE pc[t]]
  /\ UNCHANGED <<phase, auto, planned, results, manager, cancellation, plan, left, waived,
                 outcome, token, stored, status, ran, toApprove, steering, errors>>

(* The mutant drops the next batch only. *)
DropBatch ==
  /\ phase = "executing" /\ ~open /\ Remaining # {} /\ preempt # "none"
  /\ Drop(Batch(batch + 1))
  /\ results' = results \o Sorted(Batch(batch + 1))
  /\ phase' = "cleanup"
  /\ UNCHANGED <<auto, planned, batch, open, watching, manager, cancellation, plan, left, waived,
                 token, stored, ran, toApprove, steering, errors>>

DropRemaining ==
  /\ phase = "executing" /\ ~open /\ Remaining # {} /\ preempt # "none"
  /\ Drop(Remaining)
  /\ results' = results \o Sorted(Remaining)
  /\ phase' = "cleanup"
  /\ UNCHANGED <<auto, planned, batch, open, watching, manager, cancellation, plan, left, waived,
                 token, stored, ran, toApprove, steering, errors>>

CallSerial(t) ==
  /\ open /\ t \in Batch(batch) /\ Serial(t) /\ pc[t] = "idle"
  /\ \/ /\ preempt = "none"
        /\ pc' = [pc EXCEPT ![t] = "called"]
        /\ UNCHANGED <<outcome, status>>
     \/ /\ preempt # "none"
        /\ Drop({t})
  /\ UNCHANGED <<round, manager, cancellation, plan, left, waived, token, stored, ran,
                 toApprove, steering, errors>>

(* The watch is aborted, which waits for the step it is in. *)
EndBatch ==
  /\ open /\ \A t \in Batch(batch) : pc[t] = "done"
  /\ marking["watch"] = {}
  /\ open' = FALSE /\ watching' = FALSE
  /\ sweep' = [sweep EXCEPT !["watch"] = {}]
  /\ results' = results \o Sorted(Batch(batch))
  /\ phase' = IF Remaining = {} THEN "cleanup" ELSE phase
  /\ UNCHANGED <<auto, planned, batch, manager, marking, cancels, tasks, steering, errors>>

(* cleanup_permission_plans *)
CleanUp(t) ==
  /\ phase = "cleanup" /\ plan[t] # "none"
  /\ \A u \in Tool : u < t => plan[u] = "none"
  /\ IF left[t] = {}
       THEN /\ plan' = [plan EXCEPT ![t] = "none"]
            /\ UNCHANGED <<manager, errors, left>>
       ELSE /\ CancelRequest(Min(left[t]))
            /\ left' = [left EXCEPT ![t] = @ \ {Min(left[t])}]
            /\ UNCHANGED plan
  /\ UNCHANGED <<round, cancellation, waived, pc, outcome, token, stored, status, ran,
                 toApprove, steering>>

(* The round forgets the plans it has not used. *)
ForgetPlans ==
  /\ phase = "cleanup"
  /\ phase' = "over"
  /\ UNCHANGED <<auto, planned, batch, open, watching, results, manager, cancellation, tasks, steering,
                 errors>>

CloseRound ==
  /\ phase = "cleanup" /\ \A t \in Tool : plan[t] = "none"
  /\ phase' = "over"
  /\ UNCHANGED <<auto, planned, batch, open, watching, results, manager, cancellation, tasks, steering,
                 errors>>

--------------------------------------------------------------------------------
(* execute_single_tool.  A call that is invalid by now fails and leaves its
   plan behind, one whose tool is not registered any more leaves its task queued
   too; otherwise its token is stored, and its plan taken if it has one. *)
Begin(t) ==
  /\ pc[t] = "called"
  /\ \/ /\ t \in Flaky
        /\ pc' = [pc EXCEPT ![t] = "done"]
        /\ outcome' = [outcome EXCEPT ![t] = "error"]
        /\ status' = [status EXCEPT ![t] = "failed"] \/ UNCHANGED status
        /\ UNCHANGED <<plan, token, stored>>
     \/ /\ token' = [token EXCEPT ![t] = "live"]
        /\ stored' = stored \cup {t}
        /\ plan' = [plan EXCEPT ![t] = "none"]
        /\ pc' = [pc EXCEPT ![t] = CASE plan[t] = "none" -> "drafting"
                                     [] plan[t] = "allowed" -> "allowed"
                                     [] plan[t] = "denied" -> "withdrawing"
                                     [] plan[t] = "awaiting" -> "awaiting"]
        /\ outcome' = IF plan[t] = "denied" THEN [outcome EXCEPT ![t] = "denied"] ELSE outcome
        /\ UNCHANGED status
  /\ UNCHANGED <<round, manager, cancellation, left, waived, ran, toApprove, steering, errors>>

(* authorize_permission_intents, for a call without a plan.  When the intents
   cannot be derived the call returns with its token still in the store. *)
DraftLate(t) ==
  /\ pc[t] = "drafting"
  /\ IF t \in Denied
       THEN /\ outcome' = [outcome EXCEPT ![t] = "denied"]
            /\ pc' = [pc EXCEPT ![t] = "withdrawing"]
            /\ UNCHANGED <<left, waived, manager, errors, toApprove>>
       ELSE /\ RegisterBatch(Needed(t))
            /\ left' = [left EXCEPT ![t] = Needed(t)]
            /\ waived' = waived \cup (Own(t) \ Needed(t))
            /\ toApprove' = IF auto THEN toApprove \cup Needed(t) ELSE toApprove
            /\ pc' = [pc EXCEPT ![t] = IF Needed(t) = {} THEN "allowed"
                                       ELSE IF auto THEN "approving" ELSE "awaiting"]
            /\ UNCHANGED outcome
  /\ UNCHANGED <<round, cancellation, plan, token, stored, status, ran, steering>>

IntentsFail(t) ==
  /\ pc[t] = "drafting" /\ t \in Flaky
  /\ pc' = [pc EXCEPT ![t] = "done"]
  /\ outcome' = [outcome EXCEPT ![t] = "unplanned"]
  /\ UNCHANGED <<round, manager, cancellation, plan, left, waived, token, stored, status,
                 ran, toApprove, steering, errors>>

(* The mutant waits for requests that are not there. *)
AwaitLate(t) ==
  /\ pc' = [pc EXCEPT ![t] = "awaiting"]
  /\ left' = [left EXCEPT ![t] = Needed(t)]
  /\ UNCHANGED <<round, cancellation, plan, waived, outcome, token, stored, status, ran, steering>>

FailLate(t) ==
  /\ pc' = [pc EXCEPT ![t] = "done"]
  /\ outcome' = [outcome EXCEPT ![t] = "error"]
  /\ stored' = stored \ {t}
  /\ UNCHANGED <<round, cancellation, plan, left, waived, token, status, ran, steering>>

DraftLateFails(t) ==
  /\ pc[t] = "drafting" /\ t \notin Denied /\ Needed(t) # {}
  /\ RegisterBatchFails(Needed(t))
  /\ FailLate(t)
  /\ UNCHANGED toApprove

ApproveLate(t) ==
  LET mine == toApprove \cap Own(t)
  IN /\ pc[t] = "approving"
     /\ ResolveAll({Min(mine)}, "once")
     /\ toApprove' = toApprove \ {Min(mine)}
     /\ pc' = IF mine = {Min(mine)} THEN [pc EXCEPT ![t] = "awaiting"] ELSE pc
     /\ UNCHANGED <<round, cancellation, plan, left, waived, outcome, token, stored, status,
                    ran, steering, errors>>

(* The requests not approved are withdrawn; the call ends with an error and
   its state as it was. *)
ApproveLateFails(t) ==
  /\ pc[t] = "approving" /\ StoreFails
  /\ pc' = [pc EXCEPT ![t] = "withdrawing"]
  /\ outcome' = [outcome EXCEPT ![t] = "error"]
  /\ toApprove' = toApprove \ Own(t)
  /\ UNCHANGED <<round, manager, cancellation, plan, left, waived, token, stored, status,
                 ran, steering>>

--------------------------------------------------------------------------------
(* await_permission_execution_plan: the replies are received in order; the
   token is looked at after each, and while there is none. *)
Deny(t, why) ==
  /\ pc' = [pc EXCEPT ![t] = "withdrawing"]
  /\ outcome' = [outcome EXCEPT ![t] = why]

(* A reply to the request r at the head.  The mutant runs the tool on the
   first approval. *)
ReceiveFirst(t, r) ==
  /\ left' = [left EXCEPT ![t] = @ \ {r}]
  /\ CASE answer[r] = "reject" -> Deny(t, "rejected")
       [] answer[r] = "cancelled" -> Deny(t, "cancelled")
       [] answer[r] \in {"once", "always"} ->
            /\ pc' = [pc EXCEPT ![t] = "allowed"]
            /\ UNCHANGED outcome

ReceiveReply(t, r) ==
  /\ left' = [left EXCEPT ![t] = @ \ {r}]
  /\ IF answer[r] = "reject" THEN Deny(t, "rejected")
     ELSE IF answer[r] = "cancelled" \/ token[t] = "fired" THEN Deny(t, "cancelled")
     ELSE /\ pc' = IF left'[t] = {} THEN [pc EXCEPT ![t] = "allowed"] ELSE pc
          /\ UNCHANGED outcome

AwaitReply(t) ==
  /\ pc[t] = "awaiting"
  /\ \/ answer[Min(left[t])] # "none" /\ ReceiveReply(t, Min(left[t]))
     \/ token[t] = "fired" /\ Deny(t, "cancelled") /\ UNCHANGED left
  /\ UNCHANGED <<round, manager, cancellation, plan, waived, token, stored, status, ran,
                 toApprove, steering, errors>>

(* cancel_permission_request_ids: failures are only logged. *)
Withdraw(t) ==
  /\ pc[t] = "withdrawing" /\ left[t] # {}
  /\ CancelRequest(Min(left[t]))
  /\ left' = [left EXCEPT ![t] = @ \ {Min(left[t])}]
  /\ UNCHANGED <<round, cancellation, plan, waived, pc, outcome, token, stored, status, ran,
                 toApprove, steering>>

(* A rejected call is marked so, a cancelled one keeps its state. *)
Refuse(t) ==
  /\ pc[t] = "withdrawing" /\ left[t] = {}
  /\ pc' = [pc EXCEPT ![t] = "done"]
  /\ stored' = stored \ {t}
  /\ status' = IF outcome[t] \in {"rejected", "denied"} THEN [status EXCEPT ![t] = "rejected"]
               ELSE status
  /\ UNCHANGED <<round, manager, cancellation, plan, left, waived, outcome, token, ran,
                 toApprove, steering, errors>>

(* There is no await between this look at the token and the new state. *)
CheckToken(t) ==
  /\ pc[t] = "allowed"
  /\ IF token[t] = "fired"
       THEN /\ status' = [status EXCEPT ![t] = "cancelled"]
            /\ outcome' = [outcome EXCEPT ![t] = "cancelled"]
            /\ stored' = stored \ {t}
            /\ pc' = [pc EXCEPT ![t] = "done"]
       ELSE /\ status' = [status EXCEPT ![t] = IF t \in Streaming THEN "streaming" ELSE "running"]
            /\ pc' = [pc EXCEPT ![t] = "calling"]
            /\ UNCHANGED <<outcome, stored>>
  /\ UNCHANGED <<round, manager, cancellation, plan, left, waived, token, ran, toApprove,
                 steering, errors>>

(* execute_with_retry, execute_tool_impl: the token is looked at once more
   before the tool is called, and drops the call once it runs. *)
Call(t) ==
  /\ pc[t] = "calling"
  /\ IF token[t] = "fired"
       THEN /\ outcome' = [outcome EXCEPT ![t] = "cancelled"]
            /\ stored' = stored \ {t}
            /\ pc' = [pc EXCEPT ![t] = "settling"]
            /\ UNCHANGED ran
       ELSE /\ ran' = ran \cup {t}
            /\ pc' = [pc EXCEPT ![t] = "running"]
            /\ UNCHANGED <<outcome, stored>>
  /\ UNCHANGED <<round, manager, cancellation, plan, left, waived, token, status, toApprove,
                 steering, errors>>

(* The call returns, times out or is dropped; chunks already received are
   recorded, which makes the task streaming again. *)
Return(t) ==
  /\ pc[t] = "running"
  /\ \E o \in {"ok", "error", "timeout"} \cup IF token[t] = "fired" THEN {"cancelled"} ELSE {} :
       outcome' = [outcome EXCEPT ![t] = o]
  /\ pc' = [pc EXCEPT ![t] = "settling"]
  /\ stored' = stored \ {t}
  /\ status' \in {status} \cup
       IF t \in Streaming /\ outcome'[t] = "ok" THEN {[status EXCEPT ![t] = "streaming"]} ELSE {}
  /\ UNCHANGED <<round, manager, cancellation, plan, left, waived, token, ran, toApprove,
                 steering, errors>>

Settled(o) == CASE o = "ok" -> "completed"
                [] o \in {"cancelled", "timeout"} -> "cancelled"
                [] o = "error" -> "failed"

Settle(t) ==
  /\ pc[t] = "settling"
  /\ status' = [status EXCEPT ![t] = Settled(outcome[t])]
  /\ pc' = [pc EXCEPT ![t] = "done"]
  /\ UNCHANGED <<round, manager, cancellation, plan, left, waived, outcome, token, stored, ran,
                 toApprove, steering, errors>>

--------------------------------------------------------------------------------
(* cancel_dialog_turn_tools cancels the calls that are queued or running when
   it looks, cancel_tool a given call, and the watch of a batch the batch's
   calls.  cancel_tool ignores a terminal state, takes the token out of the
   store and fires it if it is there, and then marks the call. *)
Idle(c) == sweep[c] = {} /\ marking[c] = {}

CancelTurn ==
  /\ phase # "over" /\ Idle("user") /\ cancels + errors + steers < MaxTroubles
  /\ cancels' = cancels + 1
  /\ sweep' = [sweep EXCEPT !["user"] = {t \in Tool : status[t] \in {"queued", "running"}}]
  /\ UNCHANGED <<round, manager, tasks, marking, steering, errors>>

CancelTool(t) ==
  /\ phase # "over" /\ Idle("user") /\ cancels + errors + steers < MaxTroubles
  /\ cancels' = cancels + 1
  /\ sweep' = [sweep EXCEPT !["user"] = {t}]
  /\ UNCHANGED <<round, manager, tasks, marking, steering, errors>>

WatchFires ==
  /\ watching /\ preempt = "cancel_running"
  /\ \E t \in Batch(batch) : pc[t] # "idle"
  /\ watching' = FALSE
  /\ sweep' = [sweep EXCEPT !["watch"] = Batch(batch)]
  /\ UNCHANGED <<phase, auto, planned, batch, open, results, manager, tasks, marking, cancels, steering, errors>>

Signal(c, t) ==
  /\ t \in sweep[c] /\ marking[c] = {}
  /\ sweep' = [sweep EXCEPT ![c] = @ \ {t}]
  /\ IF status[t] \in TerminalStatus
       THEN UNCHANGED <<marking, token, stored>>
       ELSE /\ token' = IF t \in stored THEN [token EXCEPT ![t] = "fired"] ELSE token
            /\ stored' = stored \ {t}
            /\ marking' = [marking EXCEPT ![c] = {t}]
  /\ UNCHANGED <<round, manager, cancels, plan, left, waived, pc, outcome, status, ran,
                 toApprove, steering, errors>>

Mark(c, t) ==
  /\ t \in marking[c]
  /\ status' = [status EXCEPT ![t] = "cancelled"]
  /\ marking' = [marking EXCEPT ![c] = {}]
  /\ UNCHANGED <<round, manager, sweep, cancels, plan, left, waived, pc, outcome, token, stored,
                 ran, toApprove, steering, errors>>

(* A steering message arrives for the running turn. *)
Steer(p) ==
  /\ preempt # "cancel_running" /\ p # "none" /\ p # preempt
  /\ phase # "over" /\ cancels + errors + steers < MaxTroubles
  /\ steers' = steers + 1
  /\ preempt' = p
  /\ UNCHANGED <<round, manager, cancellation, tasks, errors>>

--------------------------------------------------------------------------------
Planning ==
  \/ \E t \in Tool : PlanTool(t)
  \/ RegisterPlans \/ ApprovePlans \/ WithdrawPlans \/ FailPlans

Execution(t) ==
  \/ CallSerial(t) \/ Begin(t) \/ DraftLate(t) \/ ApproveLate(t) \/ AwaitReply(t)
  \/ Withdraw(t) \/ Refuse(t) \/ CheckToken(t) \/ Call(t) \/ Return(t)
  \/ Settle(t) \/ CleanUp(t)

Batches == StartBatch \/ DropRemaining \/ EndBatch \/ CloseRound

Cancelling ==
  \E c \in Canceller, t \in Tool : Signal(c, t) \/ Mark(c, t)

User ==
  \/ \E r \in Request, k \in {"once", "always", "reject"}, f \in BOOLEAN : Reply(r, k, f)
  \/ CancelTurn
  \/ \E t \in Tool : CancelTool(t)
  \/ \E p \in Preemption : Steer(p)
  \/ \E x \in Resources : RemoveGrant(x)

Failures ==
  \/ PlanFails \/ RegisterPlansFails \/ ApprovePlansFails
  \/ \E t \in Tool : IntentsFail(t) \/ DraftLateFails(t) \/ ApproveLateFails(t)
  \/ \E r \in Request : ReplyFails(r)

Next ==
  \/ Planning
  \/ \E t \in Tool : Execution(t)
  \/ Batches
  \/ Cancelling
  \/ WatchFires
  \/ User
  \/ Failures

Spec == Init /\ [][Next]_vars

(* The process keeps polling the round, and a called tool returns: by itself,
   or at the configured timeout.  Nothing is assumed of the user. *)
Round == Planning \/ Batches \/ Cancelling \/ \E t \in Tool : Execution(t)

FairSpec == Spec /\ WF_vars(Round)

--------------------------------------------------------------------------------
(* Every variable has its type; that of results is part of OneResultEach. *)
TypeOK ==
  /\ phase \in Phase /\ auto \in BOOLEAN
  /\ planned \in 0..Count /\ batch \in Nat
  /\ open \in BOOLEAN /\ watching \in BOOLEAN
  /\ plan \in [Tool -> Plan]
  /\ left \in [Tool -> SUBSET Request]
  /\ waived \subseteq Request /\ toApprove \subseteq Request
  /\ pc \in [Tool -> Place]
  /\ outcome \in [Tool -> Outcome]
  /\ token \in [Tool -> Token]
  /\ stored \subseteq Tool /\ ran \subseteq Tool
  /\ status \in [Tool -> Status]
  /\ pending \subseteq Request /\ grants \subseteq Resources
  /\ answer \in [Request -> Answer]
  /\ audit \in [Request -> SUBSET {"requested", "replied", "cancelled"}]
  /\ preempt \in Preemption
  /\ sweep \in [Canceller -> SUBSET Tool]
  /\ marking \in [Canceller -> SUBSET Tool]
  /\ cancels \in Nat /\ errors \in Nat /\ steers \in Nat

(* A tool is called only with the approval of every request of its call, or
   a grant found when the request was drafted, whatever replies, rejections,
   cancellations and failures arrive while it waits; never against the
   policy. *)
RunsAuthorized ==
  \A t \in ran :
    /\ t \notin Denied
    /\ \A r \in Own(t) : r \in waived \/ answer[r] \in {"once", "always"}

(* Every request is closed once: what its receiver gets, the record in the
   audit and its removal from the pending requests go together, for a reply
   that races a cancellation too. *)
ClosedOnce ==
  \A r \in Request :
    /\ r \in pending => audit[r] = {"requested"} /\ answer[r] = "none"
    /\ answer[r] \in {"once", "always", "reject"} <=> "replied" \in audit[r]
    /\ answer[r] = "cancelled" <=> "cancelled" \in audit[r]

(* After the round no request of it is shown to the user any more, unless the
   permission store failed: those of calls that failed before they used their
   plan, or were dropped, are withdrawn. *)
NothingLeftPending == phase = "over" /\ errors = 0 => pending = {}

(* A token in the store belongs to a call that is executing, and was not
   fired; only a call whose intents could not be derived leaves its token. *)
TokensReleased ==
  \A t \in stored :
    /\ token[t] = "live"
    /\ pc[t] \notin {"idle", "called", "settling", "done"} \/ outcome[t] = "unplanned"

(* A call that is not concurrency safe executes alone: the calls before it
   are over, those after it have not begun. *)
SerialAlone ==
  \A t, u \in Tool :
    Serial(t) /\ pc[t] \notin {"idle", "done"} /\ u # t =>
      pc[u] = IF u < t THEN "done" ELSE "idle"

(* The model gets one result per call, in the order of the calls, also when a
   batch fails, is cancelled or is dropped for a steering message. *)
OneResultEach ==
  /\ Len(results) <= Count
  /\ \A i \in 1..Len(results) : results[i] = i /\ pc[i] = "done" /\ outcome[i] # "none"
  /\ phase = "over" => Len(results) = Count

(* What the task of a returned call shows agrees with the call's result,
   except that a cancellation may have overwritten it, and that a call which
   could not be authorized, or whose tool is not registered, leaves its task
   queued. *)
StatusTellsOutcome ==
  \A t \in Tool : pc[t] = "done" =>
    /\ status[t] = "completed" => outcome[t] = "ok"
    /\ status[t] = "failed" => outcome[t] = "error"
    /\ status[t] = "rejected" => outcome[t] \in {"rejected", "denied"} /\ t \notin ran
    /\ status[t] = "queued" => outcome[t] \in {"error", "cancelled", "unplanned"} /\ t \notin ran
    /\ status[t] \notin {"running", "streaming"}

(* As long as the user does not leave a request unanswered, the round ends:
   no reply, rejection, cancellation or failure of the store leaves a call
   waiting. *)
RoundEnds == ([]<>(pending = {})) => <>(phase = "over")
================================================================================
