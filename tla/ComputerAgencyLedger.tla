------------------------ MODULE ComputerAgencyLedger ------------------------
(***************************************************************************)
(* The owner-private SQLite ledger of desktop/agency_ledger.py.            *)
(*                                                                         *)
(* One row per computer task, the rows of its actions in rowid order, and  *)
(* the rows of its clarifications in the order they were requested.  Each  *)
(* method is one transaction (BEGIN IMMEDIATE ... commit) and so one       *)
(* action here, except the three that are not: task(), which selects in    *)
(* autocommit and only then updates, cancel() and the two stop-all         *)
(* operations, which commit a stop intent first and finalize later.  Those *)
(* run step by step in the call record of the caller (a thread of the API  *)
(* or voice process).                                                      *)
(*                                                                         *)
(* Abstracted: observations and digests (whether the desktop changed since *)
(* the observation an action is bound to is a free choice of the claim),   *)
(* wording, timestamps (age is a flag that time sets), the owner (one).    *)
(***************************************************************************)
EXTENDS Naturals, Sequences, FiniteSets

CONSTANTS
  Tasks,              \* identities a computer task may get
  Callers,            \* threads that use the ledger
  Budget,             \* action_budget of a task
  ActionSpecs,        \* what callers prepare: [kind, risk, bound]
  PlanSteps,          \* step_count of the owner's native plan
  MaxActions,         \* bound: action rows of a task
  MaxClarifications,  \* bound: clarification rows of a task
  None

Kinds == {"activate_accessible", "hotkey", "press_key"}
Bindings == {"unbound", "expected", "windowed"}
Verifications == {"none", "location_read", "location_dismissed", "other"}

ASSUME LedgerAssumption ==
  /\ None \notin Tasks
  /\ Budget \in 1..100
  /\ ActionSpecs \subseteq
       [kind : Kinds, risk : {"low", "consequential"}, bound : Bindings]
  /\ PlanSteps \in 1..3
  /\ MaxActions \in Nat
  /\ MaxClarifications \in Nat

VARIABLES
  tasks,    \* task rows: state, cancel_requested, action_count, past 30 minutes
  actions,  \* action rows of each task
  clars,    \* clarification rows of each task
  calls     \* what each caller read and has left to do

vars == <<tasks, actions, clars, calls>>

TaskStates == {"absent", "active", "awaiting_clarification", "recovery_required",
               "succeeded", "failed", "cancelled", "expired"}
Pending == {"active", "awaiting_clarification", "recovery_required"}
ActionStates == {"prepared", "in_flight", "verified", "failed", "in_doubt",
                 "result_present", "not_executed", "stale", "cancelled", "expired"}
\* The states only an action that was once claimed can be in.
ClaimedStates == {"in_flight", "verified", "failed", "in_doubt",
                  "result_present", "not_executed"}

TaskRow == [state : TaskStates, cancel : BOOLEAN, count : Nat, aged : BOOLEAN]
ActionRow == [kind : Kinds, risk : {"low", "consequential"}, bound : Bindings,
              state : ActionStates, started : BOOLEAN,
              verification : Verifications, rejection : BOOLEAN]
ClarRow == [status : {"awaiting_answer", "answered", "superseded", "cancelled", "expired"},
            delivery : {"pending", "played", "failed"}, lapsed : BOOLEAN]
Pcs == {"idle", "read", "expire", "read_clarification", "expire_unanswered",
        "expire_lapsed", "cancel_clarification", "request_cancel",
        "finalize_cancel", "finalize_stop", "stopped"}
\* then: what the caller does with the state task() returns;
\* targets: the tasks stop_all has still to cancel; stop: all it took up.
Call == [pc : Pcs, task : Tasks \cup {None}, clar : Nat,
         then : {"return", "cancel"}, targets : SUBSET Tasks, stop : SUBSET Tasks]

IdleCall == [pc |-> "idle", task |-> None, clar |-> 0, then |-> "return",
             targets |-> {}, stop |-> {}]

TypeOK ==
  /\ tasks \in [Tasks -> TaskRow]
  /\ actions \in [Tasks -> Seq(ActionRow)]
  /\ clars \in [Tasks -> Seq(ClarRow)]
  /\ calls \in [Callers -> Call]

Init ==
  /\ tasks = [t \in Tasks |-> [state |-> "absent", cancel |-> FALSE,
                               count |-> 0, aged |-> FALSE]]
  /\ actions = [t \in Tasks |-> <<>>]
  /\ clars = [t \in Tasks |-> <<>>]
  /\ calls = [c \in Callers |-> IdleCall]

-----------------------------------------------------------------------------
(* Queries over the rows. *)

InState(t, S) == {i \in DOMAIN actions[t] : actions[t][i].state \in S}
Claimed(t) == InState(t, ClaimedStates)

\* WHERE status='awaiting_answer' ORDER BY requested_at DESC LIMIT 1
AwaitingAnswer(t) == {k \in DOMAIN clars[t] : clars[t][k].status = "awaiting_answer"}
IsLatest(t, k) == k \in AwaitingAnswer(t) /\ \A j \in AwaitingAnswer(t) : j <= k

\* WHERE state NOT IN ('prepared','stale')
Attempted(t) == {i \in DOMAIN actions[t] : actions[t][i].state \notin {"prepared", "stale"}}

\* Every row is a verified location-bar read followed by its verified dismissal.
OnlyLocationDiscovery(t) ==
  /\ actions[t] # <<>>
  /\ Len(actions[t]) % 2 = 0
  /\ \A i \in DOMAIN actions[t] :
       LET row == actions[t][i] IN
       /\ row.state = "verified"
       /\ IF i % 2 = 1
          THEN row.kind = "hotkey" /\ row.verification = "location_read"
          ELSE row.kind = "press_key" /\ row.verification = "location_dismissed"

CanAwaitClarification(t) ==
  /\ tasks[t].state = "active" /\ ~tasks[t].cancel
  /\ InState(t, {"prepared", "in_flight"}) = {}
  /\ tasks[t].count = 0 \/ OnlyLocationDiscovery(t)

(* UPDATE computer_actions SET state=new WHERE task_id=t AND state=old *)
Rewrite(t, old, new) ==
  [i \in DOMAIN actions[t] |->
     IF actions[t][i].state = old THEN [actions[t][i] EXCEPT !.state = new]
     ELSE actions[t][i]]

Close(t, old, new) ==
  [k \in DOMAIN clars[t] |->
     IF clars[t][k].status = old THEN [clars[t][k] EXCEPT !.status = new]
     ELSE clars[t][k]]

Idle(c) == calls[c].pc = "idle"

(* The operation ends in return self.task(t): the caller reads next. *)
ReturnTask(c, t) ==
  calls' = [calls EXCEPT ![c] = [IdleCall EXCEPT !.pc = "read", !.task = t]]

-----------------------------------------------------------------------------
(* Owner tasks and the actions of the runner. *)

Create(t) ==
  /\ tasks[t].state = "absent"
  /\ tasks' = [tasks EXCEPT ![t].state = "active"]
  /\ UNCHANGED <<actions, clars, calls>>

NewRow(spec, state, rejection) ==
  [kind |-> spec.kind, risk |-> spec.risk, bound |-> spec.bound, state |-> state,
   started |-> FALSE, verification |-> "none", rejection |-> rejection]

(* record_stale_attempt: at most two rejected rows, no budget consumed *)
RecordStaleAttempt(t, spec) ==
  /\ spec.risk = "low"
  /\ tasks[t].state = "active" /\ ~tasks[t].cancel
  /\ Cardinality({i \in DOMAIN actions[t] : actions[t][i].rejection}) < 2
  /\ Len(actions[t]) < MaxActions
  /\ actions' = [actions EXCEPT ![t] = Append(@, NewRow(spec, "stale", TRUE))]
  /\ UNCHANGED <<tasks, clars, calls>>

Prepare(t, spec) ==
  /\ tasks[t].state = "active" /\ tasks[t].count < Budget
  /\ ~tasks[t].cancel /\ ~tasks[t].aged
  /\ Len(actions[t]) < MaxActions
  /\ actions' = [actions EXCEPT ![t] = Append(@, NewRow(spec, "prepared", FALSE))]
  /\ UNCHANGED <<tasks, clars, calls>>

\* Faulty: does not ask whether the row was claimed before.
ClaimAgain(t, i, changed) ==
  /\ actions[t][i].risk # "consequential"
  /\ tasks[t].state = "active" /\ ~tasks[t].cancel
  /\ tasks[t].count < Budget
  /\ actions' = [actions EXCEPT ![t][i].state = IF changed THEN "stale" ELSE "in_flight"]
  /\ tasks' = [tasks EXCEPT ![t].count = IF changed THEN @ ELSE @ + 1]
  /\ UNCHANGED <<clars, calls>>

(* claim and claim_current; changed: the desktop no longer shows what the  *)
(* action was bound to                                                     *)
Claim(t, i, changed) ==
  /\ actions[t][i].state = "prepared" /\ actions[t][i].risk # "consequential"
  /\ tasks[t].state = "active" /\ ~tasks[t].cancel
  /\ tasks[t].count < Budget
  /\ actions' = [actions EXCEPT ![t][i].state = IF changed THEN "stale" ELSE "in_flight"]
  /\ tasks' = [tasks EXCEPT ![t].count = IF changed THEN @ ELSE @ + 1]
  /\ UNCHANGED <<clars, calls>>

\* Faulty: does not look at the stop intent.
StartDespiteStop(t, i) ==
  /\ actions[t][i].state = "in_flight" /\ ~actions[t][i].started
  /\ tasks[t].state = "active"
  /\ actions' = [actions EXCEPT ![t][i].started = TRUE]
  /\ UNCHANGED <<tasks, clars, calls>>

MarkExecutionStarted(t, i) ==
  /\ actions[t][i].state = "in_flight" /\ ~actions[t][i].started
  /\ tasks[t].state = "active" /\ ~tasks[t].cancel
  /\ actions' = [actions EXCEPT ![t][i].started = TRUE]
  /\ UNCHANGED <<tasks, clars, calls>>

Finish(t, i, verified, verification) ==
  /\ actions[t][i].state = "in_flight"
  /\ actions' = [actions EXCEPT ![t][i].state = IF verified THEN "verified" ELSE "failed",
                                ![t][i].verification = verification]
  /\ UNCHANGED <<tasks, clars, calls>>

\* Faulty: an interrupted task goes on.
GoOnInDoubt(row) == row

\* Faulty: recovery forgets the stop intent.
RecoveryForgetsStop(row) ==
  IF row.state = "active" THEN [row EXCEPT !.state = "recovery_required", !.cancel = FALSE]
  ELSE row

RequireRecovery(row) ==
  IF row.state = "active" THEN [row EXCEPT !.state = "recovery_required"] ELSE row

MarkInDoubt(t, i) ==
  /\ actions[t][i].state = "in_flight"
  /\ actions' = [actions EXCEPT ![t][i].state = "in_doubt"]
  /\ tasks' = [tasks EXCEPT ![t] = RequireRecovery(@)]
  /\ UNCHANGED <<clars, calls>>

(* reconcile_visible_result; unique: one element matches in the window *)
Reconcile(t, i, unique) ==
  /\ tasks[t].state = "recovery_required"
  /\ actions[t][i].state = "in_doubt"
  /\ unique /\ actions[t][i].bound = "windowed"
  /\ actions' = [actions EXCEPT ![t][i].state = "result_present"]
  /\ UNCHANGED <<tasks, clars, calls>>

\* Faulty: takes any doubtful row for one that did not start.
SettledByDoubt(row, visible) ==
  \/ row.state = "result_present" /\ row.bound = "windowed" /\ visible
  \/ row.state = "in_doubt"

(* Its effect is on screen, or it never reached the actor. *)
Settled(row, visible) ==
  \/ row.state = "result_present" /\ row.bound = "windowed" /\ visible
  \/ row.state = "in_doubt" /\ ~row.started

(* resume_native_plan; visible: the recovered result is still on screen *)
ResumeNativePlan(t, last, visible) ==
  LET row == actions[t][last]
      done == Cardinality(Attempted(t)) - (IF row.state = "result_present" THEN 0 ELSE 1)
  IN
  /\ tasks[t].state = "recovery_required" /\ ~tasks[t].cancel
  /\ last \in Attempted(t) /\ \A i \in Attempted(t) : i <= last
  /\ Cardinality(Attempted(t)) <= PlanSteps
  /\ \A i \in Attempted(t) \ {last} :
       actions[t][i].kind = "activate_accessible" /\ actions[t][i].state = "verified"
  /\ row.kind = "activate_accessible" /\ Settled(row, visible)
  /\ done < PlanSteps => tasks[t].count < Budget
  /\ actions' = [actions EXCEPT ![t][last].state =
                   IF row.state = "in_doubt" THEN "not_executed" ELSE @]
  /\ tasks' = [tasks EXCEPT ![t].state = "active"]
  /\ UNCHANGED <<clars, calls>>

\* Faulty: completes over a stop intent.
CompleteDespiteStop(t, succeeded) ==
  /\ tasks[t].state = "active"
  /\ InState(t, {"in_flight"}) = {}
  /\ tasks' = [tasks EXCEPT ![t].state = IF succeeded THEN "succeeded" ELSE "failed"]
  /\ actions' = [actions EXCEPT ![t] = Rewrite(t, "prepared", "cancelled")]
  /\ UNCHANGED <<clars, calls>>

(* complete; the task() it returns only reads, for its state is settled *)
Complete(t, succeeded) ==
  /\ tasks[t].state = "active" /\ ~tasks[t].cancel
  /\ InState(t, {"in_flight"}) = {}
  /\ tasks' = [tasks EXCEPT ![t].state = IF succeeded THEN "succeeded" ELSE "failed"]
  /\ actions' = [actions EXCEPT ![t] = Rewrite(t, "prepared", "cancelled")]
  /\ UNCHANGED <<clars, calls>>

(* A new process opens the ledger: recover_in_flight in the constructor. *)
RecoverInFlight ==
  /\ \E t \in Tasks : InState(t, {"in_flight"}) # {}
  /\ actions' = [t \in Tasks |-> Rewrite(t, "in_flight", "in_doubt")]
  /\ tasks' = [t \in Tasks |-> IF InState(t, {"in_flight"}) # {}
                               THEN RequireRecovery(tasks[t]) ELSE tasks[t]]
  /\ UNCHANGED <<clars, calls>>

-----------------------------------------------------------------------------
(* Clarifications. *)

AwaitClarification(t) ==
  /\ CanAwaitClarification(t)
  /\ Len(clars[t]) < MaxClarifications
  /\ tasks' = [tasks EXCEPT ![t].state = "awaiting_clarification"]
  /\ clars' = [clars EXCEPT ![t] = Append(Close(t, "awaiting_answer", "superseded"),
                 [status |-> "awaiting_answer", delivery |-> "pending", lapsed |-> FALSE])]
  /\ UNCHANGED <<actions, calls>>

RecordClarificationDelivery(t, k, played) ==
  /\ IsLatest(t, k)
  /\ clars' = [clars EXCEPT ![t][k].delivery = IF played THEN "played" ELSE "failed"]
  /\ UNCHANGED <<tasks, actions, calls>>

ResumeClarification(c, t, k) ==
  /\ Idle(c)
  /\ IsLatest(t, k)
  /\ clars[t][k].delivery = "played" /\ ~clars[t][k].lapsed
  /\ tasks[t].state = "awaiting_clarification" /\ ~tasks[t].cancel
  /\ tasks[t].count = 0 \/ OnlyLocationDiscovery(t)
  /\ tasks' = [tasks EXCEPT ![t].state = "active"]
  /\ clars' = [clars EXCEPT ![t][k].status = "answered"]
  /\ ReturnTask(c, t)
  /\ UNCHANGED actions

Withdraw(t) ==
  /\ tasks[t].state = "awaiting_clarification" /\ tasks[t].count = 0
  /\ tasks' = [tasks EXCEPT ![t].state = "cancelled"]
  /\ clars' = [clars EXCEPT ![t] = Close(t, "awaiting_answer", "cancelled")]
  /\ UNCHANGED actions

CancelClarification(t) == Withdraw(t) /\ UNCHANGED calls

-----------------------------------------------------------------------------
(* task(): the selects are separate statements in autocommit, the updates  *)
(* that follow them name only the task_id.                                 *)

\* The call is over; stop_all goes on with the tasks it has left.
Over(c) ==
  LET call == calls[c] IN
  \/ /\ call.targets = {}
     /\ calls' = [calls EXCEPT ![c] = IF call.stop = {} THEN IdleCall
                    ELSE [IdleCall EXCEPT !.pc = "stopped", !.stop = call.stop]]
  \/ \E t \in call.targets :
       calls' = [calls EXCEPT ![c] = [IdleCall EXCEPT
                   !.pc = "read", !.task = t, !.then = "cancel",
                   !.targets = call.targets \ {t}, !.stop = call.stop]]

\* task() returned state s: cancel() goes on with it, other callers have it.
Returned(c, s) ==
  IF calls[c].then = "return" THEN Over(c)
  ELSE calls' = [calls EXCEPT ![c].pc = IF s = "awaiting_clarification"
                   THEN "cancel_clarification" ELSE "request_cancel"]

CallTask(c, t) ==
  /\ Idle(c) /\ tasks[t].state # "absent"
  /\ ReturnTask(c, t)
  /\ UNCHANGED <<tasks, actions, clars>>

ReadTask(c) ==
  LET row == tasks[calls[c].task] IN
  /\ calls[c].pc = "read"
  /\ \/ /\ row.state = "active" /\ row.aged
        /\ calls' = [calls EXCEPT ![c].pc = "expire"]
     \/ /\ row.state = "awaiting_clarification"
        /\ calls' = [calls EXCEPT ![c].pc = "read_clarification"]
     \/ /\ row.state # "awaiting_clarification" /\ ~(row.state = "active" /\ row.aged)
        /\ Returned(c, row.state)
  /\ UNCHANGED <<tasks, actions, clars>>

ExpireTask(c) ==
  LET t == calls[c].task IN
  /\ calls[c].pc = "expire"
  /\ tasks' = [tasks EXCEPT ![t].state = "expired"]
  /\ actions' = [actions EXCEPT ![t] = Rewrite(t, "prepared", "expired")]
  /\ Returned(c, "expired")
  /\ UNCHANGED clars

ReadClarification(c) ==
  LET t == calls[c].task IN
  /\ calls[c].pc = "read_clarification"
  /\ \/ /\ AwaitingAnswer(t) = {}
        /\ calls' = [calls EXCEPT ![c].pc = "expire_unanswered"]
     \/ \E k \in DOMAIN clars[t] :
          /\ IsLatest(t, k)
          /\ IF clars[t][k].lapsed
             THEN calls' = [calls EXCEPT ![c].pc = "expire_lapsed", ![c].clar = k]
             ELSE Returned(c, "awaiting_clarification")
  /\ UNCHANGED <<tasks, actions, clars>>

ExpireClarification(c) ==
  LET t == calls[c].task IN
  /\ calls[c].pc \in {"expire_unanswered", "expire_lapsed"}
  /\ tasks' = [tasks EXCEPT ![t].state = "expired"]
  /\ IF calls[c].pc = "expire_lapsed"
     THEN clars' = [clars EXCEPT ![t][calls[c].clar].status = "expired"]
     ELSE UNCHANGED clars
  /\ Returned(c, "expired")
  /\ UNCHANGED actions

-----------------------------------------------------------------------------
(* Stop.  A ValueError of one step ends the call, and stop_all passes on.  *)

Cancel(c, t) ==
  /\ Idle(c) /\ tasks[t].state # "absent"
  /\ calls' = [calls EXCEPT ![c] = [IdleCall EXCEPT
                 !.pc = "read", !.task = t, !.then = "cancel"]]
  /\ UNCHANGED <<tasks, actions, clars>>

WithdrawInCancel(c) ==
  LET t == calls[c].task IN
  /\ calls[c].pc = "cancel_clarification"
  /\ \/ Withdraw(t)
     \/ /\ tasks[t].state # "awaiting_clarification" \/ tasks[t].count # 0
        /\ UNCHANGED <<tasks, actions, clars>>
  /\ Over(c)

RequestCancel(c) ==
  LET t == calls[c].task IN
  /\ calls[c].pc = "request_cancel"
  /\ \/ /\ tasks[t].state \in {"active", "recovery_required"}
        /\ tasks' = [tasks EXCEPT ![t].cancel = TRUE]
        /\ calls' = [calls EXCEPT ![c].pc = "finalize_cancel"]
     \/ /\ tasks[t].state \notin {"active", "recovery_required"}
        /\ Over(c)
        /\ UNCHANGED tasks
  /\ UNCHANGED <<actions, clars>>

FinalizeCancel(c) ==
  LET t == calls[c].task IN
  /\ calls[c].pc = "finalize_cancel"
  /\ IF tasks[t].state \in {"active", "recovery_required"}
     THEN /\ tasks' = [tasks EXCEPT ![t].state = "cancelled"]
          /\ actions' = [actions EXCEPT ![t] = Rewrite(t, "prepared", "cancelled")]
     ELSE UNCHANGED <<tasks, actions>>
  /\ Over(c)
  /\ UNCHANGED clars

(* request_cancel on its own: the voice and runner paths that only signal *)
SignalCancel(t) ==
  /\ tasks[t].state \in {"active", "recovery_required"}
  /\ tasks' = [tasks EXCEPT ![t].cancel = TRUE]
  /\ UNCHANGED <<actions, clars, calls>>

PendingTasks == {t \in Tasks : tasks[t].state \in Pending}

RequestAll ==
  tasks' = [t \in Tasks |-> IF t \in PendingTasks
                            THEN [tasks[t] EXCEPT !.cancel = TRUE] ELSE tasks[t]]

(* ComputerAgencyController.stop_all: signal all, then cancel() each *)
StopAll(c) ==
  /\ Idle(c) /\ PendingTasks # {}
  /\ RequestAll
  /\ \E t \in PendingTasks :
       calls' = [calls EXCEPT ![c] = [IdleCall EXCEPT
                   !.pc = "read", !.task = t, !.then = "cancel",
                   !.targets = PendingTasks \ {t}, !.stop = PendingTasks]]
  /\ UNCHANGED <<actions, clars>>

(* cancel_active_tasks: signal all, then one unconditional update *)
CancelActiveTasks(c) ==
  /\ Idle(c) /\ PendingTasks # {}
  /\ RequestAll
  /\ calls' = [calls EXCEPT ![c] = [IdleCall EXCEPT
                 !.pc = "finalize_stop", !.stop = PendingTasks]]
  /\ UNCHANGED <<actions, clars>>

FinalizeStop(c) ==
  LET S == calls[c].stop IN
  /\ calls[c].pc = "finalize_stop"
  /\ tasks' = [t \in Tasks |-> IF t \in S THEN [tasks[t] EXCEPT !.state = "cancelled"]
                               ELSE tasks[t]]
  /\ actions' = [t \in Tasks |-> IF t \in S THEN Rewrite(t, "prepared", "cancelled")
                                 ELSE actions[t]]
  /\ clars' = [t \in Tasks |-> IF t \in S THEN Close(t, "awaiting_answer", "cancelled")
                               ELSE clars[t]]
  /\ calls' = [calls EXCEPT ![c].pc = "stopped"]

StopReturns(c) ==
  /\ calls[c].pc = "stopped"
  /\ calls' = [calls EXCEPT ![c] = IdleCall]
  /\ UNCHANGED <<tasks, actions, clars>>

-----------------------------------------------------------------------------
(* The environment: time, and the death of a caller between two statements. *)

TaskAges(t) ==
  /\ tasks[t].state # "absent" /\ ~tasks[t].aged
  /\ tasks' = [tasks EXCEPT ![t].aged = TRUE]
  /\ UNCHANGED <<actions, clars, calls>>

ClarificationLapses(t, k) ==
  /\ ~clars[t][k].lapsed
  /\ clars' = [clars EXCEPT ![t][k].lapsed = TRUE]
  /\ UNCHANGED <<tasks, actions, calls>>

\* The callers of one process die together; one that was idle loses nothing.
CallersDie(S) ==
  /\ calls' = [c \in Callers |-> IF c \in S THEN IdleCall ELSE calls[c]]
  /\ UNCHANGED <<tasks, actions, clars>>

ActionStep(t) ==
  \/ \E spec \in ActionSpecs : RecordStaleAttempt(t, spec) \/ Prepare(t, spec)
  \/ \E i \in DOMAIN actions[t] :
       \/ \E b \in BOOLEAN : Claim(t, i, b) \/ Reconcile(t, i, b) \/ ResumeNativePlan(t, i, b)
       \/ MarkExecutionStarted(t, i)
       \/ \E v \in Verifications : Finish(t, i, TRUE, v)
       \/ Finish(t, i, FALSE, "none")
       \/ MarkInDoubt(t, i)
  \/ \E b \in BOOLEAN : Complete(t, b)

ClarificationStep(t) ==
  \/ AwaitClarification(t) \/ CancelClarification(t)
  \/ \E k \in DOMAIN clars[t] :
       \/ \E b \in BOOLEAN : RecordClarificationDelivery(t, k, b)
       \/ ClarificationLapses(t, k)

CallStep(c) ==
  \/ \E t \in Tasks :
       \/ CallTask(c, t) \/ Cancel(c, t)
       \/ \E k \in DOMAIN clars[t] : ResumeClarification(c, t, k)
  \/ ReadTask(c) \/ ExpireTask(c) \/ ReadClarification(c) \/ ExpireClarification(c)
  \/ WithdrawInCancel(c) \/ RequestCancel(c) \/ FinalizeCancel(c)
  \/ StopAll(c) \/ CancelActiveTasks(c) \/ FinalizeStop(c) \/ StopReturns(c)

Next ==
  \/ \E t \in Tasks : Create(t) \/ ActionStep(t) \/ ClarificationStep(t)
                      \/ SignalCancel(t) \/ TaskAges(t)
  \/ \E c \in Callers : CallStep(c)
  \/ \E S \in SUBSET Callers : CallersDie(S)
  \/ RecoverInFlight

Spec == Init /\ [][Next]_vars

-----------------------------------------------------------------------------
(* What the ledger promises. *)

\* Every physical claim is charged exactly once and the budget is never
\* exceeded: claims, stale rejections, restarts and resumes keep
\* action_count equal to the number of rows that were ever in flight.
BudgetAccounted ==
  \A t \in Tasks : /\ tasks[t].count = Cardinality(Claimed(t))
                   /\ tasks[t].count <= Budget

\* A physical effect whose outcome is unknown is never hidden behind a task
\* that goes on, waits for an answer or reports an outcome of its own.
UncertaintyIsVisible ==
  \A t \in Tasks : InState(t, {"in_doubt"}) # {} =>
    tasks[t].state \in {"recovery_required", "cancelled", "expired"}

\* An action the recovery declares not executed never crossed the durable
\* actor-start boundary, nor did one that was rejected or withdrawn.
NotExecutedMeansNotStarted ==
  \A t \in Tasks : \A i \in DOMAIN actions[t] :
    actions[t][i].state \in {"not_executed", "prepared", "stale", "cancelled", "expired"}
      => ~actions[t][i].started

\* A task waits for the owner with exactly one open question and with no
\* physical effect behind it but verified location-bar reads.
WaitingIsQuiescent ==
  \A t \in Tasks : tasks[t].state = "awaiting_clarification" =>
    /\ Cardinality(AwaitingAnswer(t)) = 1
    /\ Claimed(t) # {} => OnlyLocationDiscovery(t)

\* A finished task leaves no prepared row that a later claim could pick up.
FinishedLeavesNothingPrepared ==
  \A t \in Tasks : tasks[t].state \in {"succeeded", "failed", "cancelled"} =>
    InState(t, {"prepared"}) = {}

\* After a durable stop intent nothing new is claimed or started, the intent
\* is never withdrawn and the task can only be closed or held for recovery.
StopIsBinding ==
  [][\A t \in Tasks : tasks[t].cancel =>
       /\ tasks'[t].cancel
       /\ tasks'[t].state \in {tasks[t].state, "cancelled", "expired", "recovery_required"}
       /\ \A i \in DOMAIN actions[t] :
            /\ actions[t][i].state = "prepared" => actions'[t][i].state # "in_flight"
            /\ actions'[t][i].started = actions[t][i].started
    ]_vars

NotReplayed(old, new) ==
  /\ old.started => new.started
  /\ new.state = "in_flight" => old.state \in {"prepared", "in_flight"}
  /\ new.state = "prepared" => old.state = "prepared"
  /\ old.state = "in_doubt" => new.state \in {"in_doubt", "result_present", "not_executed"}

\* No replay: a row leaves prepared once, crosses the actor-start boundary
\* once, and an uncertain row is only ever settled by evidence.
NoReplay ==
  [][\A t \in Tasks : \A i \in DOMAIN actions[t] :
       NotReplayed(actions[t][i], actions'[t][i])]_vars

\* A settled outcome is not turned into another outcome: at most a caller
\* that read the task before it was settled still writes its expiry.
OutcomeIsNotRevised ==
  [][\A t \in Tasks : tasks[t].state \in {"succeeded", "failed", "cancelled"} =>
       tasks'[t].state \in {tasks[t].state, "expired"}]_vars

\* After stop_all every task it took up is closed, except one that waits for
\* an answer with location-bar reads behind it, which cancel() refuses.
StopClosesAllButDiscovery ==
  \A c \in Callers : calls[c].pc = "stopped" =>
    \A t \in calls[c].stop : tasks[t].state \in Pending =>
      tasks[t].state = "awaiting_clarification" /\ tasks[t].count > 0

\* desktop/agency.py, stop_all: the voice stop cancels every pending task.
StopLeavesNothingPending ==
  \A c \in Callers : calls[c].pc = "stopped" =>
    \A t \in calls[c].stop : tasks[t].state \notin Pending

=============================================================================
