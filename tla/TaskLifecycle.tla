---------------------------- MODULE TaskLifecycle ----------------------------
(***************************************************************************)
(* One coding task from its plan to its terminal record: the task history  *)
(* (history/store.py, history/service.py, history/importer.py), the        *)
(* gateway operations that plan, approve, execute and cancel it            *)
(* (gateway/service.py, gateway/recovery.py, interface/api.py), the        *)
(* executor's single worker (gateway/execution_service.py), the code       *)
(* agent's apply path that this worker runs (agent/code_agent.py), the     *)
(* task's isolated worktree (isolation/worktrees.py) and the owner's       *)
(* reconciliation of a failed validation (isolation/owner_rollback.py).    *)
(*                                                                         *)
(* Every SQLite transaction is one action; what a request read before it   *)
(* is kept in the caller's record.  A restart loses callers and worker and *)
(* keeps the database and the worktree.  An attempt's uuid is its index in *)
(* `attempts`; before its row exists the uuid is the caller's own name.    *)
(* The objective's link to the task, and the scope rules for the tools'    *)
(* events in an execution report, are taken as satisfied.                  *)
(***************************************************************************)
EXTENDS Integers, Sequences, FiniteSets

CONSTANTS
    Callers,      \* concurrent requests of the gateway, the browser and the CLI
    Plans,        \* plan hashes the planner can produce
    AutoPlans,    \* those its policy marks "safe to continue automatically"
    Keys,         \* idempotency keys of recovery, retry and reconciliation
    None,         \* no plan, no key, no claim holder
    MaxAttempts,  \* bound on execution attempts
    MaxEvents,    \* bound on requests, restarts and lapsed leases together
    MaxRestarts,  \* bound on process restarts
    MaxLapses     \* bound on leases that run out

ASSUME BoundsAssumption ==
    /\ AutoPlans \subseteq Plans
    /\ {MaxAttempts, MaxEvents, MaxRestarts, MaxLapses} \subseteq Nat
    /\ None \notin Callers \cup Plans \cup Keys \cup Nat
    /\ \A c \in Callers : c \notin Nat     \* an attempt's uuid is no caller's name

VARIABLES
    task,       \* the row of tasks
    approvals,  \* the latest row of approvals for each plan hash
    plans,      \* the rows of plans, and the plan whose bytes are on disk
    claim,      \* the planning and the execution claim
    attempts,   \* the rows of task_execution_attempts with their artifacts
    worktree,   \* the isolated worktree and its metadata
    jobs,       \* the executor's futures that are not done, oldest first
    latest,     \* the state of the future registered under the task's id
    worker,     \* the code agent running the oldest future
    rollbacks,  \* the validation-failure rollback of each idempotency key
    callers,    \* the requests in progress
    spent       \* what is used of each bound, whether a reconciliation or an undo was overlapped,
                \* and whether an execution's claim ever ran out

record == <<task, approvals, plans, claim, attempts, rollbacks>>
process == <<jobs, latest, worker>>
vars == <<record, process, worktree, callers, spent>>

----------------------------------------------------------------------------
(* The task's statuses and the transitions the store accepts.              *)

Terminal == {"succeeded", "failed", "blocked", "rolled_back", "cancelled"}

ALLOWED_TRANSITIONS ==
    [created             |-> {"planning", "cancelled", "failed"},
     planning            |-> {"awaiting_approval", "approved", "blocked", "failed",
                              "cancelled"},
     awaiting_approval   |-> {"approved", "blocked", "cancelled"},
     approved            |-> {"executing", "reapproval_required", "cancelled"},
     executing           |-> {"validating", "recovery_required",
                              "reapproval_required", "failed", "rolled_back",
                              "cancelled"},
     recovery_required   |-> {"executing", "failed", "blocked", "rolled_back",
                              "cancelled"},
     retry_requested     |-> {"executing", "failed", "rolled_back"},
     validating          |-> {"reviewing", "executing", "recovery_required",
                              "reapproval_required", "failed", "rolled_back",
                              "cancelled"},
     reviewing           |-> {"succeeded", "executing", "recovery_required",
                              "reapproval_required", "blocked", "failed",
                              "rolled_back"},
     reapproval_required |-> {"approved", "blocked", "cancelled"},
     succeeded |-> {}, failed |-> {}, blocked |-> {}, rolled_back |-> {},
     cancelled |-> {}]

Statuses == DOMAIN ALLOWED_TRANSITIONS

(* Approval evidence the store asks for when it leaves an approval state.  *)
EvidenceFor(status) ==
    status = "approved" /\ task.status \in {"awaiting_approval", "reapproval_required"}
        => task.plan # None /\ approvals[task.plan] # "none"

CanMoveTo(status) ==
    status \in ALLOWED_TRANSITIONS[task.status] /\ EvidenceFor(status)

(* Every write of the row renews updated_at.                               *)
Moved(status) == [task EXCEPT !.status = status, !.fresh = TRUE,
                              !.validated = @ \/ status = "validating"]

(* A caller that logs the store's refusal and goes on.                     *)
MovedIfAllowed(status) == IF CanMoveTo(status) THEN Moved(status) ELSE task

Latest == attempts[Len(attempts)]
KeyUsed(k) == \E i \in DOMAIN attempts : attempts[i].key = k
ExecutionFree == claim.exec = None \/ claim.execLapsed
ExplicitlyApproved(p) ==
    p # None /\ approvals[p] = "explicitly_approved" /\ task.approval = "explicitly_approved"

\* mutant: an approved task is taken for an approved plan
LoadableUnreviewed(p) == p = task.plan /\ p \in plans.rows /\ plans.file = p

(* load_approved_plan, after the check of the task's status.               *)
Loadable(p) == /\ p = task.plan /\ ExplicitlyApproved(p)
               /\ p \in plans.rows /\ plans.file = p

Idle == [pc |-> "idle", seen |-> None, plan |-> None, attempt |-> 0, key |-> None,
         restored |-> FALSE]
IdleWorker == [pc |-> "idle", result |-> None, passed |-> FALSE, cancelled |-> FALSE,
               ok |-> FALSE, outcome |-> None, again |-> FALSE]
NoRollback == [state |-> "none", attempt |-> 0, restored |-> FALSE, completed |-> FALSE,
               shadowed |-> FALSE]

Init ==
    /\ task = [status |-> "created", plan |-> None, approval |-> "unknown",
               cancel |-> FALSE, fresh |-> TRUE, validated |-> FALSE]
    /\ approvals = [p \in Plans |-> "none"]
    /\ plans = [rows |-> {}, file |-> None]
    /\ claim = [plan |-> None, planLapsed |-> FALSE, exec |-> None, execLapsed |-> FALSE]
    /\ attempts = <<>>
    /\ worktree = [state |-> "none", dirty |-> FALSE, plan |-> None]
    /\ jobs = <<>> /\ latest = "none" /\ worker = IdleWorker
    /\ rollbacks = [k \in Keys |-> NoRollback]
    /\ callers = [c \in Callers |-> Idle]
    /\ spent = [calls |-> 0, restarts |-> 0, lapses |-> 0, overlapped |-> FALSE,
                expired |-> FALSE]

(* Something still happens to the task.                                    *)
EventLeft == spent.calls + spent.restarts + spent.lapses < MaxEvents

(* A request arrives, takes its next step, or returns.                     *)
Arrives(c) == /\ callers[c].pc = "idle" /\ EventLeft
              /\ spent' = [spent EXCEPT !.calls = @ + 1]
At(c, pc) == callers[c].pc = pc /\ UNCHANGED spent

(* The same for an owner's request, noting whether it overlaps `others`.   *)
ReconcileSteps == {"start", "resume", "require", "isolate", "restore", "rolled",
                   "finalize", "clean"}
AdmissionSteps == {"mark", "recover", "retry", "dispatch", "undo"}
ArrivesAmid(c, others) ==
    /\ callers[c].pc = "idle" /\ EventLeft
    /\ spent' = [spent EXCEPT
          !.calls = @ + 1,
          !.overlapped = @ \/ \E o \in Callers : callers[o].pc \in others]

Goto(c, pc) == callers' = [callers EXCEPT ![c].pc = pc]
Holding(c, pc, seen, p, k) ==
    callers' = [callers EXCEPT ![c] = [Idle EXCEPT !.pc = pc, !.seen = seen,
                                                  !.plan = p, !.key = k]]
Returns(c) == callers' = [callers EXCEPT ![c] = Idle]
NextOrRelease(c, ok, pc) ==
    IF ok THEN Goto(c, pc) ELSE Holding(c, "release", None, None, None)
NextOrReturn(c, ok, pc) == IF ok THEN Goto(c, pc) ELSE Returns(c)

----------------------------------------------------------------------------
(* Planning: request_plan, and the CLI's planner, which takes no claim.    *)

ClaimPlanning(c) ==
    /\ Arrives(c)
    /\ claim.plan = None \/ claim.planLapsed
    /\ claim' = [claim EXCEPT !.plan = c, !.planLapsed = FALSE]
    /\ Holding(c, "plan_check", None, None, None)
    /\ UNCHANGED <<task, approvals, plans, attempts, rollbacks, process, worktree>>

BeginPlanning(c) ==
    /\ At(c, "plan_check")
    /\ task' = IF task.status = "created" THEN Moved("planning") ELSE task
    /\ Goto(c, IF task.status \in {"created", "planning", "reapproval_required"}
               THEN "generate" ELSE "release")
    /\ UNCHANGED <<approvals, plans, claim, attempts, rollbacks, process, worktree>>

(* The planner persists the plan over the file of an earlier one, or fails. *)
GeneratePlan(c) ==
    /\ \/ At(c, "generate")
       \/ Arrives(c)                                \* code_agent --task-id
    /\ \/ \E p \in Plans \ plans.rows :
             /\ plans' = [plans EXCEPT !.file = p]
             /\ Holding(c, "attach", None, p, None)
       \/ /\ callers[c].pc = "generate"
          /\ plans' = plans /\ Goto(c, "release")
    /\ UNCHANGED <<task, approvals, claim, attempts, rollbacks, process, worktree>>

(* attach_plan reads the task once, then inserts the plan's row.           *)
AttachPlan(c) ==
    LET p == callers[c].plan
        open == task.status \notin Terminal \cup {"executing", "validating", "reviewing"}
    IN  /\ At(c, "attach")
        /\ plans' = IF open THEN [plans EXCEPT !.rows = @ \cup {p}] ELSE plans
        /\ CASE ~open -> Holding(c, "release", None, None, None)
             [] open /\ p \in plans.rows -> Holding(c, "planned", None, p, None)
             [] OTHER -> Holding(c, "replace", task.status, p, None)
        /\ UNCHANGED <<task, approvals, claim, attempts, rollbacks, process, worktree>>

(* ... and writes the new hash whatever has become of the status since.    *)
ReplacePlan(c) ==
    LET p == callers[c].plan
    IN  /\ At(c, "replace")
        /\ task' = [task EXCEPT !.plan = p, !.fresh = TRUE,
                                !.approval = IF p \in AutoPlans THEN "automatic" ELSE "review"]
        /\ Holding(c, IF callers[c].seen = "approved" THEN "stale" ELSE "planned",
                   None, p, None)
        /\ UNCHANGED <<approvals, plans, claim, attempts, rollbacks, process, worktree>>

RequireReapproval(c) ==
    /\ At(c, "stale")
    /\ task' = [MovedIfAllowed("reapproval_required") EXCEPT !.approval = "stale",
                                                             !.fresh = TRUE]
    /\ NextOrRelease(c, CanMoveTo("reapproval_required"), "planned")
    /\ UNCHANGED <<approvals, plans, claim, attempts, rollbacks, process, worktree>>

FinishPlanning(c) ==
    /\ At(c, "planned")
    /\ task' = CASE task.status # "planning" -> task
                 [] task.status = "planning" /\ callers[c].plan \in AutoPlans -> Moved("approved")
                 [] OTHER -> Moved("awaiting_approval")
    /\ Holding(c, "release", None, None, None)
    /\ UNCHANGED <<approvals, plans, claim, attempts, rollbacks, process, worktree>>

ReleasePlanning(c) ==
    /\ At(c, "release")
    /\ claim' = IF claim.plan = c THEN [claim EXCEPT !.plan = None, !.planLapsed = FALSE]
                ELSE claim
    /\ Returns(c)
    /\ UNCHANGED <<task, approvals, plans, attempts, rollbacks, process, worktree>>

Planning(c) ==
    \/ ClaimPlanning(c) \/ BeginPlanning(c) \/ GeneratePlan(c) \/ AttachPlan(c)
    \/ ReplacePlan(c) \/ RequireReapproval(c) \/ FinishPlanning(c) \/ ReleasePlanning(c)

----------------------------------------------------------------------------
(* Approval: the browser attaches the evidence and moves the task; the     *)
(* gateway's endpoint only attaches the evidence.                          *)

ApprovalStates == {"awaiting_approval", "reapproval_required"}

ReviewPlan(c) ==
    /\ Arrives(c)
    /\ task.status \in ApprovalStates /\ task.plan # None
    /\ Holding(c, "approve", None, task.plan, None)
    /\ UNCHANGED <<record, process, worktree>>

AttachApproval(c) ==
    LET accepted == task.status \in ApprovalStates /\ task.plan = callers[c].plan
    IN  /\ At(c, "approve")
        /\ approvals' = IF accepted
                        THEN [approvals EXCEPT ![callers[c].plan] = "explicitly_approved"]
                        ELSE approvals
        /\ task' = IF accepted THEN [task EXCEPT !.approval = "explicitly_approved",
                                                 !.fresh = TRUE] ELSE task
        /\ Returns(c) \/ (accepted /\ Holding(c, "admit", None, None, None))
        /\ UNCHANGED <<plans, claim, attempts, rollbacks, process, worktree>>

MoveToApproved(c) ==
    /\ At(c, "admit")
    /\ task' = MovedIfAllowed("approved")
    /\ Returns(c)
    /\ UNCHANGED <<approvals, plans, claim, attempts, rollbacks, process, worktree>>

Approval(c) == ReviewPlan(c) \/ AttachApproval(c) \/ MoveToApproved(c)

----------------------------------------------------------------------------
(* request_cancel: the flag for the worker, and the transition when the    *)
(* status it read says that nothing has started.                           *)

BeforeExecution == {"planning", "awaiting_approval", "approved", "reapproval_required"}

ReadForCancel(c) ==
    /\ Arrives(c)
    /\ task.status \in BeforeExecution \cup {"executing", "validating", "reviewing"}
    /\ Holding(c, "flag", task.status, None, None)
    /\ UNCHANGED <<record, process, worktree>>

FlagCancel(c) ==
    /\ At(c, "flag")
    /\ task' = [task EXCEPT !.cancel = TRUE, !.fresh = TRUE]
    /\ IF callers[c].seen \in BeforeExecution
       THEN Holding(c, "cancel", None, None, None) ELSE Returns(c)
    /\ UNCHANGED <<approvals, plans, claim, attempts, rollbacks, process, worktree>>

MoveToCancelled(c) ==
    /\ At(c, "cancel")
    /\ task' = MovedIfAllowed("cancelled")
    /\ Returns(c)
    /\ UNCHANGED <<approvals, plans, claim, attempts, rollbacks, process, worktree>>

Cancellation(c) == ReadForCancel(c) \/ FlagCancel(c) \/ MoveToCancelled(c)

----------------------------------------------------------------------------
(* Execution: request_execution, and the dispatch the three paths share.   *)

NewAttempt(kind, p, k) ==
    [kind |-> kind, state |-> "running", plan |-> p, key |-> k, exec |-> "none",
     valid |-> "none", artifact |-> FALSE, reconciled |-> FALSE]

Admitted(kind, p, k) ==
    /\ attempts' = Append(attempts, NewAttempt(kind, p, k))
    /\ claim' = [claim EXCEPT !.exec = Len(attempts) + 1, !.execLapsed = FALSE]

Dispatching(c) ==
    callers' = [callers EXCEPT ![c] = [Idle EXCEPT !.pc = "dispatch",
                                                   !.attempt = Len(attempts) + 1]]

(* finish_execution_attempt for every attempt a future reports to.         *)
Unfinished(S) == {i \in S : attempts[i].state \in {"running", "interrupted"}}
FinishAttempts(S, failed) ==
    /\ attempts' = [i \in DOMAIN attempts |->
           IF i \in Unfinished(S)
           THEN [attempts[i] EXCEPT !.state = IF failed THEN "failed" ELSE "completed"]
           ELSE attempts[i]]
    /\ claim' = IF claim.exec \in Unfinished(S)
                THEN [claim EXCEPT !.exec = None, !.execLapsed = FALSE] ELSE claim

\* mutant: the claim is taken whoever holds it
ClaimExecutionAnyway(c) ==
    /\ Arrives(c)
    /\ Len(attempts) < MaxAttempts
    /\ task.status = "approved" /\ task.plan # None
    /\ claim' = [claim EXCEPT !.exec = c, !.execLapsed = FALSE]
    /\ Holding(c, "create", None, task.plan, None)
    /\ UNCHANGED <<task, approvals, plans, attempts, rollbacks, process, worktree>>

ClaimExecution(c) ==
    /\ Arrives(c)
    /\ Len(attempts) < MaxAttempts
    /\ task.status = "approved" /\ task.plan # None
    /\ ExecutionFree
    /\ claim' = [claim EXCEPT !.exec = c, !.execLapsed = FALSE]
    /\ Holding(c, "create", None, task.plan, None)
    /\ UNCHANGED <<task, approvals, plans, attempts, rollbacks, process, worktree>>

(* When the row is refused the claim stays: the handler that should release *)
(* it finds no attempt row and returns.                                     *)
CreateAttempt(c) ==
    LET p == callers[c].plan
    IN  /\ At(c, "create")
        /\ IF task.status = "approved" /\ task.plan = p /\ claim.exec = c
           THEN Admitted("initial", p, None) /\ Dispatching(c)
           ELSE UNCHANGED <<attempts, claim>> /\ Returns(c)
        /\ UNCHANGED <<task, approvals, plans, rollbacks, process, worktree>>

(* execute_task: one future per run id, tracked under the task's id.       *)
Submit(i) ==
    IF attempts[i].kind = "initial" /\ \E n \in DOMAIN jobs :
           attempts[jobs[n].attempt].kind = "initial"
    THEN /\ jobs' = [n \in DOMAIN jobs |->
                        IF n = Len(jobs) THEN [jobs[n] EXCEPT !.calls = @ \cup {i}]
                        ELSE jobs[n]]
         /\ latest' = latest
    ELSE /\ jobs' = Append(jobs, [attempt |-> i, calls |-> {i}])
         /\ latest' = "running"

MayDispatch(i) ==
    LET a == attempts[i]
    IN  CASE a.kind = "initial" -> TRUE
          [] a.kind = "recovery" -> task.status = "executing" /\ a.state = "running"
          [] a.kind = "retry" -> /\ task.status = "executing" /\ a.state = "running"
                                 /\ claim.exec = i /\ ~claim.execLapsed

Dispatch(c) ==
    LET i == callers[c].attempt
    IN  /\ At(c, "dispatch")
        /\ \/ /\ MayDispatch(i)
              /\ Submit(i) /\ Returns(c)
              /\ UNCHANGED <<attempts, claim>>
           \/ /\ FinishAttempts({i}, TRUE)           \* repository not ready
              /\ NextOrReturn(c, attempts[i].kind = "retry", "undo")
              /\ UNCHANGED <<jobs, latest>>
        /\ UNCHANGED <<task, approvals, plans, rollbacks, worker, worktree>>

(* Noted in spent.overlapped: the refused retry is undone when another     *)
(* attempt is already under way.                                           *)
UndoRetry(c) ==
    /\ callers[c].pc = "undo"
    /\ spent' = [spent EXCEPT !.overlapped = @ \/ callers[c].attempt # Len(attempts)]
    /\ task' = MovedIfAllowed("rolled_back")
    /\ Returns(c)
    /\ UNCHANGED <<approvals, plans, claim, attempts, rollbacks, process, worktree>>

Execution(c) == ClaimExecution(c) \/ CreateAttempt(c) \/ Dispatch(c) \/ UndoRetry(c)

----------------------------------------------------------------------------
(* Recovery of an interrupted execution.                                   *)

(* The executor knows the worker failed, or the task was last written      *)
(* before this process started and it has no future for the task.          *)
WorkerGone == latest = "failed" \/ (latest = "none" /\ ~task.fresh)

InterruptedWorktree ==
    [executing         |-> {"executing"},
     validating        |-> {"validating"},
     recovery_required |-> {"executing", "validating", "recovery_required"}]

InterruptedStates == DOMAIN InterruptedWorktree

(* The interrupted worktree is recovered only if it holds no edit.         *)
InterruptedIsClean(p) == worktree.plan = p /\ ~worktree.dirty

(* recover: everything it inspects before its first write.                 *)
InspectInterruption(c) ==
    \E k \in Keys :
        /\ ArrivesAmid(c, ReconcileSteps)
        /\ Len(attempts) < MaxAttempts
        /\ task.status \in InterruptedStates
        /\ ~KeyUsed(k)
        /\ ExecutionFree
        /\ Loadable(task.plan)
        /\ WorkerGone
        /\ worktree.state \in InterruptedWorktree[task.status]
        /\ InterruptedIsClean(task.plan)
        /\ Holding(c, IF task.status = "recovery_required" THEN "recover" ELSE "mark",
                   None, task.plan, k)
        /\ UNCHANGED <<record, process, worktree>>

(* _only_terminal_prior_attempt_history: a failed attempt without artifact *)
(* may follow attempts that ended in failure or rollback.                  *)
OnlyTerminalPriorHistory ==
    /\ Latest.state = "failed" /\ ~Latest.artifact
    /\ Latest.exec = "none" /\ Latest.valid = "none"
    /\ \A i \in 1..(Len(attempts) - 1) :
          /\ attempts[i].state \in {"failed", "interrupted"}
          /\ attempts[i].exec \in {"none", "failed", "rolled_back"}
          /\ attempts[i].valid # "passed"

NoSideEffects ==
    \/ \A i \in DOMAIN attempts : attempts[i].exec = "none" /\ attempts[i].valid = "none"
    \/ OnlyTerminalPriorHistory

MarkRecoveryRequired(c) ==
    LET exact == /\ task.status \in InterruptedStates
                 /\ task.plan = callers[c].plan /\ task.approval = "explicitly_approved"
        sound == /\ NoSideEffects
                 /\ \A k \in Keys : rollbacks[k].state = "none"
                 /\ ExplicitlyApproved(task.plan)
    IN  /\ At(c, "mark")
        /\ IF exact /\ ExecutionFree /\ sound
           THEN /\ claim' = [claim EXCEPT !.exec = None, !.execLapsed = FALSE]
                /\ task' = IF task.status = "recovery_required" THEN task
                           ELSE Moved("recovery_required")
                /\ Goto(c, "recover")
           ELSE /\ UNCHANGED <<task, claim>>
                /\ NextOrReturn(c, exact /\ ~ExecutionFree /\ KeyUsed(callers[c].key),
                                "recover")
        /\ UNCHANGED <<approvals, plans, attempts, rollbacks, process, worktree>>

BeginRecoveryAttempt(c) ==
    LET p == callers[c].plan
        k == callers[c].key
    IN  /\ At(c, "recover")
        /\ IF /\ ~KeyUsed(k)
              /\ Len(attempts) < MaxAttempts
              /\ task.status = "recovery_required" /\ task.plan = p
              /\ ExplicitlyApproved(p)
              /\ ExecutionFree
           THEN Admitted("recovery", p, k) /\ Dispatching(c) /\ task' = Moved("executing")
           ELSE UNCHANGED <<task, attempts, claim>> /\ Returns(c)
        /\ UNCHANGED <<approvals, plans, rollbacks, process, worktree>>

Recovery(c) == InspectInterruption(c) \/ MarkRecoveryRequired(c) \/ BeginRecoveryAttempt(c)

----------------------------------------------------------------------------
(* Retry of a rolled-back task.                                            *)

(* _allow_only_failed_rollback_validation: no validation at all, or failed *)
(* ones no later than the attempt whose report was rolled back, `extra`    *)
(* excepted.                                                               *)
ValidationsAllow(prev, extra) ==
    LET rows == {i \in DOMAIN attempts : attempts[i].valid # "none"}
        reported == {i \in 1..prev : attempts[i].exec # "none"}
    IN  rows # {} =>
            \E base \in reported :
                /\ \A i \in reported : i <= base
                /\ \A i \in rows :
                      \/ attempts[i].valid = "failed" /\ (i <= base \/ i = extra)
                      \/ /\ attempts[i].valid = "warned" /\ i <= base
                         /\ attempts[base].exec = "rolled_back"
                         /\ attempts[base].state = "failed"

(* A completed rollback of this very attempt's baseline.                   *)
RestoredFor(i) ==
    \E k \in Keys : /\ rollbacks[k].completed /\ rollbacks[k].state = "succeeded"
                    /\ attempts[rollbacks[k].attempt].plan = task.plan
                    /\ \/ rollbacks[k].attempt = i
                       \/ attempts[i].reconciled

RolledBackEvidence(prev) ==
    \/ attempts[prev].exec = "rolled_back"
    \/ /\ attempts[prev].exec = "none" /\ attempts[prev].state = "failed"
       /\ ~attempts[prev].artifact
       /\ RestoredFor(prev)
       /\ \A i \in DOMAIN attempts : attempts[i].exec \in {"none", "rolled_back"}

WorkerEnded ==
    \/ latest \in {"completed", "failed"}
    \/ latest = "none" /\ ~task.fresh /\ Latest.state \in {"completed", "failed", "interrupted"}

(* retry: everything it inspects before its transaction.                   *)
InspectRollback(c) ==
    \E k \in Keys :
        /\ ArrivesAmid(c, ReconcileSteps)
        /\ Len(attempts) \in 1..(MaxAttempts - 1)
        /\ ~KeyUsed(k)
        /\ task.status = "rolled_back"
        /\ Loadable(task.plan)
        /\ ValidationsAllow(Len(attempts), 0)
        /\ RolledBackEvidence(Len(attempts))
        /\ WorkerEnded
        /\ worktree.state = "cleaned" /\ worktree.plan = task.plan
        /\ Holding(c, "retry", None, task.plan, k)
        /\ UNCHANGED <<record, process, worktree>>

\* mutant: a rolled-back report is enough, whether or not its attempt ended
BeginRetryRunning(c) ==
    LET p == callers[c].plan
        k == callers[c].key
    IN  /\ At(c, "retry")
        /\ IF /\ ~KeyUsed(k)
              /\ Len(attempts) < MaxAttempts
              /\ task.status = "rolled_back" /\ task.plan = p /\ ExplicitlyApproved(p)
              /\ RolledBackEvidence(Len(attempts))
              /\ claim.exec \in {None, Len(attempts)}
           THEN Admitted("retry", p, k) /\ Dispatching(c) /\ task' = Moved("executing")
           ELSE UNCHANGED <<task, attempts, claim>> /\ Returns(c)
        /\ UNCHANGED <<approvals, plans, rollbacks, process, worktree>>

BeginRolledBackRetry(c) ==
    LET p == callers[c].plan
        k == callers[c].key
    IN  /\ At(c, "retry")
        /\ IF /\ ~KeyUsed(k)
              /\ Len(attempts) < MaxAttempts
              /\ task.status = "rolled_back" /\ task.plan = p /\ ExplicitlyApproved(p)
              /\ Latest.state \in {"completed", "failed"}
              /\ RolledBackEvidence(Len(attempts))
              /\ claim.exec \in {None, Len(attempts)}
           THEN Admitted("retry", p, k) /\ Dispatching(c) /\ task' = Moved("executing")
           ELSE UNCHANGED <<task, attempts, claim>> /\ Returns(c)
        /\ UNCHANGED <<approvals, plans, rollbacks, process, worktree>>

Retry(c) == InspectRollback(c) \/ BeginRolledBackRetry(c)

----------------------------------------------------------------------------
(* reconcile_validation_failure: the owner's rollback after a worker died  *)
(* in validation or repair.                                                *)

WorkerTerminated ==
    \/ latest = "failed"
    \/ /\ latest = "none" /\ ~task.fresh /\ attempts # <<>>
       /\ task.status = "executing" \/ Latest.state \in {"completed", "failed", "interrupted"}

Reconciles(c, pc, k) ==
    callers' = [callers EXCEPT ![c] =
        [pc |-> pc, seen |-> task.status, plan |-> task.plan, attempt |-> Len(attempts),
         key |-> k, restored |-> rollbacks[k].restored]]

InspectFailedValidation(c) ==
    \E k \in Keys :
        /\ ArrivesAmid(c, ReconcileSteps \cup AdmissionSteps)
        /\ attempts # <<>>
        /\ ~rollbacks[k].completed /\ ~rollbacks[k].shadowed
        /\ task.status \in {"validating", "reviewing", "recovery_required"}
        /\ task.approval = "explicitly_approved"
        /\ Latest.plan = task.plan /\ Latest.state = "failed"
        /\ task.validated
        /\ WorkerTerminated
        /\ claim.exec = None
        /\ Latest.exec = "none"
        /\ \A i \in DOMAIN attempts : attempts[i].exec \in {"none", "rolled_back"}
        /\ ~Latest.artifact \/ \A i \in DOMAIN attempts : attempts[i].valid = "none"
        /\ ValidationsAllow(Len(attempts) - 1, Len(attempts))
        /\ worktree.state \in {"executing", "validating", "recovery_required"}
        /\ worktree.plan = task.plan
        /\ rollbacks[k].state # "none" => rollbacks[k].attempt = Len(attempts)
        /\ \A o \in Keys \ {k} :              \* no rollback of another operation
              rollbacks[o].attempt = Len(attempts) =>
                  rollbacks[o].state \notin {"failed", "succeeded"}
        /\ Reconciles(c, IF rollbacks[k].state = "none" THEN "start" ELSE "resume", k)
        /\ UNCHANGED <<record, process, worktree>>

(* A call that finds its own restore recorded and the task already final.  *)
ResumeFinishedRollback(c) ==
    \E k \in Keys :
        /\ ArrivesAmid(c, ReconcileSteps \cup AdmissionSteps)
        /\ task.status = "rolled_back"
        /\ rollbacks[k].restored /\ ~rollbacks[k].completed /\ ~rollbacks[k].shadowed
        /\ worktree.state # "cleaned" => worktree.plan = task.plan
        /\ Reconciles(c, "clean", k)
        /\ UNCHANGED <<record, process, worktree>>

(* The started event is written, then the ledger's row; the row is unique  *)
(* for its key, and an event without a row shadows the row's own event.    *)
StartRollback(c) ==
    LET k == callers[c].key
    IN  /\ At(c, "start") \/ At(c, "resume")
        /\ IF callers[c].pc = "start" /\ rollbacks[k].state # "none"
           THEN /\ rollbacks' = [rollbacks EXCEPT ![k].shadowed = TRUE]
                /\ Returns(c)
           ELSE /\ rollbacks' = [rollbacks EXCEPT ![k].state = "executing",
                                                  ![k].attempt = callers[c].attempt]
                /\ Goto(c, IF callers[c].seen = "recovery_required" THEN "isolate"
                           ELSE "require")
        /\ UNCHANGED <<task, approvals, plans, claim, attempts, process, worktree>>

RequireRecovery(c) ==
    /\ At(c, "require")
    /\ task' = MovedIfAllowed("recovery_required")
    /\ NextOrReturn(c, CanMoveTo("recovery_required"), "isolate")
    /\ UNCHANGED <<approvals, plans, claim, attempts, rollbacks, process, worktree>>

\* mutant: an operation already on record counts as restored
IsolateResumed(c) ==
    /\ At(c, "isolate")
    /\ IF worktree.state = "cleaned" THEN UNCHANGED worktree /\ Returns(c)
       ELSE /\ worktree' = [worktree EXCEPT !.state = "recovery_required"]
            /\ Goto(c, IF worktree.state = "recovery_required" THEN "rolled" ELSE "restore")
    /\ UNCHANGED <<record, process>>

IsolateForRecovery(c) ==
    /\ At(c, "isolate")
    /\ IF worktree.state = "cleaned" THEN UNCHANGED worktree /\ Returns(c)
       ELSE /\ worktree' = [worktree EXCEPT !.state = "recovery_required"]
            /\ Goto(c, "restore")
    /\ UNCHANGED <<record, process>>

(* The transactional restore succeeds, leaves the operation failed, or     *)
(* raises; one that the call read as recorded is not repeated.             *)
RestoreBaseline(c) ==
    LET k == callers[c].key
    IN  /\ At(c, "restore")
        /\ \/ /\ worktree' = [worktree EXCEPT !.dirty = @ /\ callers[c].restored]
              /\ rollbacks' = [rollbacks EXCEPT ![k].restored = TRUE,
                                                ![k].state = "succeeded"]
              /\ Goto(c, "rolled")
           \/ /\ ~callers[c].restored
              /\ rollbacks' \in {rollbacks, [rollbacks EXCEPT ![k].state = "failed"]}
              /\ Returns(c)
              /\ UNCHANGED worktree
        /\ UNCHANGED <<task, approvals, plans, claim, attempts, process>>

MarkRolledBack(c) ==
    /\ At(c, "rolled")
    /\ IF worktree.state = "cleaned" THEN UNCHANGED worktree /\ Returns(c)
       ELSE /\ worktree' = [worktree EXCEPT !.state = "rolled_back"]
            /\ Goto(c, "finalize")
    /\ UNCHANGED <<record, process>>

FinalizeRollback(c) ==
    /\ At(c, "finalize")
    /\ task' = MovedIfAllowed("rolled_back")
    /\ NextOrReturn(c, CanMoveTo("rolled_back"), "clean")
    /\ UNCHANGED <<approvals, plans, claim, attempts, rollbacks, process, worktree>>

CleanRolledBack(c) ==
    LET k == callers[c].key
        refused == /\ callers[c].seen # "rolled_back"
                   /\ worktree.state \in {"executing", "validating", "recovery_required"}
    IN  /\ At(c, "clean")
        /\ IF refused
           THEN UNCHANGED <<worktree, rollbacks>>
           ELSE /\ worktree' = [worktree EXCEPT !.state = "cleaned", !.dirty = FALSE]
                /\ rollbacks' = [rollbacks EXCEPT ![k].state = "succeeded",
                                                  ![k].completed = TRUE]
        /\ Returns(c)
        /\ UNCHANGED <<task, approvals, plans, claim, attempts, process>>

(* The other branch: a retry that failed before it left any artifact goes  *)
(* back to the rollback that preceded it.                                  *)
FailedRetrySetup(p) ==
    /\ task.status = "executing" /\ task.plan = p
    /\ task.approval = "explicitly_approved"
    /\ attempts # <<>>
    /\ Latest.kind = "retry" /\ Latest.state = "failed" /\ Latest.plan = p
    /\ ~Latest.artifact
    /\ \E k \in Keys : rollbacks[k].completed /\ rollbacks[k].attempt < Len(attempts)

InspectFailedRetrySetup(c) ==
    /\ Arrives(c)
    /\ FailedRetrySetup(task.plan)
    /\ WorkerTerminated
    /\ claim.exec = None
    /\ worktree.state = "cleaned" /\ worktree.plan = task.plan
    /\ callers' = [callers EXCEPT ![c] = [Idle EXCEPT !.pc = "reconcile", !.plan = task.plan,
                                                     !.attempt = Len(attempts)]]
    /\ UNCHANGED <<record, process, worktree>>

ReconcileFailedRetrySetup(c) ==
    LET sound == /\ FailedRetrySetup(callers[c].plan)
                 /\ callers[c].attempt = Len(attempts)
                 /\ ExecutionFree
                 /\ Latest.exec = "none"
                 /\ \A i \in 1..(Len(attempts) - 1) :
                       /\ attempts[i].state \in {"failed", "interrupted"}
                       /\ attempts[i].exec \in {"none", "rolled_back"}
    IN  /\ At(c, "reconcile")
        /\ IF sound
           THEN /\ task' = Moved("rolled_back")
                /\ claim' = [claim EXCEPT !.exec = None, !.execLapsed = FALSE]
                /\ attempts' = [attempts EXCEPT ![Len(attempts)].reconciled = TRUE]
           ELSE UNCHANGED <<task, claim, attempts>>
        /\ Returns(c)
        /\ UNCHANGED <<approvals, plans, rollbacks, process, worktree>>

Reconciliation(c) ==
    \/ InspectFailedValidation(c) \/ ResumeFinishedRollback(c) \/ StartRollback(c)
    \/ RequireRecovery(c) \/ IsolateForRecovery(c) \/ RestoreBaseline(c)
    \/ MarkRolledBack(c) \/ FinalizeRollback(c) \/ CleanRolledBack(c)
    \/ InspectFailedRetrySetup(c) \/ ReconcileFailedRetrySetup(c)

----------------------------------------------------------------------------
(* The worker: code_agent.main on the apply path, one future at a time.    *)

Mine == jobs[1].attempt
MyPlan == attempts[Mine].plan

WorkerAt(pc) == worker.pc = pc /\ UNCHANGED <<callers, spent>>
WorkerGoto(pc) == worker' = [worker EXCEPT !.pc = pc]
Fails == worker' = [IdleWorker EXCEPT !.pc = "exit"]

MayRun ==
    /\ Loadable(MyPlan)
    /\ \/ task.status = "approved"
       \/ /\ task.status = "executing"
          /\ attempts[Mine].kind \in {"recovery", "retry"}
          /\ attempts[Mine].state = "running"
          /\ claim.exec = Mine /\ ~claim.execLapsed

LoadPlan ==
    /\ WorkerAt("idle") /\ jobs # <<>>
    /\ \/ MayRun /\ WorkerGoto("setup")
       \/ Fails                                    \* or the repository moved on
    /\ UNCHANGED <<record, jobs, latest, worktree>>

(* A recovery reuses the interrupted worktree if it is still clean, any    *)
(* other attempt creates its own; a set-up that fails later removes it.    *)
SetUpWorktree ==
    LET recovering == attempts[Mine].kind = "recovery"
        usable == IF recovering
                  THEN worktree.state = "executing" /\ InterruptedIsClean(MyPlan)
                  ELSE worktree.state \in {"none", "cleaned"}
        ready == [state |-> "executing", dirty |-> FALSE, plan |-> MyPlan]
    IN  /\ WorkerAt("setup")
        /\ \/ ~usable /\ Fails /\ UNCHANGED worktree
           \/ usable /\ worktree' = (IF recovering THEN worktree ELSE ready)
                     /\ WorkerGoto("mark")
           \/ usable /\ worktree' = (IF recovering THEN worktree
                                     ELSE [ready EXCEPT !.state = "cleaned"])
                     /\ Fails
        /\ UNCHANGED <<record, jobs, latest>>

(* _mark_execution_started logs what it could not write and goes on.       *)
MarkExecutionStarted ==
    /\ WorkerAt("mark")
    /\ IF task.status \in ApprovalStates /\ task.plan = MyPlan
       THEN /\ approvals' = [approvals EXCEPT ![MyPlan] = "explicitly_approved"]
            /\ task' = [Moved("executing") EXCEPT !.approval = "explicitly_approved"]
       ELSE /\ UNCHANGED approvals
            /\ task' = IF task.status = "approved" THEN Moved("executing") ELSE task
    /\ WorkerGoto("edit")
    /\ UNCHANGED <<plans, claim, attempts, rollbacks, jobs, latest, worktree>>

(* The tool loop: it completes, runs out of budget, meets a tool error,    *)
(* sees the cancellation, or raises.                                       *)
Edit ==
    /\ WorkerAt("edit")
    /\ \E dirty \in {worktree.dirty, TRUE} : worktree' = [worktree EXCEPT !.dirty = dirty]
    /\ \/ \E result \in {"complete", "stopped"}
                         \cup (IF worker.again THEN {} ELSE {"tool_error"})
                         \cup (IF task.cancel THEN {"cancelled"} ELSE {}) :
             worker' = [worker EXCEPT !.result = result,
                           !.pc = CASE result = "tool_error" -> "decide"
                                    [] worker.again -> "validate"
                                    [] OTHER -> "check"]
       \/ Fails
    /\ UNCHANGED <<record, jobs, latest>>

CheckCancelled ==
    LET cancelled == worker.result = "cancelled" \/ task.cancel
    IN  /\ WorkerAt("check")
        /\ worker' = [worker EXCEPT !.cancelled = cancelled, !.passed = FALSE,
                          !.pc = IF cancelled THEN "decide" ELSE "validate"]
        /\ UNCHANGED <<record, jobs, latest, worktree>>

MarkValidationStarted ==
    /\ WorkerAt("validate")
    /\ task' = IF task.status = "executing" THEN Moved("validating") ELSE task
    /\ WorkerGoto(IF task.status = "executing" THEN "isolate" ELSE "checks")
    /\ UNCHANGED <<approvals, plans, claim, attempts, rollbacks, jobs, latest, worktree>>

MarkWorktreeValidating ==
    /\ WorkerAt("isolate")
    /\ worktree' = IF worktree.state = "executing"
                   THEN [worktree EXCEPT !.state = "validating"] ELSE worktree
    /\ WorkerGoto("checks")
    /\ UNCHANGED <<record, jobs, latest>>

(* The checks, with their bounded repair.                                  *)
Validate ==
    /\ WorkerAt("checks")
    /\ \E dirty \in {worktree.dirty, TRUE} : worktree' = [worktree EXCEPT !.dirty = dirty]
    /\ \/ \E passed \in BOOLEAN :
             worker' = [worker EXCEPT !.passed = passed, !.pc = "index"]
       \/ Fails
    /\ UNCHANGED <<record, jobs, latest>>

(* ArtifactImporter._advance: a report moves an unfinished task to its     *)
(* phase; one whose plan is not the task's is refused and logged.          *)
Importable == task.plan = MyPlan
Advanced(phase) ==
    CASE task.status \in Terminal -> task
      [] task.status \in {"created", "planning", "awaiting_approval",
                          "reapproval_required", "approved"} ->
             [Moved(phase) EXCEPT !.approval = IF task.status = "approved" THEN @
                                               ELSE "historical_execution_evidence"]
      [] task.status = "executing" -> Moved(phase)
      [] OTHER -> task
HistoricalApproval ==
    approvals' = IF task.status \in {"created", "planning", "awaiting_approval",
                                     "reapproval_required"}
                 THEN [approvals EXCEPT ![MyPlan] = "historical_execution_evidence"]
                 ELSE approvals

(* The validation report is imported; one more tool loop may follow when   *)
(* the first ran out of budget.                                            *)
ImportValidation ==
    LET advanced == Advanced("validating")
        before == attempts[Mine].valid
        verdicts == CASE before = "passed" -> {"passed"}
                      [] before # "passed" /\ worker.passed -> {"passed", "warned"}
                      [] before = "warned" /\ ~worker.passed -> {"warned"}
                      [] OTHER -> {"failed"}
    IN  /\ WorkerAt("index")
        /\ IF Importable
           THEN /\ \E v \in verdicts : attempts' = [attempts EXCEPT ![Mine].valid = v]
                /\ task' = IF advanced.status = "validating"
                           THEN [advanced EXCEPT !.status = "reviewing", !.fresh = TRUE]
                           ELSE advanced
                /\ HistoricalApproval
           ELSE UNCHANGED <<attempts, task, approvals>>
        /\ \/ WorkerGoto("decide")
           \/ /\ worker.result = "stopped" /\ ~worker.again /\ ~task.cancel
              /\ worker' = [worker EXCEPT !.pc = "edit", !.again = TRUE]
        /\ UNCHANGED <<plans, claim, rollbacks, jobs, latest, worktree>>

(* Success leaves the edits for review; anything else, and a diff that is  *)
(* no longer the reviewed one, is rolled back; git may fail.               *)
Decide ==
    LET cancelled == worker.result # "tool_error" /\ (worker.cancelled \/ task.cancel)
        success == worker.result = "complete" /\ worker.passed /\ ~cancelled
    IN  /\ WorkerAt("decide")
        /\ \/ \E outcome \in IF success THEN {"review_required", "rolled_back"}
                             ELSE {IF cancelled THEN "cancelled_rolled_back"
                                   ELSE "rolled_back"} :
                /\ worker' = [IdleWorker EXCEPT !.pc = "persist", !.outcome = outcome,
                                      !.ok = success, !.cancelled = cancelled]
                /\ worktree' = IF outcome = "review_required" THEN worktree
                               ELSE [worktree EXCEPT !.dirty = FALSE]
           \/ Fails /\ UNCHANGED worktree
        /\ UNCHANGED <<record, jobs, latest>>

(* The execution report is imported with the status its outcome implies.   *)
PersistExecution ==
    LET advanced == Advanced("executing")
        implied == CASE worker.outcome = "rolled_back" -> {"rolled_back"}
                     [] worker.outcome = "cancelled_rolled_back" -> {"cancelled"}
                     [] OTHER -> {}
    IN  /\ WorkerAt("persist")
        /\ IF Importable
           THEN /\ attempts' = [attempts EXCEPT
                      ![Mine].exec = worker.outcome,
                      ![Mine].artifact = @ \/ attempts[Mine].state = "running"]
                /\ task' = IF implied \cap ALLOWED_TRANSITIONS[advanced.status] = {}
                           THEN advanced
                           ELSE [advanced EXCEPT !.status = CHOOSE s \in implied : TRUE,
                                                 !.fresh = TRUE]
                /\ HistoricalApproval
           ELSE UNCHANGED <<attempts, task, approvals>>
        /\ WorkerGoto("record")
        /\ UNCHANGED <<plans, claim, rollbacks, jobs, latest, worktree>>

(* _finalize_execution_history leaves a terminal task alone and logs a     *)
(* refused transition.                                                     *)
FinalizeHistory ==
    LET final == CASE worker.ok -> "succeeded"
                   [] ~worker.ok /\ worker.cancelled -> "cancelled"
                   [] OTHER -> "rolled_back"
        reviewed == IF worker.ok /\ task.status = "validating" THEN "reviewing"
                    ELSE task.status
    IN  /\ WorkerAt("record")
        /\ task' = IF final \in ALLOWED_TRANSITIONS[reviewed] THEN Moved(final)
                   ELSE IF reviewed # task.status THEN Moved(reviewed) ELSE task
        /\ WorkerGoto("clean")
        /\ UNCHANGED <<approvals, plans, claim, attempts, rollbacks, jobs, latest, worktree>>

LeaveWorktree ==
    /\ WorkerAt("clean")
    /\ worktree' = IF worker.ok THEN [worktree EXCEPT !.state = "promotion_ready"]
                   ELSE [worktree EXCEPT !.state = "cleaned", !.dirty = FALSE]
    /\ worker' = [IdleWorker EXCEPT !.pc = "exit", !.ok = worker.ok]
    /\ UNCHANGED <<record, jobs, latest>>

(* The future is done and its callbacks finish the attempts.               *)
CompleteFuture ==
    /\ WorkerAt("exit")
    /\ FinishAttempts(jobs[1].calls, ~worker.ok)
    /\ jobs' = Tail(jobs) /\ worker' = IdleWorker
    /\ latest' = IF Len(jobs) > 1 THEN latest ELSE IF worker.ok THEN "completed" ELSE "failed"
    /\ UNCHANGED <<task, approvals, plans, rollbacks, worktree>>

Worker ==
    \/ LoadPlan \/ SetUpWorktree \/ MarkExecutionStarted \/ Edit \/ CheckCancelled
    \/ MarkValidationStarted \/ MarkWorktreeValidating \/ Validate \/ ImportValidation
    \/ Decide \/ PersistExecution \/ FinalizeHistory \/ LeaveWorktree \/ CompleteFuture

----------------------------------------------------------------------------
(* Time and crashes.                                                       *)

PlanningSteps == {"idle", "plan_check", "generate", "attach", "replace", "stale",
                  "planned", "release"}

(* A lease runs out: the planner's while it waits for the model, the       *)
(* execution's (a day) while no owner request is under way.                *)
LeaseLapses ==
    /\ EventLeft /\ spent.lapses < MaxLapses
    /\ \/ /\ \E c \in Callers : claim.plan = c /\ callers[c].pc = "generate"
          /\ ~claim.planLapsed
          /\ spent' = [spent EXCEPT !.lapses = @ + 1]
          /\ claim' = [claim EXCEPT !.planLapsed = TRUE]
       \/ /\ claim.exec # None /\ ~claim.execLapsed
          /\ \A c \in Callers : callers[c].pc \in PlanningSteps
          /\ claim' = [claim EXCEPT !.execLapsed = TRUE]
          /\ spent' = [spent EXCEPT !.lapses = @ + 1, !.expired = TRUE]
    /\ UNCHANGED <<task, approvals, plans, attempts, rollbacks, process, worktree, callers>>

ProcessRestarts ==
    /\ EventLeft /\ spent.restarts < MaxRestarts
    /\ spent' = [spent EXCEPT !.restarts = @ + 1]
    /\ jobs' = <<>> /\ latest' = "none" /\ worker' = IdleWorker
    /\ callers' = [c \in Callers |-> Idle]
    /\ task' = [task EXCEPT !.fresh = FALSE]
    /\ claim' = IF claim.plan = None THEN claim ELSE [claim EXCEPT !.planLapsed = TRUE]
    /\ UNCHANGED <<approvals, plans, attempts, rollbacks, worktree>>

Next ==
    \/ \E c \in Callers : \/ Planning(c) \/ Approval(c) \/ Cancellation(c) \/ Execution(c)
                          \/ Recovery(c) \/ Retry(c) \/ Reconciliation(c)
    \/ Worker
    \/ LeaseLapses \/ ProcessRestarts

Spec == Init /\ [][Next]_vars

----------------------------------------------------------------------------
(* Properties.                                                             *)

Outcomes == {"review_required", "rolled_back", "cancelled_rolled_back"}
WorktreeStates == {"none", "executing", "validating", "recovery_required",
                   "rolled_back", "cleaned", "promotion_ready"}

(* Types of every row and record of the task's lifecycle, as the tables of *)
(* history/store.py and the worktree's metadata declare them.              *)
TypeOK ==
    /\ task \in [status : Statuses, plan : Plans \cup {None},
                 approval : {"unknown", "automatic", "review", "stale",
                             "explicitly_approved", "historical_execution_evidence"},
                 cancel : BOOLEAN, fresh : BOOLEAN, validated : BOOLEAN]
    /\ approvals \in [Plans -> {"none", "explicitly_approved",
                                "historical_execution_evidence"}]
    /\ plans \in [rows : SUBSET Plans, file : Plans \cup {None}]
    /\ claim \in [plan : Callers \cup {None}, planLapsed : BOOLEAN,
                  exec : Callers \cup {None} \cup 1..MaxAttempts, execLapsed : BOOLEAN]
    /\ Len(attempts) <= MaxAttempts
    /\ \A i \in DOMAIN attempts :
          attempts[i] \in [kind : {"initial", "recovery", "retry"},
                           state : {"running", "completed", "failed"},
                           plan : Plans, key : Keys \cup {None},
                           exec : Outcomes \cup {"none"},
                           valid : {"none", "failed", "warned", "passed"},
                           artifact : BOOLEAN, reconciled : BOOLEAN]
    /\ worktree \in [state : WorktreeStates, dirty : BOOLEAN, plan : Plans \cup {None}]
    /\ \A n \in DOMAIN jobs : jobs[n].attempt \in jobs[n].calls /\ jobs[n].calls \subseteq DOMAIN attempts
    /\ latest \in {"none", "running", "completed", "failed"}
    /\ jobs = <<>> => worker.pc = "idle" /\ latest # "running"
    /\ rollbacks \in [Keys -> [state : {"none", "executing", "failed", "succeeded"},
                               attempt : 0..MaxAttempts, restored : BOOLEAN,
                               completed : BOOLEAN, shadowed : BOOLEAN]]

Editing == worker.pc \in {"edit", "check", "validate", "isolate", "checks", "index", "decide"}

(* load_approved_plan, the claim and the executor's checks together: the   *)
(* worker edits only under a plan that the owner approved explicitly.      *)
(* Once the run's own report is in, its import may have put evidence of    *)
(* the execution in the approval's place (a stale plan's reapproval).      *)
ReportIsIn == worker.again \/ worker.pc = "decide"
OnlyApprovedPlansAreEdited ==
    Editing => \/ approvals[MyPlan] = "explicitly_approved"
               \/ ReportIsIn /\ approvals[MyPlan] = "historical_execution_evidence"

(* WorktreeManager.create and _interrupted_worktree_is_clean: an attempt   *)
(* never inherits the edits of an earlier one, in its own plan's worktree. *)
EveryAttemptStartsClean ==
    [][worker.pc = "setup" /\ worker'.pc = "mark" =>
         /\ worktree'.state = "executing" /\ ~worktree'.dirty
         /\ worktree'.plan = MyPlan]_vars

(* The execution claim: until the day of its lease runs out, one live      *)
(* future for the task, and the claim held by an attempt that reports to   *)
(* it.                                                                     *)
LiveWorkerHoldsClaim ==
    ~spent.expired => /\ Len(jobs) <= 1
                      /\ jobs # <<>> => claim.exec \in jobs[1].calls

(* finish_execution_attempt: no claim outlives its attempt's end.          *)
ClaimEndsWithAttempt ==
    claim.exec \in DOMAIN attempts => attempts[claim.exec].state = "running"

(* The importer, the worker, the owner's rollback and the dispatch all set *)
(* ROLLED_BACK: whoever did, the worktree holds none of the task's edits,  *)
(* unless a reconciliation overlapped another one, a recovery or a retry,  *)
(* or a refused retry was undone under the attempt that came after it.     *)
RolledBackIsRestored ==
    task.status = "rolled_back" /\ ~spent.overlapped => ~worktree.dirty

(* A succeeded task's worktree is kept for its promotion.                  *)
CompletedWorkIsKept ==
    task.status = "succeeded" /\ ~spent.overlapped =>
        worktree.state \notin {"none", "cleaned", "rolled_back"}

(* ALLOWED_TRANSITIONS and the importer: a terminal status is final but    *)
(* for the owner's retry, which brings a new attempt.                      *)
TerminalIsFinal ==
    [][task.status \in Terminal /\ task'.status # task.status =>
         /\ task.status = "rolled_back" /\ task'.status = "executing"
         /\ Len(attempts') = Len(attempts) + 1 /\ attempts'[Len(attempts')].kind = "retry"]_vars

(* begin_rolled_back_retry, with its inspection long before: a retry is    *)
(* admitted only while no worker is live and no edit of one is left.       *)
RetryStartsFromRollback ==
    [][Len(attempts') > Len(attempts) /\ attempts'[Len(attempts')].kind = "retry" =>
         jobs = <<>> /\ (worktree.dirty => spent.overlapped)]_vars
============================================================================
