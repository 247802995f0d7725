----------------------------- MODULE Objectives -----------------------------
(* The owner's objectives: autonomy/service.py (ObjectiveService) with the    *)
(* handlers of interface/api.py that call it, over the task history it        *)
(* delegates to.  One objective and the tasks reserved for it are modelled.   *)
(*                                                                            *)
(* A handler runs in a worker thread and reaches two databases in several     *)
(* transactions: it reads the objective, works on the canonical task, and     *)
(* writes the objective only if it is still what was read.  Planning holds    *)
(* the one planning lock of the process; every other handler may run in       *)
(* between, and the process may die.                                          *)
EXTENDS Integers, FiniteSets

CONSTANTS Handlers, MaxTasks, MaxPlans, MaxKills

ASSUME OBAssumption ==
    MaxTasks \in Nat \ {0} /\ MaxPlans \in Nat \ {0} /\ MaxKills \in Nat

VARIABLES goal,    \* the row of objectives: its state, task and plan
          tasks,   \* tasks[i], the row of the canonical task of reservation i
          reserved,\* identifiers generated so far
          plans,   \* plans generated so far; a plan is numbered
          planning,\* whether objective_plan_lock is held
          op,      \* op[h], how far the handler h is
          kills    \* deaths of the process so far

obVars == <<goal, tasks, reserved, plans, planning, op, kills>>

Ids == 1..MaxTasks
Free == [at |-> "free", seen |-> [state |-> "created", task |-> 0, plan |-> 0],
         id |-> 0, plan |-> 0]
AtStep(h, here) == op[h].at = here
\* The handler answers: it is done, whether it succeeded or was refused.
Replies(h) == op' = [op EXCEPT ![h] = Free]
RepliesAndUnlocks(h) == Replies(h) /\ planning' = FALSE
GoesTo(h, there) == op' = [op EXCEPT ![h] = there]
NoGoal == UNCHANGED goal
NoTask == UNCHANGED <<tasks, reserved, plans, kills>>

OBInit ==
    /\ goal = [state |-> "created", task |-> 0, plan |-> 0]
    /\ tasks = [i \in Ids |-> [status |-> "none", plan |-> 0, flag |-> FALSE,
                               claimed |-> FALSE, worker |-> FALSE]]
    /\ reserved = 0 /\ plans = 0 /\ planning = FALSE /\ kills = 0
    /\ op = [h \in Handlers |-> Free]

NotStarted == {"planning", "awaiting_approval", "approved", "reapproval_required"}
TaskMoves(i, to) == tasks' = [tasks EXCEPT ![i].status = to]
\* plan_hash_for_task: only a plan that waits for approval or has it.
HashFor(i) == IF tasks[i].status \in {"awaiting_approval", "approved"}
              THEN tasks[i].plan ELSE 0

\* Mutants: the condition of the write leaves out the state, or the binding.
SameBindingOnly(h) == goal.task = op[h].seen.task /\ goal.plan = op[h].seen.plan
SameStateOnly(h) == goal.state = op[h].seen.state
\* The write's condition: state, task and plan are those the handler read.
StillAsRead(h) == goal = op[h].seen

(* ------------------------------- resume ---------------------------------- *)

Resume(h) ==
    /\ AtStep(h, "free") /\ goal.state # "cancelled"
    /\ GoesTo(h, [Free EXCEPT !.at = "resume", !.seen = goal])
    /\ UNCHANGED planning /\ NoGoal /\ NoTask
WriteResumed(h) ==
    /\ AtStep(h, "resume")
    /\ goal' = IF StillAsRead(h) THEN [goal EXCEPT !.state = "planning"] ELSE goal
    /\ Replies(h) /\ UNCHANGED planning /\ NoTask

(* ----------------------------- request_plan ------------------------------ *)

AskForPlan(h) ==
    /\ AtStep(h, "free") /\ ~planning /\ goal.state = "planning"
    /\ planning' = TRUE
    /\ IF goal.task # 0
       THEN /\ GoesTo(h, [Free EXCEPT !.at = "make", !.id = goal.task])
            /\ UNCHANGED reserved
       ELSE /\ reserved < MaxTasks /\ reserved' = reserved + 1
            /\ GoesTo(h, [Free EXCEPT !.at = "reserve", !.id = reserved + 1])
    /\ NoGoal /\ UNCHANGED <<tasks, plans, kills>>

\* UPDATE ... WHERE state='planning' AND task_id IS NULL.
Reserve(h) ==
    /\ AtStep(h, "reserve")
    /\ goal' = IF goal.state = "planning" /\ goal.task = 0
               THEN [goal EXCEPT !.task = op[h].id] ELSE goal
    /\ GoesTo(h, [op[h] EXCEPT !.at = "reread"])
    /\ UNCHANGED planning /\ NoTask
RereadReservation(h) ==
    /\ AtStep(h, "reread")
    /\ IF goal.state = "planning" /\ goal.task # 0
       THEN GoesTo(h, [op[h] EXCEPT !.at = "make", !.id = goal.task])
            /\ UNCHANGED planning
       ELSE RepliesAndUnlocks(h)
    /\ NoGoal /\ NoTask

\* reserve_objective_task is idempotent: the row exists afterwards.
Materialized(i) == [tasks EXCEPT ![i].status = IF @ = "none" THEN "created" ELSE @]
MakeTask(h) ==
    /\ AtStep(h, "make")
    /\ tasks' = Materialized(op[h].id)
    /\ GoesTo(h, [op[h] EXCEPT !.at = "recheck"])
    /\ NoGoal /\ UNCHANGED <<reserved, plans, planning, kills>>
RecheckGoal(h) ==
    /\ AtStep(h, "recheck")
    /\ IF goal.state = "planning" /\ goal.task = op[h].id
       THEN GoesTo(h, [op[h] EXCEPT !.at = IF HashFor(op[h].id) # 0 THEN "hash"
                                           ELSE "generate"])
            /\ UNCHANGED planning
       ELSE RepliesAndUnlocks(h)
    /\ NoGoal /\ NoTask

\* gateway.request_plan: the claim and the check, then the model's inference,
\* then the plan is attached unless the task has left the planning states.
StartPlanning(h) ==
    /\ AtStep(h, "generate")
    /\ IF tasks[op[h].id].status \in {"created", "planning", "reapproval_required"}
       THEN /\ tasks' = [tasks EXCEPT ![op[h].id].status =
                            IF @ = "created" THEN "planning" ELSE @]
            /\ GoesTo(h, [op[h] EXCEPT !.at = "attach"])
            /\ UNCHANGED planning
       ELSE RepliesAndUnlocks(h) /\ UNCHANGED tasks
    /\ NoGoal /\ UNCHANGED <<reserved, plans, kills>>
AttachGenerated(h) ==
    /\ AtStep(h, "attach") /\ plans < MaxPlans
    /\ tasks[op[h].id].status \in {"planning", "reapproval_required"}
    /\ plans' = plans + 1
    /\ tasks' = [tasks EXCEPT ![op[h].id].plan = plans + 1]
    /\ GoesTo(h, [op[h] EXCEPT !.at = "ready"])
    /\ NoGoal /\ UNCHANGED <<reserved, planning, kills>>
\* The planner failed, or attach_plan refused a task cancelled meanwhile.
PlannerFails(h) ==
    /\ AtStep(h, "attach") /\ RepliesAndUnlocks(h)
    /\ NoGoal /\ NoTask
PlanIsReady(h) ==
    /\ AtStep(h, "ready")
    /\ IF tasks[op[h].id].status = "planning"
       THEN \E to \in {"awaiting_approval", "approved"} : TaskMoves(op[h].id, to)
       ELSE UNCHANGED tasks
    /\ GoesTo(h, [op[h] EXCEPT !.at = "hash"])
    /\ NoGoal /\ UNCHANGED <<reserved, plans, planning, kills>>

(* ------------------------------ bind_plan -------------------------------- *)

\* The owner names a task of the history, with the planning lock.
AskToBind(h) ==
    /\ AtStep(h, "free") /\ ~planning /\ planning' = TRUE
    /\ \E i \in Ids : /\ tasks[i].status # "none"
                      /\ GoesTo(h, [Free EXCEPT !.at = "hash", !.id = i])
    /\ NoGoal /\ NoTask
ReadHash(h) ==
    /\ AtStep(h, "hash")
    /\ IF HashFor(op[h].id) # 0
       THEN GoesTo(h, [op[h] EXCEPT !.at = "item", !.plan = HashFor(op[h].id)])
            /\ UNCHANGED planning
       ELSE RepliesAndUnlocks(h)
    /\ NoGoal /\ NoTask
MayBind(h) == /\ goal.state # "cancelled"
              /\ goal.task \in {0, op[h].id}
              /\ goal.plan \in {0, op[h].plan}
ReadObjectiveItem(h) ==
             /\ AtStep(h, "item")
             /\ IF MayBind(h)
                THEN GoesTo(h, [op[h] EXCEPT !.at = "bind", !.seen = goal]) /\ UNCHANGED planning
                ELSE RepliesAndUnlocks(h)
             /\ NoGoal /\ NoTask
WriteBinding(h) ==
    /\ AtStep(h, "bind")
    /\ goal' = IF StillAsRead(h)
               THEN [state |-> "planned", task |-> op[h].id, plan |-> op[h].plan]
               ELSE goal
    /\ RepliesAndUnlocks(h) /\ NoTask

(* ----------------------- rebind_unapproved_plan --------------------------- *)

\* Nothing in the program calls it yet: any handler may, without the planning lock.  The
\* objective and the task's state are read, then the task's plan, then the row is written.
AskToRebind(h) ==
    /\ AtStep(h, "free") /\ goal.state = "planned"
    /\ tasks[goal.task].status = "awaiting_approval"
    /\ GoesTo(h, [Free EXCEPT !.at = "revised", !.seen = goal, !.id = goal.task])
    /\ UNCHANGED planning /\ NoGoal /\ NoTask
ReadRevisedHash(h) ==
    /\ AtStep(h, "revised")
    /\ IF HashFor(op[h].id) \notin {0, op[h].seen.plan}
       THEN GoesTo(h, [op[h] EXCEPT !.at = "rebind", !.plan = HashFor(op[h].id)])
       ELSE Replies(h)
    /\ UNCHANGED planning /\ NoGoal /\ NoTask
WriteRebound(h) ==
    /\ AtStep(h, "rebind")
    /\ goal' = IF StillAsRead(h) THEN [goal EXCEPT !.plan = op[h].plan] ELSE goal
    /\ Replies(h) /\ UNCHANGED planning /\ NoTask

\* attach_plan by others (the importer, the command line): a task that has not started gets
\* a newer plan, and an approved one has to be approved again.
ReplanElsewhere(i) ==
    /\ plans < MaxPlans /\ plans' = plans + 1
    /\ tasks[i].status \in {"created"} \cup NotStarted
    /\ tasks' = [tasks EXCEPT ![i].plan = plans + 1,
                              ![i].status = IF @ = "approved" THEN "reapproval_required" ELSE @]
    /\ NoGoal /\ UNCHANGED <<reserved, planning, op, kills>>

(* -------------------------------- cancel --------------------------------- *)

Cancel(h) ==
    /\ AtStep(h, "free")
    /\ GoesTo(h, [Free EXCEPT !.at = IF goal.task = 0 THEN "cancelled" ELSE "recover",
                              !.seen = goal, !.id = goal.task])
    /\ UNCHANGED planning /\ NoGoal /\ NoTask
\* A reservation without a row is materialised before it is cancelled.
RecoverReservation(h) ==
    /\ AtStep(h, "recover")
    /\ tasks' = Materialized(op[h].id)
    /\ GoesTo(h, [op[h] EXCEPT !.at = "flag"])
    /\ NoGoal /\ UNCHANGED <<reserved, plans, planning, kills>>

\* TaskHistoryService.request_cancel: a task that is only created is not among
\* the cancellable ones, nor is one that has ended.
Cancellable(i) == tasks[i].status \in NotStarted \cup {"executing"}
FlagTask(h) ==
    /\ AtStep(h, "flag")
    /\ IF Cancellable(op[h].id)
       THEN /\ tasks' = [tasks EXCEPT ![op[h].id].flag = TRUE]
            /\ GoesTo(h, [op[h] EXCEPT !.at = IF tasks[op[h].id].status \in NotStarted
                                             THEN "stop" ELSE "cancelled"])
       ELSE GoesTo(h, [op[h] EXCEPT !.at = "refused"]) /\ UNCHANGED tasks
    /\ NoGoal /\ UNCHANGED <<reserved, plans, planning, kills>>
\* The transition is refused when the task has ended since it was flagged.
StopTask(h) ==
    /\ AtStep(h, "stop")
    /\ IF Cancellable(op[h].id)
       THEN TaskMoves(op[h].id, "cancelled") /\ GoesTo(h, [op[h] EXCEPT !.at = "cancelled"])
       ELSE UNCHANGED tasks /\ GoesTo(h, [op[h] EXCEPT !.at = "refused"])
    /\ NoGoal /\ UNCHANGED <<reserved, plans, planning, kills>>
RefuseCancel(h) ==
    /\ AtStep(h, "refused") /\ Replies(h)
    /\ UNCHANGED planning /\ NoGoal /\ NoTask
WriteCancelled(h) ==
    /\ AtStep(h, "cancelled")
    /\ goal' = IF StillAsRead(h) THEN [goal EXCEPT !.state = "cancelled"] ELSE goal
    /\ Replies(h) /\ UNCHANGED planning /\ NoTask

(* -------------------------- approval, execution --------------------------- *)

\* The approval handler compares both rows with the plan the owner saw and
\* records the approval of the task's plan.
ApprovePlan(h) ==
        /\ AtStep(h, "free") /\ goal.task # 0 /\ goal.plan # 0
        /\ tasks[goal.task].plan = goal.plan
        /\ tasks[goal.task].status \in {"awaiting_approval", "reapproval_required"}
        /\ GoesTo(h, [Free EXCEPT !.at = "approve", !.id = goal.task, !.plan = goal.plan])
        /\ UNCHANGED planning /\ NoGoal /\ NoTask
WriteApproved(h) ==
    /\ AtStep(h, "approve")
    /\ IF /\ tasks[op[h].id].status \in {"awaiting_approval", "reapproval_required"}
          /\ tasks[op[h].id].plan = op[h].plan
       THEN TaskMoves(op[h].id, "approved") ELSE UNCHANGED tasks
    /\ Replies(h) /\ NoGoal /\ UNCHANGED <<reserved, plans, planning, kills>>

Executable == /\ goal.state = "planned" /\ tasks[goal.task].status = "approved"
              /\ HashFor(goal.task) = goal.plan
Execute(h) ==
    /\ AtStep(h, "free") /\ Executable
    /\ GoesTo(h, [Free EXCEPT !.at = "admit", !.id = goal.task, !.plan = goal.plan])
    /\ UNCHANGED planning /\ NoGoal /\ NoTask
\* gateway.request_execution checks the task again and takes its claim.
Admissible(h) == /\ tasks[op[h].id].status = "approved"
                 /\ tasks[op[h].id].plan = op[h].plan
Admit(h) ==
    /\ AtStep(h, "admit")
    /\ IF Admissible(h) /\ ~tasks[op[h].id].claimed
       THEN tasks' = [tasks EXCEPT ![op[h].id].claimed = TRUE, ![op[h].id].worker = TRUE]
       ELSE UNCHANGED tasks
    /\ Replies(h) /\ NoGoal /\ UNCHANGED <<reserved, plans, planning, kills>>

\* The executor's worker: the transition to executing is refused once the task
\* was cancelled; a flag is heeded at a checkpoint, or the task ends first.
StartTask(i) ==
    /\ tasks[i].worker /\ tasks[i].status = "approved"
    /\ TaskMoves(i, "executing")
    /\ NoGoal /\ UNCHANGED <<reserved, plans, planning, op, kills>>
EndTask(i) ==
    /\ tasks[i].worker /\ tasks[i].status = "executing"
    /\ \E to \in {"ended", "rolled_back", "cancelled"} :
         /\ to = "cancelled" => tasks[i].flag
         /\ tasks' = [tasks EXCEPT ![i].status = to, ![i].worker = FALSE,
                                    ![i].claimed = FALSE]
    /\ NoGoal /\ UNCHANGED <<reserved, plans, planning, op, kills>>

\* recover_execution: an interrupted run of the exact bound plan goes on, as
\* long as the objective is still planned.
Interrupted == /\ tasks[goal.task].status = "executing"
               /\ tasks[goal.task].plan = goal.plan
Recover(h) ==
    /\ AtStep(h, "free") /\ goal.state = "planned" /\ Interrupted
    /\ GoesTo(h, [Free EXCEPT !.at = "recover run", !.id = goal.task, !.plan = goal.plan])
    /\ UNCHANGED planning /\ NoGoal /\ NoTask
ResumeRun(h) ==
    /\ AtStep(h, "recover run")
    /\ tasks' = [tasks EXCEPT ![op[h].id].worker =
                    @ \/ /\ goal.state = "planned"
                         /\ tasks[op[h].id].status = "executing"]
    /\ Replies(h) /\ NoGoal /\ UNCHANGED <<reserved, plans, planning, kills>>

\* retry_execution: a rolled-back run of the exact bound plan, while the objective is planned
\* (TaskExecutionRetryService); its transaction looks at the task again, not at the objective.
Retry(h) ==
    /\ AtStep(h, "free") /\ goal.state = "planned"
    /\ tasks[goal.task].status = "rolled_back" /\ tasks[goal.task].plan = goal.plan
    /\ GoesTo(h, [Free EXCEPT !.at = "retry", !.id = goal.task, !.plan = goal.plan])
    /\ UNCHANGED planning /\ NoGoal /\ NoTask
RetryRun(h) ==
    /\ AtStep(h, "retry")
    /\ tasks' = IF tasks[op[h].id].status = "rolled_back" /\ tasks[op[h].id].plan = op[h].plan
                THEN [tasks EXCEPT ![op[h].id].status = "executing", ![op[h].id].worker = TRUE,
                                   ![op[h].id].claimed = TRUE]
                ELSE tasks
    /\ Replies(h) /\ NoGoal /\ UNCHANGED <<reserved, plans, planning, kills>>

ProcessKilled ==
    /\ kills < MaxKills /\ kills' = kills + 1
    /\ op' = [h \in Handlers |-> Free] /\ planning' = FALSE
    /\ tasks' = [i \in Ids |-> [tasks[i] EXCEPT !.worker = FALSE]]
    /\ NoGoal /\ UNCHANGED <<reserved, plans>>

OBNext ==
    \/ \E h \in Handlers :
         \/ Resume(h) \/ WriteResumed(h)
         \/ AskForPlan(h) \/ Reserve(h) \/ RereadReservation(h) \/ MakeTask(h)
         \/ RecheckGoal(h) \/ StartPlanning(h) \/ AttachGenerated(h)
         \/ PlannerFails(h) \/ PlanIsReady(h)
         \/ AskToBind(h) \/ ReadHash(h) \/ ReadObjectiveItem(h) \/ WriteBinding(h)
         \/ Cancel(h) \/ RecoverReservation(h) \/ FlagTask(h) \/ StopTask(h)
         \/ RefuseCancel(h) \/ WriteCancelled(h)
         \/ ApprovePlan(h) \/ WriteApproved(h) \/ Execute(h) \/ Admit(h)
         \/ Recover(h) \/ ResumeRun(h) \/ Retry(h) \/ RetryRun(h)
         \/ AskToRebind(h) \/ ReadRevisedHash(h) \/ WriteRebound(h)
    \/ \E i \in Ids : StartTask(i) \/ EndTask(i) \/ ReplanElsewhere(i)
    \/ ProcessKilled

OBSpec == OBInit /\ [][OBNext]_obVars

(* ------------------------------ properties -------------------------------- *)

OBTypeOK ==
    /\ goal \in [state : {"created", "planning", "planned", "cancelled"},
                 task : 0..MaxTasks, plan : 0..MaxPlans]
    /\ tasks \in [Ids -> [status : {"none", "created", "ended", "rolled_back", "cancelled",
                                    "executing"}
                                      \cup NotStarted,
                          plan : 0..MaxPlans, flag : BOOLEAN, claimed : BOOLEAN,
                          worker : BOOLEAN]]
    /\ reserved \in 0..MaxTasks /\ plans \in 0..MaxPlans /\ kills \in 0..MaxKills
    /\ planning \in BOOLEAN
    /\ op \in [Handlers ->
         [at : {"free", "resume", "reserve", "reread", "make", "recheck", "generate",
                "attach", "ready", "hash", "item", "bind", "recover", "flag", "stop",
                "refused", "cancelled", "approve", "admit",
                "recover run", "retry", "revised", "rebind"},
          seen : [state : {"created", "planning", "planned", "cancelled"},
                  task : 0..MaxTasks, plan : 0..MaxPlans],
          id : 0..MaxTasks, plan : 0..MaxPlans]]

\* "Friday never reports a cancelled objective while leaving its linked task
\* runnable" (docs/architecture/autonomy.md): the task of a cancelled objective
\* is cancelled, or flagged for the executor that is running it
\* (ObjectiveService.cancel against request_plan, bind_plan and resume).
CancelledLeavesNothingRunnable ==
    goal.state = "cancelled" /\ goal.task # 0 =>
        LET t == tasks[goal.task]
        IN  t.status = "cancelled" \/ (t.flag /\ t.status \in {"executing", "ended", "rolled_back"})

\* A cancellation is never revived and the task of an objective never replaced, whatever a
\* handler that read the objective before them writes afterwards; its plan is replaced only
\* while the objective is planned, and only by a later plan of the same task (the conditional
\* UPDATEs of _transition, request_plan, bind_plan and rebind_unapproved_plan).
BindingAndCancelStand ==
    [][/\ goal.state = "cancelled" => goal'.state = "cancelled"
       /\ goal.task # 0 => goal'.task = goal.task
       /\ goal.plan \notin {0, goal'.plan} =>
            /\ goal.state = "planned" /\ goal'.state = "planned"
            /\ goal.plan < goal'.plan /\ goal'.plan <= tasks[goal.task].plan]_obVars

\* "Cancellation recovers an unmaterialized reservation before asking canonical
\* history to cancel it" (docs/architecture/autonomy.md): the reservation just
\* recovered can be cancelled.
RecoveredReservationIsCancellable ==
    \A h \in Handlers :
        AtStep(h, "refused") => tasks[op[h].id].status # "created"
=============================================================================
