--------------------------- MODULE Owner_proofs ---------------------------
(***************************************************************************)
(* Theorems about what the assistant keeps for its owner, for every value   *)
(* of the constants: Objectives, OwnerProjects, ProactiveEvents, OwnerMemory, *)
(* DocumentIndex and CodeIndex.                                              *)
(***************************************************************************)
EXTENDS OwnerProjects, OwnerMemory, Objectives, ProactiveEvents, DocumentIndex, CodeIndex,
        FiniteSetTheorems, SequenceTheorems, WellFoundedInduction, TLAPS

-----------------------------------------------------------------------------
(* Objectives: what a cancelled objective leaves behind                       *)

\* The task cannot begin any more: it is cancelled, or the executor that is
\* running it has its flag.
Stopped(t) == \/ t.status = "cancelled"
              \/ t.flag /\ t.status \in {"executing", "ended", "rolled_back"}

GoalShape(g) == /\ DOMAIN g = {"state", "task", "plan"}
                /\ g.task \in 0..MaxTasks

HandlerShape(o) == /\ DOMAIN o = {"at", "seen", "id", "plan"}
                   /\ GoalShape(o.seen) /\ o.id \in 0..MaxTasks
TaskShape(t) == DOMAIN t = {"status", "plan", "flag", "claimed", "worker"}

ObjectivesShape ==
  /\ GoalShape(goal) /\ reserved \in 0..MaxTasks
  /\ DOMAIN tasks = Ids /\ \A i \in Ids : TaskShape(tasks[i])
  /\ DOMAIN op = Handlers /\ \A h \in Handlers : HandlerShape(op[h])

\* How far a cancellation has brought the task of the objective it read.
CancelHolds(o, all) ==
  /\ o.at \in {"recover", "flag", "stop"} => o.id # 0
  /\ o.at \in {"recover", "flag", "stop", "cancelled"} => o.id = o.seen.task
  /\ o.at = "stop" => all[o.id].flag
  /\ o.at = "cancelled" /\ o.id # 0 => Stopped(all[o.id])

\* What a handler that will write the objective read before.
ReadingHolds(o) ==
  /\ o.at \in {"resume", "bind"} => o.seen.state # "cancelled"
  /\ o.at = "bind" => o.seen.task \in {0, o.id} /\ o.seen.plan \in {0, o.plan}
  /\ o.at \in {"make", "recheck", "generate", "attach", "ready", "hash"} => o.id # 0

ObjectivesHold ==
  /\ ObjectivesShape
  /\ \A h \in Handlers : CancelHolds(op[h], tasks) /\ ReadingHolds(op[h])
  /\ goal.state = "cancelled" /\ goal.task # 0 => Stopped(tasks[goal.task])

\* What every step does for the tasks: a flag is never taken back, and what is
\* stopped stays stopped.
TasksKept ==
  /\ DOMAIN tasks' = Ids /\ \A i \in Ids : TaskShape(tasks'[i])
  /\ \A i \in Ids : /\ tasks[i].flag => tasks'[i].flag
                    /\ Stopped(tasks[i]) => Stopped(tasks'[i])

LEMMA ObjectivesStart == OBInit => ObjectivesHold
BY OBAssumption DEF OBInit, ObjectivesHold, ObjectivesShape, GoalShape, HandlerShape, TaskShape,
   CancelHolds, ReadingHolds, Free, Ids

LEMMA OneTaskMoves ==
  ASSUME ObjectivesShape, NEW i \in 0..MaxTasks, NEW t, tasks' = [tasks EXCEPT ![i] = t],
         TaskShape(t),
         i \in Ids => (tasks[i].flag => t.flag) /\ (Stopped(tasks[i]) => Stopped(t))
  PROVE  TasksKept /\ (i \in Ids => tasks'[i] = t)
BY DEF ObjectivesShape, TasksKept

\* A step of one handler that leaves the objective alone.
LEMMA HandlerSteps ==
  ASSUME ObjectivesHold, TasksKept, NEW h \in Handlers, NEW o, op' = [op EXCEPT ![h] = o],
         HandlerShape(o), CancelHolds(o, tasks'), ReadingHolds(o),
         goal' = goal, reserved' \in 0..MaxTasks
  PROVE  ObjectivesHold'
<1> USE OBAssumption DEF Ids
<1>1. ObjectivesShape' BY DEF ObjectivesHold, ObjectivesShape, TasksKept
<1>2. ASSUME NEW k \in Handlers PROVE CancelHolds(op'[k], tasks') /\ ReadingHolds(op'[k])
  <2>1. CASE k = h BY <2>1 DEF ObjectivesHold, ObjectivesShape
  <2>2. CASE k # h
    <3>1. op'[k] = op[k] BY <2>2 DEF ObjectivesHold, ObjectivesShape
    <3>2. CancelHolds(op[k], tasks) /\ ReadingHolds(op[k]) /\ HandlerShape(op[k])
      BY DEF ObjectivesHold, ObjectivesShape
    <3>3. op[k].at \in {"recover", "flag", "stop"} \/ op[k].id # 0 => op[k].id \in Ids
      BY <3>2 DEF HandlerShape, CancelHolds
    <3>4. CancelHolds(op[k], tasks')
      BY <3>2, <3>3 DEF CancelHolds, TasksKept
    <3> QED BY <3>1, <3>2, <3>4
  <2> QED BY <2>1, <2>2
<1>3. goal.state = "cancelled" /\ goal.task # 0 => Stopped(tasks'[goal.task])
  BY DEF ObjectivesHold, ObjectivesShape, GoalShape, TasksKept
<1> QED BY <1>1, <1>2, <1>3 DEF ObjectivesHold

LEMMA FreeHandler ==
  ASSUME NEW all
  PROVE  HandlerShape(Free) /\ ReadingHolds(Free) /\ CancelHolds(Free, all)
BY OBAssumption DEF HandlerShape, ReadingHolds, CancelHolds, Free, GoalShape

LEMMA ObjectivesStep == ObjectivesHold /\ [OBNext]_obVars => ObjectivesHold'
<1> SUFFICES ASSUME ObjectivesHold, [OBNext]_obVars PROVE ObjectivesHold' OBVIOUS
<1>s. /\ GoalShape(goal) /\ reserved \in 0..MaxTasks
      /\ DOMAIN op = Handlers /\ DOMAIN tasks = Ids
      /\ \A i \in Ids : TaskShape(tasks[i])
      /\ \A h \in Handlers : /\ HandlerShape(op[h]) /\ CancelHolds(op[h], tasks)
                             /\ ReadingHolds(op[h])
  BY DEF ObjectivesHold, ObjectivesShape
<1>k. UNCHANGED tasks => TasksKept BY <1>s DEF TasksKept
<1> USE OBAssumption DEF AtStep, Replies, RepliesAndUnlocks, GoesTo, NoGoal, NoTask,
        StillAsRead, Ids
<1>0. CASE UNCHANGED obVars
  BY <1>0 DEF obVars,
     ObjectivesHold, ObjectivesShape, GoalShape, HandlerShape, TaskShape, CancelHolds, ReadingHolds,
     Stopped, Free
<1>1. ASSUME NEW h \in Handlers, Resume(h) PROVE ObjectivesHold'
  <2>1. TasksKept BY <1>1, <1>k DEF Resume
  <2>2. /\ op' = [op EXCEPT ![h] = op'[h]]
        /\ goal' = goal /\ reserved' \in 0..MaxTasks
    BY <1>1, <1>s DEF Resume
  <2>3. HandlerShape(op'[h]) /\ ReadingHolds(op'[h])
    BY <1>1, <1>s DEF Resume,
       Free, HandlerShape, GoalShape, ReadingHolds, CancelHolds
  <2>4. CancelHolds(op'[h], tasks')
    BY <1>1, <1>s, <2>1 DEF Resume,
       Free, HandlerShape, GoalShape, CancelHolds, ReadingHolds
  <2> QED BY <2>1, <2>2, <2>3, <2>4, HandlerSteps
<1>2. ASSUME NEW h \in Handlers, WriteResumed(h) PROVE ObjectivesHold'
  BY <1>2 DEF WriteResumed,
     ObjectivesHold, ObjectivesShape, GoalShape, HandlerShape, TaskShape, CancelHolds, ReadingHolds,
     Stopped, Free
<1>3. ASSUME NEW h \in Handlers, AskForPlan(h) PROVE ObjectivesHold'
  <2>1. TasksKept BY <1>3, <1>k DEF AskForPlan
  <2>2. /\ op' = [op EXCEPT ![h] = op'[h]]
        /\ goal' = goal /\ reserved' \in 0..MaxTasks
    BY <1>3, <1>s DEF AskForPlan
  <2>3. op[h].at = "free" BY <1>3 DEF AskForPlan
  <2>4. \/ goal.task # 0 /\ op'[h] = [Free EXCEPT !.at = "make", !.id = goal.task]
        \/ reserved < MaxTasks /\ op'[h] = [Free EXCEPT !.at = "reserve", !.id = reserved + 1]
    BY <1>3, <1>s DEF AskForPlan
  <2>5. HandlerShape(op'[h]) /\ ReadingHolds(op'[h]) /\ CancelHolds(op'[h], tasks')
    <3>1. CASE goal.task # 0 /\ op'[h] = [Free EXCEPT !.at = "make", !.id = goal.task]
      BY <3>1, <2>3, <1>s DEF Free, HandlerShape, GoalShape, ReadingHolds, CancelHolds
    <3>2. CASE reserved < MaxTasks /\ op'[h] = [Free EXCEPT !.at = "reserve", !.id = reserved + 1]
      BY <3>2, <2>3, <1>s DEF Free, HandlerShape, GoalShape, ReadingHolds, CancelHolds
    <3> QED BY <2>4, <3>1, <3>2
  <2> QED BY <2>1, <2>2, <2>5, HandlerSteps
<1>4. ASSUME NEW h \in Handlers, Reserve(h) PROVE ObjectivesHold'
  BY <1>4 DEF Reserve,
     ObjectivesHold, ObjectivesShape, GoalShape, HandlerShape, TaskShape, CancelHolds, ReadingHolds,
     Stopped, Free
<1>5. ASSUME NEW h \in Handlers, RereadReservation(h) PROVE ObjectivesHold'
  <2>1. TasksKept BY <1>5, <1>k DEF RereadReservation
  <2>2. /\ op' = [op EXCEPT ![h] = op'[h]]
        /\ goal' = goal /\ reserved' \in 0..MaxTasks
    BY <1>5, <1>s DEF RereadReservation
  <2>3. op[h].at = "reread" BY <1>5 DEF RereadReservation
  <2>4. \/ goal.task # 0 /\ op'[h] = [op[h] EXCEPT !.at = "make", !.id = goal.task]
        \/ op'[h] = Free
    BY <1>5, <1>s DEF RereadReservation
  <2>5. HandlerShape(op'[h]) /\ ReadingHolds(op'[h]) /\ CancelHolds(op'[h], tasks')
    <3>1. CASE goal.task # 0 /\ op'[h] = [op[h] EXCEPT !.at = "make", !.id = goal.task]
      BY <3>1, <2>3, <1>s DEF Free, HandlerShape, GoalShape, ReadingHolds, CancelHolds
    <3>2. CASE op'[h] = Free
      BY <3>2, FreeHandler
    <3> QED BY <2>4, <3>1, <3>2
  <2> QED BY <2>1, <2>2, <2>5, HandlerSteps
<1>6. ASSUME NEW h \in Handlers, MakeTask(h) PROVE ObjectivesHold'
  <2>1. TasksKept
    BY <1>6, <1>s DEF MakeTask, TaskMoves, Materialized, NotStarted, Cancellable,
       TasksKept, TaskShape, Stopped, HandlerShape, ReadingHolds, CancelHolds
  <2>2. /\ op' = [op EXCEPT ![h] = op'[h]]
        /\ goal' = goal /\ reserved' \in 0..MaxTasks
    BY <1>6, <1>s DEF MakeTask
  <2>3. HandlerShape(op'[h]) /\ ReadingHolds(op'[h])
    BY <1>6, <1>s DEF MakeTask,
       Free, HandlerShape, GoalShape, ReadingHolds, CancelHolds
  <2>4. CancelHolds(op'[h], tasks')
    BY <1>6, <1>s, <2>1 DEF MakeTask, TaskMoves, Materialized, NotStarted, Cancellable,
       TasksKept, Stopped,
       Free, HandlerShape, GoalShape, CancelHolds, ReadingHolds
  <2> QED BY <2>1, <2>2, <2>3, <2>4, HandlerSteps
<1>7. ASSUME NEW h \in Handlers, RecheckGoal(h) PROVE ObjectivesHold'
  <2>1. TasksKept BY <1>7, <1>k DEF RecheckGoal
  <2>2. /\ op' = [op EXCEPT ![h] = op'[h]]
        /\ goal' = goal /\ reserved' \in 0..MaxTasks
    BY <1>7, <1>s DEF RecheckGoal
  <2>3. HandlerShape(op'[h]) /\ ReadingHolds(op'[h])
    BY <1>7, <1>s DEF RecheckGoal,
       Free, HandlerShape, GoalShape, ReadingHolds, CancelHolds
  <2>4. CancelHolds(op'[h], tasks')
    BY <1>7, <1>s, <2>1 DEF RecheckGoal,
       Free, HandlerShape, GoalShape, CancelHolds, ReadingHolds
  <2> QED BY <2>1, <2>2, <2>3, <2>4, HandlerSteps
<1>8. ASSUME NEW h \in Handlers, StartPlanning(h) PROVE ObjectivesHold'
  <2>1. TasksKept
    <3>1. CASE UNCHANGED tasks BY <3>1, <1>k
    <3>2. CASE /\ tasks[op[h].id].status \in {"created", "planning", "reapproval_required"}
               /\ tasks' = [tasks EXCEPT ![op[h].id].status =
                               IF @ = "created" THEN "planning" ELSE @]
      BY <3>2, <1>s DEF TasksKept, TaskShape, Stopped
    <3> QED BY <1>8, <3>1, <3>2 DEF StartPlanning
  <2>2. /\ op' = [op EXCEPT ![h] = op'[h]]
        /\ goal' = goal /\ reserved' \in 0..MaxTasks
    BY <1>8, <1>s DEF StartPlanning
  <2>3. op[h].at = "generate" BY <1>8 DEF StartPlanning
  <2>4. \/ op'[h] = [op[h] EXCEPT !.at = "attach"]
        \/ op'[h] = Free
    BY <1>8, <1>s DEF StartPlanning
  <2>5. HandlerShape(op'[h]) /\ ReadingHolds(op'[h]) /\ CancelHolds(op'[h], tasks')
    <3>1. CASE op'[h] = [op[h] EXCEPT !.at = "attach"]
      BY <3>1, <2>3, <1>s DEF Free, HandlerShape, GoalShape, ReadingHolds, CancelHolds
    <3>2. CASE op'[h] = Free
      BY <3>2, FreeHandler
    <3> QED BY <2>4, <3>1, <3>2
  <2> QED BY <2>1, <2>2, <2>5, HandlerSteps
<1>9. ASSUME NEW h \in Handlers, AttachGenerated(h) PROVE ObjectivesHold'
  <2>1. TasksKept
    BY <1>9, <1>s DEF AttachGenerated, TaskMoves, Materialized, NotStarted, Cancellable,
       TasksKept, TaskShape, Stopped, HandlerShape, ReadingHolds, CancelHolds
  <2>2. /\ op' = [op EXCEPT ![h] = op'[h]]
        /\ goal' = goal /\ reserved' \in 0..MaxTasks
    BY <1>9, <1>s DEF AttachGenerated
  <2>3. HandlerShape(op'[h]) /\ ReadingHolds(op'[h])
    BY <1>9, <1>s DEF AttachGenerated,
       Free, HandlerShape, GoalShape, ReadingHolds, CancelHolds
  <2>4. CancelHolds(op'[h], tasks')
    BY <1>9, <1>s, <2>1 DEF AttachGenerated, TaskMoves, Materialized, NotStarted, Cancellable,
       TasksKept, Stopped,
       Free, HandlerShape, GoalShape, CancelHolds, ReadingHolds
  <2> QED BY <2>1, <2>2, <2>3, <2>4, HandlerSteps
<1>10. ASSUME NEW h \in Handlers, PlannerFails(h) PROVE ObjectivesHold'
  <2>1. TasksKept BY <1>10, <1>k DEF PlannerFails
  <2>2. /\ op' = [op EXCEPT ![h] = op'[h]]
        /\ goal' = goal /\ reserved' \in 0..MaxTasks
    BY <1>10, <1>s DEF PlannerFails
  <2>3. HandlerShape(op'[h]) /\ ReadingHolds(op'[h])
    BY <1>10, <1>s DEF PlannerFails,
       Free, HandlerShape, GoalShape, ReadingHolds, CancelHolds
  <2>4. CancelHolds(op'[h], tasks')
    BY <1>10, <1>s, <2>1 DEF PlannerFails,
       Free, HandlerShape, GoalShape, CancelHolds, ReadingHolds
  <2> QED BY <2>1, <2>2, <2>3, <2>4, HandlerSteps
<1>11. ASSUME NEW h \in Handlers, PlanIsReady(h) PROVE ObjectivesHold'
  <2>1. TasksKept
    BY SMTT(30), <1>11, <1>s DEF PlanIsReady, TaskMoves, Materialized, NotStarted, Cancellable,
       TasksKept, TaskShape, Stopped, HandlerShape, ReadingHolds, CancelHolds
  <2>2. /\ op' = [op EXCEPT ![h] = op'[h]]
        /\ goal' = goal /\ reserved' \in 0..MaxTasks
    BY <1>11, <1>s DEF PlanIsReady
  <2>3. HandlerShape(op'[h]) /\ ReadingHolds(op'[h])
    BY <1>11, <1>s DEF PlanIsReady,
       Free, HandlerShape, GoalShape, ReadingHolds, CancelHolds
  <2>4. CancelHolds(op'[h], tasks')
    BY <1>11, <1>s, <2>1 DEF PlanIsReady, TaskMoves, Materialized, NotStarted, Cancellable,
       TasksKept, Stopped,
       Free, HandlerShape, GoalShape, CancelHolds, ReadingHolds
  <2> QED BY <2>1, <2>2, <2>3, <2>4, HandlerSteps
<1>12. ASSUME NEW h \in Handlers, AskToBind(h) PROVE ObjectivesHold'
  <2>1. TasksKept BY <1>12, <1>k DEF AskToBind
  <2>2. /\ op' = [op EXCEPT ![h] = op'[h]]
        /\ goal' = goal /\ reserved' \in 0..MaxTasks
    BY <1>12, <1>s DEF AskToBind
  <2>3. HandlerShape(op'[h]) /\ ReadingHolds(op'[h])
    BY <1>12, <1>s DEF AskToBind,
       Free, HandlerShape, GoalShape, ReadingHolds, CancelHolds
  <2>4. CancelHolds(op'[h], tasks')
    BY <1>12, <1>s, <2>1 DEF AskToBind,
       Free, HandlerShape, GoalShape, CancelHolds, ReadingHolds
  <2> QED BY <2>1, <2>2, <2>3, <2>4, HandlerSteps
<1>13. ASSUME NEW h \in Handlers, ReadHash(h) PROVE ObjectivesHold'
  <2>1. TasksKept BY <1>13, <1>k DEF ReadHash
  <2>2. /\ op' = [op EXCEPT ![h] = op'[h]]
        /\ goal' = goal /\ reserved' \in 0..MaxTasks
    BY <1>13, <1>s DEF ReadHash
  <2>3. op[h].at = "hash" BY <1>13 DEF ReadHash
  <2>4. \/ op'[h] = [op[h] EXCEPT !.at = "item", !.plan = HashFor(op[h].id)]
        \/ op'[h] = Free
    BY <1>13, <1>s DEF ReadHash
  <2>5. HandlerShape(op'[h]) /\ ReadingHolds(op'[h]) /\ CancelHolds(op'[h], tasks')
    <3>1. CASE op'[h] = [op[h] EXCEPT !.at = "item", !.plan = HashFor(op[h].id)]
      BY <3>1, <2>3, <1>s DEF Free, HandlerShape, GoalShape, ReadingHolds, CancelHolds
    <3>2. CASE op'[h] = Free
      BY <3>2, FreeHandler
    <3> QED BY <2>4, <3>1, <3>2
  <2> QED BY <2>1, <2>2, <2>5, HandlerSteps
<1>14. ASSUME NEW h \in Handlers, ReadObjectiveItem(h) PROVE ObjectivesHold'
  <2>1. TasksKept BY <1>14, <1>k DEF ReadObjectiveItem, MayBind
  <2>2. /\ op' = [op EXCEPT ![h] = op'[h]]
        /\ goal' = goal /\ reserved' \in 0..MaxTasks
    BY <1>14, <1>s DEF ReadObjectiveItem
  <2>3. op[h].at = "item" BY <1>14 DEF ReadObjectiveItem
  <2>4. \/ MayBind(h) /\ op'[h] = [op[h] EXCEPT !.at = "bind", !.seen = goal]
        \/ op'[h] = Free
    BY <1>14, <1>s DEF ReadObjectiveItem
  <2>5. HandlerShape(op'[h]) /\ ReadingHolds(op'[h]) /\ CancelHolds(op'[h], tasks')
    <3>1. CASE MayBind(h) /\ op'[h] = [op[h] EXCEPT !.at = "bind", !.seen = goal]
      BY <3>1, <2>3, <1>s DEF Free, HandlerShape, GoalShape, ReadingHolds, CancelHolds, MayBind
    <3>2. CASE op'[h] = Free
      BY <3>2, FreeHandler
    <3> QED BY <2>4, <3>1, <3>2
  <2> QED BY <2>1, <2>2, <2>5, HandlerSteps
<1>15. ASSUME NEW h \in Handlers, WriteBinding(h) PROVE ObjectivesHold'
  BY <1>15 DEF WriteBinding,
     ObjectivesHold, ObjectivesShape, GoalShape, HandlerShape, TaskShape, CancelHolds, ReadingHolds,
     Stopped, Free
<1>16. ASSUME NEW h \in Handlers, Cancel(h) PROVE ObjectivesHold'
  <2>1. TasksKept BY <1>16, <1>k DEF Cancel
  <2>2. /\ op' = [op EXCEPT ![h] = op'[h]]
        /\ goal' = goal /\ reserved' \in 0..MaxTasks
    BY <1>16, <1>s DEF Cancel
  <2>3. HandlerShape(op'[h]) /\ ReadingHolds(op'[h])
    BY <1>16, <1>s DEF Cancel,
       Free, HandlerShape, GoalShape, ReadingHolds, CancelHolds
  <2>4. CancelHolds(op'[h], tasks')
    BY <1>16, <1>s, <2>1 DEF Cancel,
       Free, HandlerShape, GoalShape, CancelHolds, ReadingHolds
  <2> QED BY <2>1, <2>2, <2>3, <2>4, HandlerSteps
<1>17. ASSUME NEW h \in Handlers, RecoverReservation(h) PROVE ObjectivesHold'
  <2>1. TasksKept
    BY <1>17, <1>s DEF RecoverReservation, TaskMoves, Materialized, NotStarted, Cancellable,
       TasksKept, TaskShape, Stopped, HandlerShape, ReadingHolds, CancelHolds
  <2>2. /\ op' = [op EXCEPT ![h] = op'[h]]
        /\ goal' = goal /\ reserved' \in 0..MaxTasks
    BY <1>17, <1>s DEF RecoverReservation
  <2>3. HandlerShape(op'[h]) /\ ReadingHolds(op'[h])
    BY <1>17, <1>s DEF RecoverReservation,
       Free, HandlerShape, GoalShape, ReadingHolds, CancelHolds
  <2>4. CancelHolds(op'[h], tasks')
    BY <1>17, <1>s, <2>1 DEF RecoverReservation, TaskMoves, Materialized, NotStarted, Cancellable,
       TasksKept, Stopped,
       Free, HandlerShape, GoalShape, CancelHolds, ReadingHolds
  <2> QED BY <2>1, <2>2, <2>3, <2>4, HandlerSteps
<1>18. ASSUME NEW h \in Handlers, FlagTask(h) PROVE ObjectivesHold'
  <2>1. TasksKept
    BY <1>18, <1>s DEF FlagTask, TaskMoves, Materialized, NotStarted, Cancellable,
       TasksKept, TaskShape, Stopped, HandlerShape, ReadingHolds, CancelHolds
  <2>2. /\ op' = [op EXCEPT ![h] = op'[h]]
        /\ goal' = goal /\ reserved' \in 0..MaxTasks
    BY <1>18, <1>s DEF FlagTask
  <2>3. op[h].at = "flag" BY <1>18 DEF FlagTask
  <2>4. \/ tasks'[op[h].id].flag /\ op'[h] = [op[h] EXCEPT !.at = "stop"]
        \/ Stopped(tasks'[op[h].id]) /\ op'[h] = [op[h] EXCEPT !.at = "cancelled"]
        \/ op'[h] = [op[h] EXCEPT !.at = "refused"]
    <3>0. /\ op[h].id \in Ids /\ tasks' = IF Cancellable(op[h].id)
                                       THEN [tasks EXCEPT ![op[h].id].flag = TRUE] ELSE tasks
          /\ TaskShape(tasks[op[h].id])
      BY <1>18, <1>s, <2>3 DEF FlagTask, HandlerShape, CancelHolds
    <3>1. CASE Cancellable(op[h].id) /\ tasks[op[h].id].status \in NotStarted
      <4>1. op'[h] = [op[h] EXCEPT !.at = "stop"] BY <1>18, <1>s, <3>1 DEF FlagTask
      <4>2. tasks'[op[h].id].flag BY <3>0, <3>1, <1>s DEF TaskShape
      <4> QED BY <4>1, <4>2
    <3>2. CASE Cancellable(op[h].id) /\ ~ (tasks[op[h].id].status \in NotStarted)
      <4>1. op'[h] = [op[h] EXCEPT !.at = "cancelled"] BY <1>18, <1>s, <3>2 DEF FlagTask
      <4>2. Stopped(tasks'[op[h].id])
        BY <3>0, <3>2, <1>s DEF TaskShape, Stopped, Cancellable
      <4> QED BY <4>1, <4>2
    <3>3. CASE ~ Cancellable(op[h].id)
      BY <1>18, <1>s, <3>3 DEF FlagTask
    <3> QED BY <3>1, <3>2, <3>3
  <2>5. HandlerShape(op'[h]) /\ ReadingHolds(op'[h]) /\ CancelHolds(op'[h], tasks')
    <3>1. CASE tasks'[op[h].id].flag /\ op'[h] = [op[h] EXCEPT !.at = "stop"]
      BY <3>1, <2>3, <1>s DEF Free, HandlerShape, GoalShape, ReadingHolds, CancelHolds
    <3>2. CASE Stopped(tasks'[op[h].id]) /\ op'[h] = [op[h] EXCEPT !.at = "cancelled"]
      BY <3>2, <2>3, <1>s DEF Free, HandlerShape, GoalShape, ReadingHolds, CancelHolds
    <3>3. CASE op'[h] = [op[h] EXCEPT !.at = "refused"]
      BY <3>3, <2>3, <1>s DEF Free, HandlerShape, GoalShape, ReadingHolds, CancelHolds
    <3> QED BY <2>4, <3>1, <3>2, <3>3
  <2> QED BY <2>1, <2>2, <2>5, HandlerSteps
<1>19. ASSUME NEW h \in Handlers, StopTask(h) PROVE ObjectivesHold'
  <2>1. TasksKept
    BY <1>19, <1>s DEF StopTask, TaskMoves, Materialized, NotStarted, Cancellable,
       TasksKept, TaskShape, Stopped, HandlerShape, ReadingHolds, CancelHolds
  <2>2. /\ op' = [op EXCEPT ![h] = op'[h]]
        /\ goal' = goal /\ reserved' \in 0..MaxTasks
    BY <1>19, <1>s DEF StopTask
  <2>3. op[h].at = "stop" BY <1>19 DEF StopTask
  <2>4. \/ Stopped(tasks'[op[h].id]) /\ op'[h] = [op[h] EXCEPT !.at = "cancelled"]
        \/ op'[h] = [op[h] EXCEPT !.at = "refused"]
    BY <1>19, <1>s DEF StopTask, TaskMoves, Materialized, NotStarted, Cancellable, Stopped, HandlerShape, CancelHolds, TaskShape
  <2>5. HandlerShape(op'[h]) /\ ReadingHolds(op'[h]) /\ CancelHolds(op'[h], tasks')
    <3>1. CASE Stopped(tasks'[op[h].id]) /\ op'[h] = [op[h] EXCEPT !.at = "cancelled"]
      BY <3>1, <2>3, <1>s DEF Free, HandlerShape, GoalShape, ReadingHolds, CancelHolds
    <3>2. CASE op'[h] = [op[h] EXCEPT !.at = "refused"]
      BY <3>2, <2>3, <1>s DEF Free, HandlerShape, GoalShape, ReadingHolds, CancelHolds
    <3> QED BY <2>4, <3>1, <3>2
  <2> QED BY <2>1, <2>2, <2>5, HandlerSteps
<1>20. ASSUME NEW h \in Handlers, RefuseCancel(h) PROVE ObjectivesHold'
  <2>1. TasksKept BY <1>20, <1>k DEF RefuseCancel
  <2>2. /\ op' = [op EXCEPT ![h] = op'[h]]
        /\ goal' = goal /\ reserved' \in 0..MaxTasks
    BY <1>20, <1>s DEF RefuseCancel
  <2>3. HandlerShape(op'[h]) /\ ReadingHolds(op'[h])
    BY <1>20, <1>s DEF RefuseCancel,
       Free, HandlerShape, GoalShape, ReadingHolds, CancelHolds
  <2>4. CancelHolds(op'[h], tasks')
    BY <1>20, <1>s, <2>1 DEF RefuseCancel,
       Free, HandlerShape, GoalShape, CancelHolds, ReadingHolds
  <2> QED BY <2>1, <2>2, <2>3, <2>4, HandlerSteps
<1>21. ASSUME NEW h \in Handlers, WriteCancelled(h) PROVE ObjectivesHold'
  BY <1>21 DEF WriteCancelled,
     ObjectivesHold, ObjectivesShape, GoalShape, HandlerShape, TaskShape, CancelHolds, ReadingHolds,
     Stopped, Free
<1>22. ASSUME NEW h \in Handlers, ApprovePlan(h) PROVE ObjectivesHold'
  <2>1. TasksKept BY <1>22, <1>k DEF ApprovePlan
  <2>2. /\ op' = [op EXCEPT ![h] = op'[h]]
        /\ goal' = goal /\ reserved' \in 0..MaxTasks
    BY <1>22, <1>s DEF ApprovePlan
  <2>3. HandlerShape(op'[h]) /\ ReadingHolds(op'[h])
    BY <1>22, <1>s DEF ApprovePlan,
       Free, HandlerShape, GoalShape, ReadingHolds, CancelHolds
  <2>4. CancelHolds(op'[h], tasks')
    BY <1>22, <1>s, <2>1 DEF ApprovePlan,
       Free, HandlerShape, GoalShape, CancelHolds, ReadingHolds
  <2> QED BY <2>1, <2>2, <2>3, <2>4, HandlerSteps
<1>23. ASSUME NEW h \in Handlers, WriteApproved(h) PROVE ObjectivesHold'
  <2>1. TasksKept
    BY <1>23, <1>s DEF WriteApproved, TaskMoves, Materialized, NotStarted, Cancellable,
       TasksKept, TaskShape, Stopped, HandlerShape, ReadingHolds, CancelHolds
  <2>2. /\ op' = [op EXCEPT ![h] = op'[h]]
        /\ goal' = goal /\ reserved' \in 0..MaxTasks
    BY <1>23, <1>s DEF WriteApproved
  <2>3. HandlerShape(op'[h]) /\ ReadingHolds(op'[h])
    BY <1>23, <1>s DEF WriteApproved,
       Free, HandlerShape, GoalShape, ReadingHolds, CancelHolds
  <2>4. CancelHolds(op'[h], tasks')
    BY <1>23, <1>s, <2>1 DEF WriteApproved, TaskMoves, Materialized, NotStarted, Cancellable,
       TasksKept, Stopped,
       Free, HandlerShape, GoalShape, CancelHolds, ReadingHolds
  <2> QED BY <2>1, <2>2, <2>3, <2>4, HandlerSteps
<1>24. ASSUME NEW h \in Handlers, Execute(h) PROVE ObjectivesHold'
  <2>1. TasksKept BY <1>24, <1>k DEF Execute
  <2>2. /\ op' = [op EXCEPT ![h] = op'[h]]
        /\ goal' = goal /\ reserved' \in 0..MaxTasks
    BY <1>24, <1>s DEF Execute
  <2>3. HandlerShape(op'[h]) /\ ReadingHolds(op'[h])
    BY <1>24, <1>s DEF Execute,
       Free, HandlerShape, GoalShape, ReadingHolds, CancelHolds
  <2>4. CancelHolds(op'[h], tasks')
    BY <1>24, <1>s, <2>1 DEF Execute,
       Free, HandlerShape, GoalShape, CancelHolds, ReadingHolds
  <2> QED BY <2>1, <2>2, <2>3, <2>4, HandlerSteps
<1>25. ASSUME NEW h \in Handlers, Admit(h) PROVE ObjectivesHold'
  <2>1. TasksKept
    BY <1>25, <1>s DEF Admit, TaskMoves, Materialized, NotStarted, Cancellable,
       TasksKept, TaskShape, Stopped, HandlerShape, ReadingHolds, CancelHolds
  <2>2. /\ op' = [op EXCEPT ![h] = op'[h]]
        /\ goal' = goal /\ reserved' \in 0..MaxTasks
    BY <1>25, <1>s DEF Admit
  <2>3. HandlerShape(op'[h]) /\ ReadingHolds(op'[h])
    BY <1>25, <1>s DEF Admit,
       Free, HandlerShape, GoalShape, ReadingHolds, CancelHolds
  <2>4. CancelHolds(op'[h], tasks')
    BY <1>25, <1>s, <2>1 DEF Admit, TaskMoves, Materialized, NotStarted, Cancellable,
       TasksKept, Stopped,
       Free, HandlerShape, GoalShape, CancelHolds, ReadingHolds
  <2> QED BY <2>1, <2>2, <2>3, <2>4, HandlerSteps
<1>26. ASSUME NEW h \in Handlers, Recover(h) PROVE ObjectivesHold'
  <2>1. TasksKept BY <1>26, <1>k DEF Recover
  <2>2. /\ op' = [op EXCEPT ![h] = op'[h]]
        /\ goal' = goal /\ reserved' \in 0..MaxTasks
    BY <1>26, <1>s DEF Recover
  <2>3. HandlerShape(op'[h]) /\ ReadingHolds(op'[h])
    BY <1>26, <1>s DEF Recover,
       Free, HandlerShape, GoalShape, ReadingHolds, CancelHolds
  <2>4. CancelHolds(op'[h], tasks')
    BY <1>26, <1>s, <2>1 DEF Recover,
       Free, HandlerShape, GoalShape, CancelHolds, ReadingHolds
  <2> QED BY <2>1, <2>2, <2>3, <2>4, HandlerSteps
<1>27. ASSUME NEW h \in Handlers, ResumeRun(h) PROVE ObjectivesHold'
  <2>1. TasksKept
    BY <1>27, <1>s DEF ResumeRun, TaskMoves, Materialized, NotStarted, Cancellable,
       TasksKept, TaskShape, Stopped, HandlerShape, ReadingHolds, CancelHolds
  <2>2. /\ op' = [op EXCEPT ![h] = op'[h]]
        /\ goal' = goal /\ reserved' \in 0..MaxTasks
    BY <1>27, <1>s DEF ResumeRun
  <2>3. op[h].at = "recover run" BY <1>27 DEF ResumeRun
  <2>4. op'[h] = Free
    BY <1>27, <1>s DEF ResumeRun
  <2>5. HandlerShape(op'[h]) /\ ReadingHolds(op'[h]) /\ CancelHolds(op'[h], tasks')
    BY <2>4, FreeHandler
  <2> QED BY <2>1, <2>2, <2>5, HandlerSteps
<1>28. ASSUME NEW i \in Ids, StartTask(i) PROVE ObjectivesHold'
  BY <1>28 DEF StartTask, TaskMoves,
     ObjectivesHold, ObjectivesShape, GoalShape, HandlerShape, TaskShape, CancelHolds, ReadingHolds,
     Stopped, Free
<1>29. ASSUME NEW i \in Ids, EndTask(i) PROVE ObjectivesHold'
  BY <1>29 DEF EndTask,
     ObjectivesHold, ObjectivesShape, GoalShape, HandlerShape, TaskShape, CancelHolds, ReadingHolds,
     Stopped, Free
<1>30. CASE ProcessKilled
  BY <1>30 DEF ProcessKilled,
     ObjectivesHold, ObjectivesShape, GoalShape, HandlerShape, TaskShape, CancelHolds, ReadingHolds,
     Stopped, Free
<1>31. ASSUME NEW h \in Handlers, Retry(h) PROVE ObjectivesHold'
  <2>1. TasksKept BY <1>31, <1>k DEF Retry
  <2>2. /\ op' = [op EXCEPT ![h] = op'[h]]
        /\ goal' = goal /\ reserved' \in 0..MaxTasks
    BY <1>31, <1>s DEF Retry
  <2>3. HandlerShape(op'[h]) /\ ReadingHolds(op'[h])
    BY <1>31, <1>s DEF Retry,
       Free, HandlerShape, GoalShape, ReadingHolds, CancelHolds
  <2>4. CancelHolds(op'[h], tasks')
    BY <1>31, <1>s, <2>1 DEF Retry,
       Free, HandlerShape, GoalShape, CancelHolds, ReadingHolds
  <2> QED BY <2>1, <2>2, <2>3, <2>4, HandlerSteps
<1>32. ASSUME NEW h \in Handlers, RetryRun(h) PROVE ObjectivesHold'
  <2>1. TasksKept
    BY <1>32, <1>s DEF RetryRun, TasksKept, TaskShape, Stopped, HandlerShape, ReadingHolds, CancelHolds
  <2>2. /\ op' = [op EXCEPT ![h] = op'[h]]
        /\ goal' = goal /\ reserved' \in 0..MaxTasks
    BY <1>32, <1>s DEF RetryRun
  <2>3. op'[h] = Free BY <1>32, <1>s DEF RetryRun
  <2>4. HandlerShape(op'[h]) /\ ReadingHolds(op'[h]) /\ CancelHolds(op'[h], tasks')
    BY <2>3, FreeHandler
  <2> QED BY <2>1, <2>2, <2>4, HandlerSteps
<1>33. ASSUME NEW h \in Handlers, AskToRebind(h) PROVE ObjectivesHold'
  <2>1. TasksKept BY <1>33, <1>k DEF AskToRebind
  <2>2. /\ op' = [op EXCEPT ![h] = op'[h]]
        /\ goal' = goal /\ reserved' \in 0..MaxTasks
    BY <1>33, <1>s DEF AskToRebind
  <2>3. HandlerShape(op'[h]) /\ ReadingHolds(op'[h])
    BY <1>33, <1>s DEF AskToRebind,
       Free, HandlerShape, GoalShape, ReadingHolds, CancelHolds
  <2>4. CancelHolds(op'[h], tasks')
    BY <1>33, <1>s, <2>1 DEF AskToRebind,
       Free, HandlerShape, GoalShape, CancelHolds, ReadingHolds
  <2> QED BY <2>1, <2>2, <2>3, <2>4, HandlerSteps
<1>34. ASSUME NEW h \in Handlers, ReadRevisedHash(h) PROVE ObjectivesHold'
  <2>1. TasksKept BY <1>34, <1>k DEF ReadRevisedHash
  <2>2. /\ op' = [op EXCEPT ![h] = op'[h]]
        /\ goal' = goal /\ reserved' \in 0..MaxTasks
    BY <1>34, <1>s DEF ReadRevisedHash
  <2>3. \/ op'[h] = [op[h] EXCEPT !.at = "rebind", !.plan = HashFor(op[h].id)]
        \/ op'[h] = Free
    BY <1>34, <1>s DEF ReadRevisedHash
  <2>4. HandlerShape(op'[h]) /\ ReadingHolds(op'[h]) /\ CancelHolds(op'[h], tasks')
    <3>1. CASE op'[h] = [op[h] EXCEPT !.at = "rebind", !.plan = HashFor(op[h].id)]
      BY <3>1, <1>s DEF HandlerShape, GoalShape, ReadingHolds, CancelHolds
    <3>2. CASE op'[h] = Free BY <3>2, FreeHandler
    <3> QED BY <2>3, <3>1, <3>2
  <2> QED BY <2>1, <2>2, <2>4, HandlerSteps
<1>35. ASSUME NEW h \in Handlers, WriteRebound(h) PROVE ObjectivesHold'
  BY <1>35 DEF WriteRebound,
     ObjectivesHold, ObjectivesShape, GoalShape, HandlerShape, TaskShape, CancelHolds, ReadingHolds,
     Stopped, Free
<1>36. ASSUME NEW i \in Ids, ReplanElsewhere(i) PROVE ObjectivesHold'
  BY <1>36 DEF ReplanElsewhere, NotStarted,
     ObjectivesHold, ObjectivesShape, GoalShape, HandlerShape, TaskShape, CancelHolds, ReadingHolds,
     Stopped, Free
<1> QED
  BY <1>0, <1>1, <1>2, <1>3, <1>4, <1>5, <1>6, <1>7, <1>8, <1>9, <1>10, <1>11, <1>12, <1>13,
     <1>14, <1>15, <1>16, <1>17, <1>18, <1>19, <1>20, <1>21, <1>22, <1>23, <1>24, <1>25, <1>26,
     <1>27, <1>28, <1>29, <1>30, <1>31, <1>32, <1>33, <1>34, <1>35, <1>36 DEF OBNext

\* A cancelled objective leaves no runnable task behind, however its
\* cancellation interleaves with planning, binding, approval and execution in
\* other handlers and with the death of the process (ObjectiveService.cancel).
THEOREM CancelledIsQuiet == OBSpec => []CancelledLeavesNothingRunnable
<1>1. ObjectivesHold => CancelledLeavesNothingRunnable
  BY DEF ObjectivesHold, CancelledLeavesNothingRunnable, Stopped
<1> QED BY <1>1, ObjectivesStart, ObjectivesStep, PTL DEF OBSpec

\* Every handler but these five leaves the objective as it is.
LEMMA GoalWriters ==
  ASSUME [OBNext]_obVars
  PROVE  \/ goal' = goal
         \/ \E h \in Handlers : \/ WriteResumed(h) \/ Reserve(h) \/ WriteBinding(h)
                                \/ WriteCancelled(h) \/ WriteRebound(h)
BY DEF OBNext, obVars, NoGoal, Resume, AskForPlan, RereadReservation, MakeTask, RecheckGoal,
   StartPlanning, AttachGenerated, PlannerFails, PlanIsReady, AskToBind, ReadHash,
   ReadObjectiveItem, Cancel, RecoverReservation, FlagTask, StopTask, RefuseCancel, ApprovePlan,
   WriteApproved, Execute, Admit, Recover, ResumeRun, Retry, RetryRun, AskToRebind,
   ReadRevisedHash, StartTask, EndTask, ReplanElsewhere, ProcessKilled

\* What a handler knows of a plan it will write: the task has it, or has had it.
PlanKnown(o, all) ==
  /\ o.at \in {"item", "bind", "revised", "rebind"} => o.id \in Ids
  /\ o.at \in {"item", "bind", "rebind"} => o.plan \in Nat /\ o.plan <= all[o.id].plan
  /\ o.at \in {"revised", "rebind"} =>
       /\ o.seen.state = "planned" /\ o.seen.task = o.id
       /\ o.seen.plan \in Nat /\ o.seen.plan <= all[o.id].plan
  /\ o.at = "rebind" => o.seen.plan < o.plan

\* Plans are numbered as they are made; the bound one is one that the task has had.
PlansHold ==
  /\ plans \in Nat /\ \A i \in Ids : tasks[i].plan \in 0..plans
  /\ goal.plan \in Nat
  /\ goal.state = "planned" \/ goal.plan # 0 =>
       goal.task \in Ids /\ goal.plan <= tasks[goal.task].plan
  /\ \A h \in Handlers : PlanKnown(op[h], tasks)

\* A task is only ever given a newer plan.
PlansRise ==
  /\ plans' \in Nat /\ \A i \in Ids : tasks'[i].plan \in 0..plans'
  /\ \A i \in Ids : tasks[i].plan <= tasks'[i].plan

LEMMA TasksGetNewerPlans ==
  ASSUME ObjectivesHold, PlansHold, [OBNext]_obVars
  PROVE  PlansRise
<1>s. /\ DOMAIN tasks = Ids /\ \A i \in Ids : TaskShape(tasks[i])
      /\ plans \in Nat /\ \A i \in Ids : tasks[i].plan \in 0..plans
  BY DEF ObjectivesHold, ObjectivesShape, PlansHold
<1>k. ASSUME UNCHANGED plans, \A i \in Ids : tasks'[i].plan = tasks[i].plan PROVE PlansRise
  BY <1>k, <1>s DEF PlansRise
<1>n. ASSUME NEW i, plans' = plans + 1, \A j \in Ids : j # i => tasks'[j].plan = tasks[j].plan,
             i \in Ids => tasks'[i].plan = plans + 1
      PROVE  PlansRise
  <2>1. ASSUME NEW j \in Ids PROVE tasks'[j].plan \in 0..plans' /\ tasks[j].plan <= tasks'[j].plan
    <3>1. CASE j = i BY <1>n, <1>s, <3>1
    <3>2. CASE j # i BY <1>n, <1>s, <3>2
    <3> QED BY <3>1, <3>2
  <2> QED BY <1>n, <1>s, <2>1 DEF PlansRise
<1>1. CASE UNCHANGED <<tasks, plans>> BY <1>1, <1>k
<1>2. ASSUME NEW h \in Handlers,
             \/ MakeTask(h) \/ StartPlanning(h) \/ PlanIsReady(h) \/ RecoverReservation(h)
             \/ FlagTask(h) \/ StopTask(h) \/ WriteApproved(h) \/ Admit(h) \/ ResumeRun(h)
             \/ RetryRun(h)
      PROVE  PlansRise
  <2>1. UNCHANGED plans
    BY <1>2 DEF MakeTask, StartPlanning, PlanIsReady, RecoverReservation, FlagTask, StopTask,
       WriteApproved, Admit, ResumeRun, RetryRun
  <2>2. ASSUME MakeTask(h) \/ RecoverReservation(h) PROVE \A i \in Ids : tasks'[i].plan = tasks[i].plan
    BY <2>2, <1>s DEF MakeTask, RecoverReservation, Materialized, TaskShape
  <2>3. ASSUME StartPlanning(h) \/ PlanIsReady(h) PROVE \A i \in Ids : tasks'[i].plan = tasks[i].plan
    BY <2>3, <1>s DEF StartPlanning, PlanIsReady, TaskMoves, TaskShape
  <2>4. ASSUME FlagTask(h) \/ StopTask(h) PROVE \A i \in Ids : tasks'[i].plan = tasks[i].plan
    BY <2>4, <1>s DEF FlagTask, StopTask, TaskMoves, TaskShape
  <2>5. ASSUME WriteApproved(h) PROVE \A i \in Ids : tasks'[i].plan = tasks[i].plan
    BY <2>5, <1>s DEF WriteApproved, TaskMoves, TaskShape
  <2>7. ASSUME ResumeRun(h) PROVE \A i \in Ids : tasks'[i].plan = tasks[i].plan
    <3>1. PICK b : tasks' = [tasks EXCEPT ![op[h].id].worker = b] BY <2>7, Zenon DEF ResumeRun
    <3> QED BY <3>1, <1>s DEF TaskShape
  <2>6. ASSUME Admit(h) \/ RetryRun(h) PROVE \A i \in Ids : tasks'[i].plan = tasks[i].plan
    BY <2>6, <1>s DEF Admit, RetryRun, TaskShape
  <2> QED BY <1>2, <1>k, <2>1, <2>2, <2>3, <2>4, <2>5, <2>6, <2>7
<1>3. ASSUME NEW h \in Handlers, AttachGenerated(h) PROVE PlansRise
  BY <1>3, <1>n, <1>s DEF AttachGenerated, TaskShape
<1>4. ASSUME NEW i \in Ids, ReplanElsewhere(i) PROVE PlansRise
  BY <1>4, <1>n, <1>s DEF ReplanElsewhere, TaskShape
<1>5. ASSUME NEW i \in Ids, StartTask(i) \/ EndTask(i) PROVE PlansRise
  BY <1>5, <1>k, <1>s DEF StartTask, EndTask, TaskMoves, TaskShape
<1>6. CASE ProcessKilled BY <1>6, <1>k, <1>s DEF ProcessKilled, TaskShape
<1>7. CASE UNCHANGED obVars BY <1>1, <1>7 DEF obVars
<1>8. ASSUME NEW h \in Handlers,
             \/ Resume(h) \/ WriteResumed(h) \/ AskForPlan(h) \/ Reserve(h) \/ RereadReservation(h)
             \/ RecheckGoal(h) \/ PlannerFails(h) \/ AskToBind(h) \/ ReadHash(h)
             \/ ReadObjectiveItem(h) \/ WriteBinding(h) \/ Cancel(h) \/ RefuseCancel(h)
             \/ WriteCancelled(h) \/ ApprovePlan(h) \/ Execute(h) \/ Recover(h) \/ Retry(h)
             \/ AskToRebind(h) \/ ReadRevisedHash(h) \/ WriteRebound(h)
      PROVE  UNCHANGED <<tasks, plans>>
  BY <1>8 DEF Resume, WriteResumed, AskForPlan, Reserve, RereadReservation, RecheckGoal,
     PlannerFails, AskToBind, ReadHash, ReadObjectiveItem, WriteBinding, Cancel, RefuseCancel,
     WriteCancelled, ApprovePlan, Execute, Recover, Retry, AskToRebind, ReadRevisedHash,
     WriteRebound, NoTask
<1> QED BY <1>1, <1>2, <1>3, <1>4, <1>5, <1>6, <1>7, <1>8 DEF OBNext

\* Only these steps bring a handler to where it knows a plan.
LEMMA PlanReaders ==
  ASSUME ObjectivesHold, [OBNext]_obVars, NEW h \in Handlers,
         op'[h].at \in {"item", "bind", "revised", "rebind"}
  PROVE  \/ op'[h] = op[h]
         \/ ReadHash(h) \/ ReadObjectiveItem(h) \/ AskToRebind(h) \/ ReadRevisedHash(h)
<1>s. DOMAIN op = Handlers /\ \A k \in Handlers : HandlerShape(op[k])
  BY DEF ObjectivesHold, ObjectivesShape
<1> USE DEF AtStep, Replies, RepliesAndUnlocks, GoesTo
<1>1. CASE UNCHANGED op BY <1>1
<1>2. CASE ProcessKilled BY <1>2, <1>s DEF ProcessKilled, Free
<1>a. ASSUME NEW k \in Handlers, NEW o, op' = [op EXCEPT ![k] = o],
             o.at \notin {"item", "bind", "revised", "rebind"}
      PROVE  op'[h] = op[h]
  BY <1>a, <1>s
<1>3. ASSUME NEW k \in Handlers,
             \/ WriteResumed(k) \/ PlannerFails(k) \/ WriteBinding(k) \/ RefuseCancel(k)
             \/ WriteCancelled(k) \/ WriteApproved(k) \/ Admit(k) \/ ResumeRun(k) \/ RetryRun(k)
             \/ WriteRebound(k)
      PROVE  op'[h] = op[h]
  <2>1. op' = [op EXCEPT ![k] = Free]
    BY <1>3 DEF WriteResumed, PlannerFails, WriteBinding, RefuseCancel, WriteCancelled,
       WriteApproved, Admit, ResumeRun, RetryRun, WriteRebound
  <2> QED BY <1>a, <2>1 DEF Free
<1>4. ASSUME NEW k \in Handlers,
             \/ Resume(k) \/ AskForPlan(k) \/ AskToBind(k) \/ Cancel(k) \/ ApprovePlan(k)
             \/ Execute(k) \/ Recover(k) \/ Retry(k)
      PROVE  op'[h] = op[h]
  <2>1. CASE Resume(k) BY <1>a, <2>1 DEF Resume, Free
  <2>2. CASE AskForPlan(k) BY <1>a, <2>2 DEF AskForPlan, Free
  <2>3. CASE AskToBind(k) BY <1>a, <2>3 DEF AskToBind, Free
  <2>4. CASE Cancel(k) BY <1>a, <2>4 DEF Cancel, Free
  <2>5. CASE ApprovePlan(k) BY <1>a, <2>5 DEF ApprovePlan, Free
  <2>6. CASE Execute(k) BY <1>a, <2>6 DEF Execute, Free
  <2>7. CASE Recover(k) BY <1>a, <2>7 DEF Recover, Free
  <2>8. CASE Retry(k) BY <1>a, <2>8 DEF Retry, Free
  <2> QED BY <1>4, <2>1, <2>2, <2>3, <2>4, <2>5, <2>6, <2>7, <2>8
<1>7. ASSUME NEW k \in Handlers,
             \/ Reserve(k) \/ RereadReservation(k) \/ MakeTask(k) \/ RecheckGoal(k)
             \/ StartPlanning(k) \/ AttachGenerated(k) \/ PlanIsReady(k)
             \/ RecoverReservation(k) \/ FlagTask(k) \/ StopTask(k)
      PROVE  op'[h] = op[h]
  <2>s. DOMAIN op[k] = {"at", "seen", "id", "plan"} BY <1>s DEF HandlerShape
  <2>1. CASE Reserve(k) BY <1>a, <2>1, <2>s DEF Reserve
  <2>2. CASE RereadReservation(k) BY <1>a, <2>2, <2>s DEF RereadReservation, Free
  <2>3. CASE MakeTask(k) BY <1>a, <2>3, <2>s DEF MakeTask
  <2>4. CASE RecheckGoal(k)
    <3>1. CASE op' = [op EXCEPT ![k] = Free] BY <1>a, <3>1 DEF Free
    <3>2. CASE op' = [op EXCEPT ![k] = [op[k] EXCEPT !.at = "hash"]] BY <1>a, <2>s, <3>2
    <3>3. CASE op' = [op EXCEPT ![k] = [op[k] EXCEPT !.at = "generate"]] BY <1>a, <2>s, <3>3
    <3> QED BY <2>4, <3>1, <3>2, <3>3 DEF RecheckGoal
  <2>5. CASE StartPlanning(k)
    <3>1. CASE op' = [op EXCEPT ![k] = Free] BY <1>a, <3>1 DEF Free
    <3>2. CASE op' = [op EXCEPT ![k] = [op[k] EXCEPT !.at = "attach"]] BY <1>a, <2>s, <3>2
    <3> QED BY <2>5, <3>1, <3>2 DEF StartPlanning
  <2>6. CASE AttachGenerated(k) BY <1>a, <2>6, <2>s DEF AttachGenerated
  <2>7. CASE PlanIsReady(k) BY <1>a, <2>7, <2>s DEF PlanIsReady
  <2>8. CASE RecoverReservation(k) BY <1>a, <2>8, <2>s DEF RecoverReservation
  <2>9. CASE FlagTask(k)
    <3>1. CASE op' = [op EXCEPT ![k] = [op[k] EXCEPT !.at = "stop"]] BY <1>a, <2>s, <3>1
    <3>2. CASE op' = [op EXCEPT ![k] = [op[k] EXCEPT !.at = "cancelled"]] BY <1>a, <2>s, <3>2
    <3>3. CASE op' = [op EXCEPT ![k] = [op[k] EXCEPT !.at = "refused"]] BY <1>a, <2>s, <3>3
    <3> QED BY <2>9, <3>1, <3>2, <3>3 DEF FlagTask
  <2>10. CASE StopTask(k)
    <3>1. CASE op' = [op EXCEPT ![k] = [op[k] EXCEPT !.at = "cancelled"]] BY <1>a, <2>s, <3>1
    <3>2. CASE op' = [op EXCEPT ![k] = [op[k] EXCEPT !.at = "refused"]] BY <1>a, <2>s, <3>2
    <3> QED BY <2>10, <3>1, <3>2 DEF StopTask
  <2> QED BY <1>7, <2>1, <2>2, <2>3, <2>4, <2>5, <2>6, <2>7, <2>8, <2>9, <2>10
<1>5. ASSUME NEW k \in Handlers,
             ReadHash(k) \/ ReadObjectiveItem(k) \/ AskToRebind(k) \/ ReadRevisedHash(k)
      PROVE  k = h \/ op'[h] = op[h]
  BY <1>5, <1>s DEF ReadHash, ReadObjectiveItem, AskToRebind, ReadRevisedHash
<1>6. ASSUME NEW i \in Ids, StartTask(i) \/ EndTask(i) \/ ReplanElsewhere(i) PROVE UNCHANGED op
  BY <1>6 DEF StartTask, EndTask, ReplanElsewhere
<1>8. CASE UNCHANGED obVars BY <1>1, <1>8 DEF obVars
<1> QED BY <1>2, <1>3, <1>4, <1>5, <1>6, <1>7, <1>8 DEF OBNext

LEMMA PlansStart == OBInit => PlansHold
BY DEF OBInit, PlansHold, PlanKnown, Free

LEMMA PlansStep == ObjectivesHold /\ PlansHold /\ [OBNext]_obVars => PlansHold'
<1> SUFFICES ASSUME ObjectivesHold, PlansHold, [OBNext]_obVars PROVE PlansHold' OBVIOUS
<1>s. /\ GoalShape(goal) /\ DOMAIN op = Handlers
      /\ \A h \in Handlers : HandlerShape(op[h]) /\ ReadingHolds(op[h]) /\ PlanKnown(op[h], tasks)
      /\ goal.plan \in Nat
      /\ goal.state = "planned" \/ goal.plan # 0 =>
           goal.task \in Ids /\ goal.plan <= tasks[goal.task].plan
      /\ \A i \in Ids : tasks[i].plan \in Nat
  BY DEF ObjectivesHold, ObjectivesShape, PlansHold
<1>r. /\ plans' \in Nat /\ \A i \in Ids : tasks'[i].plan \in 0..plans'
      /\ \A i \in Ids : tasks'[i].plan \in Nat /\ tasks[i].plan <= tasks'[i].plan
  BY TasksGetNewerPlans DEF PlansRise
<1>k. ASSUME NEW h \in Handlers PROVE PlanKnown(op[h], tasks')
  BY <1>r, <1>s DEF PlanKnown
<1> DEFINE BoundPlan == /\ goal.plan \in Nat
                        /\ goal.state = "planned" \/ goal.plan # 0 =>
                             goal.task \in Ids /\ goal.plan <= tasks[goal.task].plan
<1> USE DEF AtStep, GoesTo, Replies, RepliesAndUnlocks, NoTask, NoGoal
<1>1. ASSUME NEW h \in Handlers PROVE PlanKnown(op'[h], tasks')
  <2>1. CASE op'[h].at \notin {"item", "bind", "revised", "rebind"} BY <2>1 DEF PlanKnown
  <2>2. CASE op'[h] = op[h] BY <1>k, <2>2
  <2>3. CASE ReadHash(h)
    <3>1. CASE op'[h] = [op[h] EXCEPT !.at = "item", !.plan = HashFor(op[h].id)]
      <4>0. op[h].at = "hash" /\ UNCHANGED tasks BY <2>3 DEF ReadHash
      <4>1. op[h].id \in Ids BY <1>s, <4>0, OBAssumption DEF ReadingHolds, HandlerShape, Ids
      <4>3. HashFor(op[h].id) # 0
        <5>1. op'[h].at = "item" BY <1>s, <3>1 DEF HandlerShape
        <5>2. CASE HashFor(op[h].id) = 0 BY <1>s, <2>3, <5>1, <5>2 DEF ReadHash, Free
        <5> QED BY <5>2
      <4>2. HashFor(op[h].id) = tasks[op[h].id].plan BY <4>3 DEF HashFor
      <4> QED BY <1>s, <3>1, <4>0, <4>1, <4>2 DEF PlanKnown, HandlerShape
    <3>2. CASE op'[h] = Free BY <3>2 DEF PlanKnown, Free
    <3> QED BY <1>s, <2>3, <3>1, <3>2 DEF ReadHash
  <2>4. CASE ReadObjectiveItem(h)
    <3>1. CASE op'[h] = [op[h] EXCEPT !.at = "bind", !.seen = goal]
      BY <1>s, <2>4, <3>1 DEF ReadObjectiveItem, PlanKnown, HandlerShape
    <3>2. CASE op'[h] = Free BY <3>2 DEF PlanKnown, Free
    <3> QED BY <1>s, <2>4, <3>1, <3>2 DEF ReadObjectiveItem
  <2>5. CASE AskToRebind(h)
    <3>1. op'[h] = [Free EXCEPT !.at = "revised", !.seen = goal, !.id = goal.task] /\ UNCHANGED tasks
      BY <1>s, <2>5 DEF AskToRebind
    <3>2. goal.state = "planned" BY <2>5 DEF AskToRebind
    <3> QED BY <1>s, <3>1, <3>2 DEF PlanKnown, Free
  <2>6. CASE ReadRevisedHash(h)
    <3>1. CASE op'[h] = Free BY <3>1 DEF PlanKnown, Free
    <3>2. CASE /\ op'[h] = [op[h] EXCEPT !.at = "rebind", !.plan = HashFor(op[h].id)]
               /\ HashFor(op[h].id) \notin {0, op[h].seen.plan}
      <4>1. op[h].at = "revised" /\ UNCHANGED tasks BY <2>6 DEF ReadRevisedHash
      <4>2. HashFor(op[h].id) = tasks[op[h].id].plan BY <3>2 DEF HashFor
      <4> QED BY <1>s, <3>2, <4>1, <4>2 DEF PlanKnown, HandlerShape
    <3> QED BY <1>s, <2>6, <3>1, <3>2 DEF ReadRevisedHash
  <2> QED BY <2>1, <2>2, <2>3, <2>4, <2>5, <2>6, PlanReaders
<1>2. BoundPlan'
  <2>1. CASE goal' = goal BY <1>r, <1>s, <2>1
  <2>2. ASSUME NEW h \in Handlers, WriteResumed(h) \/ WriteCancelled(h) PROVE BoundPlan'
    BY <1>r, <1>s, <2>2 DEF WriteResumed, WriteCancelled, GoalShape
  <2>3. ASSUME NEW h \in Handlers, Reserve(h) PROVE BoundPlan'
    BY <1>r, <1>s, <2>3 DEF Reserve, GoalShape, Ids
  <2>4. ASSUME NEW h \in Handlers, WriteBinding(h) PROVE BoundPlan'
    BY <1>r, <1>s, <2>4 DEF WriteBinding, PlanKnown
  <2>5. ASSUME NEW h \in Handlers, WriteRebound(h) PROVE BoundPlan'
    BY <1>r, <1>s, <2>5 DEF WriteRebound, StillAsRead, PlanKnown, GoalShape
  <2> QED BY <2>1, <2>2, <2>3, <2>4, <2>5, GoalWriters
<1> QED BY <1>1, <1>2, <1>r DEF PlansHold

\* No handler revives a cancelled objective or gives it another task, whatever it
\* read before it writes; a bound plan gives way only to a later one of the same
\* task, while the objective is planned (the conditional UPDATEs of
\* ObjectiveService).
THEOREM BindingStands == OBSpec => BindingAndCancelStand
<1> DEFINE Kept == /\ goal.state = "cancelled" => goal'.state = "cancelled"
                   /\ goal.task # 0 => goal'.task = goal.task
                   /\ goal.plan \notin {0, goal'.plan} =>
                        /\ goal.state = "planned" /\ goal'.state = "planned"
                        /\ goal.plan < goal'.plan /\ goal'.plan <= tasks[goal.task].plan
<1>1. ObjectivesHold /\ PlansHold /\ [OBNext]_obVars => Kept
  <2> SUFFICES ASSUME ObjectivesHold, PlansHold, [OBNext]_obVars PROVE Kept OBVIOUS
  <2>s. GoalShape(goal) /\ \A h \in Handlers : ReadingHolds(op[h]) /\ PlanKnown(op[h], tasks)
    BY DEF ObjectivesHold, ObjectivesShape, PlansHold
  <2>1. CASE goal' = goal BY <2>1
  <2>2. ASSUME NEW h \in Handlers, WriteResumed(h) PROVE Kept
    BY <2>2, <2>s DEF WriteResumed, AtStep, StillAsRead, GoalShape, ReadingHolds
  <2>3. ASSUME NEW h \in Handlers, Reserve(h) PROVE Kept
    BY <2>3, <2>s DEF Reserve, GoalShape
  <2>4. ASSUME NEW h \in Handlers, WriteBinding(h) PROVE Kept
    BY <2>4, <2>s DEF WriteBinding, AtStep, StillAsRead, GoalShape, ReadingHolds
  <2>5. ASSUME NEW h \in Handlers, WriteCancelled(h) PROVE Kept
    BY <2>5, <2>s DEF WriteCancelled, GoalShape
  <2>6. ASSUME NEW h \in Handlers, WriteRebound(h) PROVE Kept
    BY <2>6, <2>s DEF WriteRebound, AtStep, StillAsRead, GoalShape, PlanKnown
  <2> QED BY <2>1, <2>2, <2>3, <2>4, <2>5, <2>6, GoalWriters
<1>2. ObjectivesHold /\ PlansHold /\ [OBNext]_obVars => [Kept]_obVars BY <1>1
<1> QED BY <1>2, ObjectivesStart, ObjectivesStep, PlansStart, PlansStep, PTL
        DEF OBSpec, BindingAndCancelStand
-----------------------------------------------------------------------------
(* OwnerProjects: what a completed project proves                            *)

\* Some submission for the competency has been found correct.
Answered(c) == \E s \in Submissions : rows[s].verdict = "correct" /\ rows[s].skill = c

\* How far the missions of the milestone have been attached when a request is at
\* a place: to all competencies before its own, and, once the path or a review
\* knows of the project, to all of them.
RequestHolds(w) ==
  /\ w.op = "assign" => \A c \in Skills : w.at = "link" \/ c < w.skill => links[c] # 0
  /\ w.op = "assign" /\ w.at # "link" => w.skill \in Skills
  /\ w.op = "assign" /\ w.at = "attach" => missions[w.skill].n # 0
  /\ w.op = "objective" /\ w.at = "reserve" => assigned
  /\ w.at \in {"artifacts", "record", "judge", "model", "evaluate", "evidence", "settle",
               "complete", "revise"} => assigned /\ w.op # "assign"
  /\ w.at \in {"complete", "revise", "record", "judge", "model", "evaluate", "evidence", "settle"}
       => w.row \in Submissions

ProjectShape ==
  /\ DOMAIN project = {"state", "mission", "reserved", "task", "artifacts"}
  /\ DOMAIN missions = Skills /\ DOMAIN links = Skills
  /\ \A c \in Skills : /\ DOMAIN missions[c] = {"n", "state", "ours"} /\ missions[c].n \in Nat
                       /\ missions[c].state = "active" => missions[c].n # 0
  /\ DOMAIN rows = Submissions
  /\ \A s \in Submissions : DOMAIN rows[s] = {"kind", "skill", "verdict"}
  /\ DOMAIN request = ProjectHandlers
  /\ \A h \in ProjectHandlers : DOMAIN request[h] = {"op", "at", "skill", "row", "verdict"}

ProjectHolds ==
  /\ assigned => \A c \in Skills : links[c] # 0
  /\ project.reserved => assigned
  /\ project.state \in {"under_review", "needs_revision", "completed"} => assigned
  /\ \A s \in linked : s \in Submissions /\ rows[s].verdict = "correct"
  /\ project.state = "completed" => \A c \in Skills : Answered(c)
  /\ \A h \in ProjectHandlers : RequestHolds(request[h])

LEMMA ProjectsStart == OPInit => ProjectShape /\ ProjectHolds
BY OPAssumption DEF OPInit, ProjectShape, ProjectHolds, RequestHolds, NoProject, NoRow, NoWork, Skills

LEMMA ProjectsStep ==
  ASSUME ProjectShape, ProjectHolds, [OPNext]_opVars
  PROVE  ProjectShape' /\ ProjectHolds'
<1> USE OPAssumption DEF ProjectShape, ProjectHolds, RequestHolds, Answered, NoRow, NoWork, Skills,
        Waits, Begins, Step, Answers, StepIf, State
<1>0. CASE UNCHANGED opVars BY <1>0 DEF opVars
<1>1. CASE ObjectiveGoesOn BY <1>1 DEF ObjectiveGoesOn
<1>2. CASE MissionGoesOn BY SMTT(30), <1>2 DEF MissionGoesOn
<1>3. CASE ServerDies BY <1>3 DEF ServerDies
<1>4. ASSUME NEW h \in ProjectHandlers, AssignProject(h) PROVE ProjectShape' /\ ProjectHolds'
  BY <1>4 DEF AssignProject
<1>5. ASSUME NEW h \in ProjectHandlers, BeginProjectMission(h) PROVE ProjectShape' /\ ProjectHolds'
  <2>1. CASE missions[request[h].skill].state = "active"
    <3>1. CASE missions[request[h].skill].ours BY SMTT(30), <1>5, <2>1, <3>1 DEF BeginProjectMission
    <3>2. CASE ~ missions[request[h].skill].ours BY <1>5, <2>1, <3>2 DEF BeginProjectMission
    <3> QED BY <3>1, <3>2
  <2>2. CASE missions[request[h].skill].state # "active"
    <3> DEFINE c == request[h].skill
    <3>1. c \in Skills /\ missions[c].n \in Nat BY <1>5 DEF BeginProjectMission
    <3>2. missions' = [missions EXCEPT ![c] = [n |-> missions[c].n + 1, state |-> "active", ours |-> TRUE]]
          /\ request' = [request EXCEPT ![h].at = "attach"]
      BY <1>5, <2>2 DEF BeginProjectMission
    <3>3. ProjectShape' BY <1>5, <3>1, <3>2 DEF BeginProjectMission
    <3>4. missions'[c].n # 0 BY <3>1, <3>2
    <3>5. ProjectHolds'
      <4>1. ASSUME NEW k \in ProjectHandlers PROVE RequestHolds(request[k])'
        <5>1. CASE k = h BY <1>5, <3>2, <3>4, <5>1 DEF BeginProjectMission
        <5>2. CASE k # h BY <1>5, <3>1, <3>2, <3>4, <5>2 DEF BeginProjectMission
        <5> QED BY <5>1, <5>2
      <4> QED BY <1>5, <4>1 DEF BeginProjectMission
    <3> QED BY <3>3, <3>5
  <2> QED BY <2>1, <2>2
<1>6. ASSUME NEW h \in ProjectHandlers, AttachMission(h) PROVE ProjectShape' /\ ProjectHolds'
  <2> DEFINE c == request[h].skill
  <2>0. request[h].op = "assign" /\ request[h].at = "attach" /\ c \in Skills /\ missions[c].n # 0
    BY <1>6 DEF AttachMission
  <2>1. CASE project.state \in {"assigned", "active"} /\ links[c] \in {0, missions[c].n}
    <3>1. links' = [links EXCEPT ![c] = missions[c].n] /\ project' = [project EXCEPT !.mission = TRUE]
      BY <1>6, <2>1 DEF AttachMission
    <3>2. CASE c < CompetencyCount
      <4>1. request' = [request EXCEPT ![h].skill = c + 1, ![h].at = "mission"]
        BY <1>6, <2>1, <3>2 DEF AttachMission
      <4> HIDE DEF c
      <4>2. c + 1 \in Skills /\ \A d \in Skills : d < c + 1 => d < c \/ d = c BY <2>0, <3>2
      <4> QED BY <1>6, <2>0, <3>1, <4>1, <4>2 DEF AttachMission, c
    <3>3. CASE ~ (c < CompetencyCount)
      <4>1. request' = [request EXCEPT ![h].at = "link"]
        BY <1>6, <2>1, <3>3 DEF AttachMission
      <4> HIDE DEF c
      <4>2. \A d \in Skills : d < c \/ d = c BY <2>0, <3>3
      <4> QED BY <1>6, <2>0, <3>1, <4>1, <4>2 DEF AttachMission, c
    <3> QED BY <3>2, <3>3
  <2>2. CASE ~ (project.state \in {"assigned", "active"} /\ links[c] \in {0, missions[c].n})
    <3>1. request' = [request EXCEPT ![h] = NoWork] /\ UNCHANGED <<links, project>>
      BY <1>6, <2>2 DEF AttachMission
    <3> QED BY <1>6, <3>1 DEF AttachMission
  <2> QED BY <2>1, <2>2
<1>7. ASSUME NEW h \in ProjectHandlers, LinkAssignment(h) PROVE ProjectShape' /\ ProjectHolds'
  BY <1>7 DEF LinkAssignment
<1>8. ASSUME NEW h \in ProjectHandlers, AskForObjective(h) PROVE ProjectShape' /\ ProjectHolds'
  <2>1. CASE project.reserved
    <3>1. PICK at \in {"missing", "resume", "delegate"} :
             request' = [request EXCEPT ![h] = [NoWork EXCEPT !.op = "objective", !.at = at]]
      BY <1>8, <2>1 DEF AskForObjective
    <3> QED BY <1>8, <3>1 DEF AskForObjective
  <2>2. CASE ~ project.reserved
    <3>1. /\ request' = [request EXCEPT ![h] = [NoWork EXCEPT !.op = "objective", !.at = "reserve"]]
          /\ assigned
      BY ONLY <1>8, <2>2 DEF AskForObjective, Begins
    <3>2. UNCHANGED <<project, assigned, missions, links, objective, delegated, task, rows, linked,
                      reviewer, ended>>
      BY ONLY <1>8 DEF AskForObjective
    <3> QED BY <3>1, <3>2
  <2> QED BY <2>1, <2>2
<1>9. ASSUME NEW h \in ProjectHandlers, ObjectiveIsMissing(h) PROVE ProjectShape' /\ ProjectHolds'
  BY <1>9 DEF ObjectiveIsMissing
<1>10. ASSUME NEW h \in ProjectHandlers, ReserveObjectiveId(h) PROVE ProjectShape' /\ ProjectHolds'
  BY <1>10 DEF ReserveObjectiveId
<1>11. ASSUME NEW h \in ProjectHandlers, CreateObjective(h) PROVE ProjectShape' /\ ProjectHolds'
  BY <1>11 DEF CreateObjective
<1>12. ASSUME NEW h \in ProjectHandlers, ResumeObjective(h) PROVE ProjectShape' /\ ProjectHolds'
  BY <1>12 DEF ResumeObjective
<1>13. ASSUME NEW h \in ProjectHandlers, LinkMissionObjective(h) PROVE ProjectShape' /\ ProjectHolds'
  BY <1>13 DEF LinkMissionObjective
<1>14. ASSUME NEW h \in ProjectHandlers, AttachTask(h) PROVE ProjectShape' /\ ProjectHolds'
  BY <1>14 DEF AttachTask
<1>15. ASSUME NEW h \in ProjectHandlers, AddTaskArtifacts(h) PROVE ProjectShape' /\ ProjectHolds'
  BY <1>15 DEF AddTaskArtifacts
<1>16. ASSUME NEW h \in ProjectHandlers, NEW k \in {"review", "artifact"}, NEW s \in Submissions,
              NEW c \in Skills, ReserveSubmission(h, k, s, c)
       PROVE  ProjectShape' /\ ProjectHolds'
  BY SMTT(30), <1>16 DEF ReserveSubmission, AcceptsSubmission
<1>17. ASSUME NEW h \in ProjectHandlers, RecordProjectAttempt(h) PROVE ProjectShape' /\ ProjectHolds'
  <2> DEFINE s == request[h].row
             c == request[h].skill
             live == missions[c].state = "active" /\ missions[c].n = links[c]
  <2>0. s \in Submissions /\ request[h].at = "record" BY <1>17 DEF RecordProjectAttempt
  <2>1. CASE rows[s].verdict = "none" /\ live
    <3>1. /\ rows' = [rows EXCEPT ![s].verdict = "pending"]
          /\ missions' = [missions EXCEPT ![c].ours = FALSE]
          /\ request' = [request EXCEPT ![h].at = "judge"]
      BY <1>17, <2>1 DEF RecordProjectAttempt
    <3> QED BY <1>17, <2>0, <2>1, <3>1 DEF RecordProjectAttempt
  <2>2. CASE rows[s].verdict = "none" /\ ~ live
    <3>1. /\ rows' = [rows EXCEPT ![s].verdict = "pending"]
          /\ missions' = missions
          /\ request' = [request EXCEPT ![h] = NoWork]
      BY <1>17, <2>2 DEF RecordProjectAttempt
    <3> HIDE DEF live
    <3> QED BY <1>17, <2>0, <2>2, <3>1 DEF RecordProjectAttempt
  <2>3. CASE rows[s].verdict # "none"
    <3>1. PICK at \in {"judge", "evidence"} : request' = [request EXCEPT ![h].at = at]
      BY <1>17, <2>3 DEF RecordProjectAttempt
    <3>2. UNCHANGED <<rows, missions>> BY <1>17, <2>3 DEF RecordProjectAttempt
    <3> HIDE DEF live
    <3> QED BY <1>17, <2>0, <3>1, <3>2 DEF RecordProjectAttempt
  <2> QED BY <2>1, <2>2, <2>3
<1>18. ASSUME NEW h \in ProjectHandlers, AskEvaluator(h) PROVE ProjectShape' /\ ProjectHolds'
  BY <1>18 DEF AskEvaluator
<1>19. ASSUME NEW h \in ProjectHandlers, EvaluatorAnswers(h) PROVE ProjectShape' /\ ProjectHolds'
  BY <1>19 DEF EvaluatorAnswers
<1>20. ASSUME NEW h \in ProjectHandlers, EvaluateProjectAttempt(h) PROVE ProjectShape' /\ ProjectHolds'
  BY <1>20 DEF EvaluateProjectAttempt
<1>21. ASSUME NEW h \in ProjectHandlers, LinkEvidence(h) PROVE ProjectShape' /\ ProjectHolds'
  BY <1>21 DEF LinkEvidence
<1>22. ASSUME NEW h \in ProjectHandlers, Settle(h) PROVE ProjectShape' /\ ProjectHolds'
  BY <1>22 DEF Settle
<1>23. ASSUME NEW h \in ProjectHandlers, RecordReviewResult(h) PROVE ProjectShape' /\ ProjectHolds'
  BY <1>23 DEF RecordReviewResult, MayRecord, Shown, Bound
<1> HIDE DEF ProjectShape, ProjectHolds, RequestHolds, Answered, NoRow, NoWork, Skills,
        Waits, Begins, Step, Answers, StepIf, State
<1> QED
  BY <1>0, <1>1, <1>2, <1>3, <1>4, <1>5, <1>6, <1>7, <1>8, <1>9, <1>10, <1>11, <1>12, <1>13,
     <1>14, <1>15, <1>16, <1>17, <1>18, <1>19, <1>20, <1>21, <1>22, <1>23 DEF OPNext

\* A completed project has a correct answer for every competency of its
\* milestone, although its missions are attached one by one and handlers die
\* between any two steps (record_review_result and link_project_assignment).
THEOREM CompletionIsProved == OPSpec => []CompletedProvesEveryCompetency
<1>1. ProjectHolds => CompletedProvesEveryCompetency
  BY DEF ProjectHolds, CompletedProvesEveryCompetency, Answered, Proved
<1> QED BY <1>1, ProjectsStart, ProjectsStep, PTL DEF OPSpec
-----------------------------------------------------------------------------
(* ProactiveEvents: one notification for one thing                            *)

NoticeShape(n) ==
  DOMAIN n = {"watch", "payload", "made", "recent", "acknowledged", "shown"}

\* Every notification goes with a recorded event, and no two with the same one.
ToldHolds ==
  /\ IsFiniteSet(notices)
  /\ \A n \in notices : NoticeShape(n) /\ <<n.watch, n.payload>> \in noted
  /\ \A n, k \in notices : n.watch = k.watch /\ n.payload = k.payload => n = k
  /\ Cardinality(Recent) <= PerHour

LEMMA ImageIsNoLarger ==
  ASSUME NEW S, IsFiniteSet(S), NEW f, DOMAIN f = S, f = [x \in S |-> f[x]],
         NEW T, T = {f[x] : x \in S}
  PROVE  IsFiniteSet(T) /\ Cardinality(T) <= Cardinality(S)
<1>1. f \in Surjection(S, T) BY DEF Surjection
<1> QED BY <1>1, FS_Surjection

LEMMA RecentIsFinite ==
  ASSUME IsFiniteSet(notices) PROVE IsFiniteSet(Recent) /\ Cardinality(Recent) \in Nat
<1>1. Recent \in SUBSET notices BY DEF Recent
<1> QED BY <1>1, FS_Subset, FS_CardinalityType

\* The table is redrawn row by row: acknowledged, shown, or grown old.
LEMMA RowsRedrawn ==
  ASSUME ToldHolds, NEW f, DOMAIN f = notices, f = [n \in notices |-> f[n]],
         notices' = {f[n] : n \in notices}, noted' = noted,
         \A n \in notices : /\ NoticeShape(f[n])
                            /\ f[n].watch = n.watch /\ f[n].payload = n.payload
                            /\ f[n].recent => n.recent
  PROVE  ToldHolds'
<1> USE DEF ToldHolds
<1>1. IsFiniteSet(notices') BY ImageIsNoLarger
<1>2. ASSUME NEW n \in notices' PROVE NoticeShape(n) /\ <<n.watch, n.payload>> \in noted'
  <2>1. PICK k \in notices : n = f[k] OBVIOUS
  <2> QED BY <2>1
<1>3. \A n, k \in notices' : n.watch = k.watch /\ n.payload = k.payload => n = k OBVIOUS
<1>4. Cardinality(Recent') <= PerHour
  <2> DEFINE g == [n \in Recent |-> f[n]]
             T == {g[n] : n \in Recent}
  <2>1. IsFiniteSet(Recent) BY RecentIsFinite
  <2>2. IsFiniteSet(T) /\ Cardinality(T) <= Cardinality(Recent)
    <3>1. DOMAIN g = Recent /\ g = [n \in Recent |-> g[n]] OBVIOUS
    <3>2. T = {g[n] : n \in Recent} OBVIOUS
    <3> HIDE DEF g, T
    <3> QED BY ONLY <2>1, <3>1, <3>2, ImageIsNoLarger
  <2>3. Recent' \subseteq T BY DEF Recent
  <2>4. Cardinality(Recent') <= Cardinality(T) BY <2>2, <2>3, FS_Subset
  <2>5. IsFiniteSet(Recent') BY <2>2, <2>3, FS_Subset
  <2>6. Cardinality(Recent) \in Nat /\ Cardinality(T) \in Nat /\ Cardinality(Recent') \in Nat
    BY <2>1, <2>2, <2>5, FS_CardinalityType
  <2> HIDE DEF T
  <2> QED BY <2>2, <2>4, <2>6, PEAssumption
<1> QED BY <1>1, <1>2, <1>3, <1>4

\* ingest's insert: a new event, and a notification if the hour allows it.
LEMMA NoticeAdded ==
  ASSUME ToldHolds, NEW n, NoticeShape(n), ~ AlreadyNoted(n.watch, n.payload),
         noted' = noted \cup {<<n.watch, n.payload>>},
         Cardinality(Recent) < PerHour, notices' = notices \cup {n}
  PROVE  ToldHolds'
<1> USE DEF ToldHolds
<1>1. IsFiniteSet(notices') BY FS_AddElement
<1>2. \A k \in notices : <<k.watch, k.payload>> # <<n.watch, n.payload>> BY DEF AlreadyNoted
<1>3. \A k \in notices' : NoticeShape(k) /\ <<k.watch, k.payload>> \in noted' OBVIOUS
<1>4. \A l, k \in notices' : l.watch = k.watch /\ l.payload = k.payload => l = k BY <1>2
<1>5. Cardinality(Recent') <= PerHour
  <2>1. IsFiniteSet(Recent) BY RecentIsFinite
  <2>2. Recent' \subseteq Recent \cup {n} BY DEF Recent
  <2>3. IsFiniteSet(Recent \cup {n}) /\ Cardinality(Recent \cup {n}) <= Cardinality(Recent) + 1
    <3>1. Cardinality(Recent) \in Nat BY <2>1, FS_CardinalityType
    <3>2. /\ IsFiniteSet(Recent \cup {n})
          /\ Cardinality(Recent \cup {n}) = IF n \in Recent THEN Cardinality(Recent)
                                           ELSE Cardinality(Recent) + 1
      BY ONLY <2>1, FS_AddElement
    <3> QED BY ONLY <3>1, <3>2
  <2>4. Cardinality(Recent') <= Cardinality(Recent \cup {n}) /\ IsFiniteSet(Recent')
    BY <2>2, <2>3, FS_Subset
  <2>5. Cardinality(Recent') \in Nat /\ Cardinality(Recent \cup {n}) \in Nat
        /\ Cardinality(Recent) \in Nat
    BY <2>1, <2>3, <2>4, FS_CardinalityType
  <2> QED BY <2>3, <2>4, <2>5, PEAssumption
<1> QED BY <1>1, <1>3, <1>4, <1>5

LEMMA NoNoticeChange ==
  ASSUME ToldHolds, notices' = notices, noted \subseteq noted'
  PROVE  ToldHolds'
BY DEF ToldHolds, Recent

LEMMA ToldStep == ToldHolds /\ [PENext]_peVars => ToldHolds'
<1> SUFFICES ASSUME ToldHolds, [PENext]_peVars PROVE ToldHolds' OBVIOUS
<1>0. CASE UNCHANGED peVars BY <1>0, NoNoticeChange DEF peVars
<1>1. CASE ClaimDue BY <1>1, NoNoticeChange DEF ClaimDue
<1>2. CASE Observe BY <1>2, NoNoticeChange DEF Observe
<1>3. CASE ObserverFails BY <1>3, NoNoticeChange DEF ObserverFails
<1>4. CASE Ingest
  <2> DEFINE w == Head(poll.rows)
             n == [watch |-> w, payload |-> poll.found, made |-> poll.n, recent |-> TRUE,
                   acknowledged |-> FALSE, shown |-> FALSE]
  <2>1. CASE ~ watch[w].enabled \/ AlreadyNoted(w, poll.found)
    <3>1. UNCHANGED <<noted, notices>> BY <1>4, <2>1 DEF Ingest
    <3> QED BY <3>1, NoNoticeChange
  <2>2. CASE watch[w].enabled /\ ~ AlreadyNoted(w, poll.found)
    <3>1. noted' = noted \cup {<<w, poll.found>>} BY <1>4, <2>2 DEF Ingest
    <3>2. CASE Cardinality(Recent) >= PerHour
      <4>1. notices' = notices BY <1>4, <2>2, <3>2 DEF Ingest
      <4> QED BY <3>1, <4>1, NoNoticeChange
    <3>3. CASE ~ (Cardinality(Recent) >= PerHour)
      <4>1. notices' = notices \cup {n} BY <1>4, <2>2, <3>3 DEF Ingest
      <4>2. n.watch = w /\ n.payload = poll.found /\ NoticeShape(n) BY DEF NoticeShape
      <4>3. Cardinality(Recent) \in Nat BY RecentIsFinite DEF ToldHolds
      <4>4. Cardinality(Recent) < PerHour BY <3>3, <4>3, PEAssumption
      <4> HIDE DEF n
      <4> QED BY <2>2, <3>1, <4>1, <4>2, <4>4, NoticeAdded
    <3> QED BY <3>2, <3>3
  <2> QED BY <2>1, <2>2
<1>5. CASE PollReturns
  <2> DEFINE f == [n \in notices |-> IF <<n.watch, n.payload, n.made>> \in ToSet(poll.made)
                                    THEN [n EXCEPT !.shown = TRUE] ELSE n]
  <2>1. notices' = {f[n] : n \in notices} /\ noted' = noted BY <1>5 DEF PollReturns
  <2>2. \A n \in notices : /\ NoticeShape(f[n])
                           /\ f[n].watch = n.watch /\ f[n].payload = n.payload
                           /\ f[n].recent => n.recent
    BY DEF ToldHolds, NoticeShape
  <2>3. DOMAIN f = notices /\ f = [n \in notices |-> f[n]] OBVIOUS
  <2> HIDE DEF f
  <2> QED BY <2>1, <2>2, <2>3, RowsRedrawn
<1>6. CASE Acknowledge
  <2>0. PICK k \in notices : notices' = (notices \ {k}) \cup {[k EXCEPT !.acknowledged = TRUE]}
    BY <1>6 DEF Acknowledge
  <2> DEFINE f == [n \in notices |-> IF n = k THEN [k EXCEPT !.acknowledged = TRUE] ELSE n]
  <2>1. notices' = {f[n] : n \in notices} /\ noted' = noted BY <1>6, <2>0 DEF Acknowledge
  <2>2. \A n \in notices : /\ NoticeShape(f[n])
                           /\ f[n].watch = n.watch /\ f[n].payload = n.payload
                           /\ f[n].recent => n.recent
    BY DEF ToldHolds, NoticeShape
  <2>3. DOMAIN f = notices /\ f = [n \in notices |-> f[n]] OBVIOUS
  <2> HIDE DEF f
  <2> QED BY <2>1, <2>2, <2>3, RowsRedrawn
<1>7. CASE Disable BY <1>7, NoNoticeChange DEF Disable
<1>8. CASE FactChanges BY <1>8, NoNoticeChange DEF FactChanges
<1>9. CASE FallsDue BY <1>9, NoNoticeChange DEF FallsDue
<1>10. CASE HourPasses
  <2> DEFINE f == [n \in notices |-> [n EXCEPT !.recent = FALSE]]
  <2>1. notices' = {f[n] : n \in notices} /\ noted' = noted BY <1>10 DEF HourPasses
  <2>2. \A n \in notices : /\ NoticeShape(f[n])
                           /\ f[n].watch = n.watch /\ f[n].payload = n.payload
                           /\ f[n].recent => n.recent
    BY DEF ToldHolds, NoticeShape
  <2>3. DOMAIN f = notices /\ f = [n \in notices |-> f[n]] OBVIOUS
  <2> HIDE DEF f
  <2> QED BY <2>1, <2>2, <2>3, RowsRedrawn
<1>11. CASE Restart BY <1>11, NoNoticeChange DEF Restart
<1> QED BY <1>0, <1>1, <1>2, <1>3, <1>4, <1>5, <1>6, <1>7, <1>8, <1>9, <1>10, <1>11 DEF PENext

\* The owner is told of one thing once, and never more than the hourly bound,
\* whatever polls, restarts and acknowledgements come between
\* (ProactiveEventEngine.ingest).
THEOREM OwnerIsToldOnce == PESpec => []ToldOnce
<1>1. PEInit => ToldHolds
  BY FS_EmptySet, PEAssumption DEF PEInit, ToldHolds, Recent
<1>2. ToldHolds => ToldOnce BY DEF ToldHolds, ToldOnce
<1> QED BY <1>1, <1>2, ToldStep, PTL DEF PESpec
-----------------------------------------------------------------------------
(* OwnerMemory: one text of what was corrected                               *)

MemoryRow == [kind : {"working", "preference"}, subject : Subjects, state : States,
              dated : BOOLEAN, replaces : Nat]
\* What no operation makes active again.
Settled == {"superseded", "deleted", "expired"}

\* What was replaced is settled, and one record replaces it.
MemoryHolds ==
  /\ record \in Seq(MemoryRow)
  /\ \A k \in Rows : record[k].replaces # 0 =>
       record[k].replaces \in Rows /\ record[record[k].replaces].state \in Settled
  /\ \A j, k \in Rows : record[j].replaces = record[k].replaces /\ record[j].replaces # 0 => j = k

LEMMA LineageStarts == ASSUME NEW n \in Rows PROVE n \in Lineage(n)
BY DEF Lineage

LEMMA LineageIsClosed ==
  ASSUME NEW n \in Rows PROVE ClosedUnderCorrection(Lineage(n))
<1> SUFFICES ASSUME NEW k \in Rows, record[k].replaces \in Lineage(n) PROVE k \in Lineage(n)
  BY DEF ClosedUnderCorrection
<1>1. ASSUME NEW recs \in SUBSET Rows, n \in recs, ClosedUnderCorrection(recs) PROVE k \in recs
  <2>1. record[k].replaces \in recs BY <1>1 DEF Lineage
  <2> QED BY <1>1, <2>1 DEF ClosedUnderCorrection
<1> QED BY <1>1 DEF Lineage

LEMMA LineageIsLeast ==
  ASSUME NEW n \in Rows, NEW recs \in SUBSET Rows, n \in recs, ClosedUnderCorrection(recs)
  PROVE  Lineage(n) \subseteq recs
BY DEF Lineage

LEMMA OneActiveOfALineage ==
  ASSUME MemoryHolds, NEW n \in Rows, NEW u \in Lineage(n) \cap Active, NEW v \in Lineage(n) \cap Active
  PROVE  u = v
<1>0. /\ u \in Rows /\ v \in Rows /\ record[u].state = "active" /\ record[v].state = "active"
      /\ 0 \notin Rows
  BY DEF Active, Rows
<1> DEFINE before == {k \in Rows : v \in Lineage(k)}
<1>1. ClosedUnderCorrection(before)
  <2> SUFFICES ASSUME NEW k \in Rows, record[k].replaces \in before PROVE k \in before
    BY DEF ClosedUnderCorrection
  <2> DEFINE m == record[k].replaces
  <2>1. m \in Rows /\ v \in Lineage(m) OBVIOUS
  <2>2. m # 0 BY <1>0, <2>1
  <2>3. v # m
    <3>1. record[m].state \in Settled BY <2>2 DEF MemoryHolds
    <3> QED BY <1>0, <3>1 DEF Settled
  <2> DEFINE tail == {m} \cup Lineage(k)
  <2>4. ClosedUnderCorrection(tail)
    <3> SUFFICES ASSUME NEW j \in Rows, record[j].replaces \in tail PROVE j \in tail
      BY DEF ClosedUnderCorrection
    <3>1. CASE record[j].replaces = m
      <4>1. j = k BY <2>2, <3>1 DEF MemoryHolds
      <4> QED BY <4>1, LineageStarts
    <3>2. CASE record[j].replaces \in Lineage(k)
      BY <3>2, LineageIsClosed DEF ClosedUnderCorrection
    <3> QED BY <3>1, <3>2
  <2>5. tail \in SUBSET Rows /\ m \in tail BY <2>1 DEF Lineage
  <2> HIDE DEF tail, m
  <2>6. v \in tail BY <2>1, <2>4, <2>5, LineageIsLeast
  <2>7. v \in Lineage(k) BY <2>3, <2>6 DEF tail
  <2> QED BY <2>7 DEF before
<1>2. before \in SUBSET Rows /\ n \in before OBVIOUS
<1> HIDE DEF before
<1>3. u \in before BY <1>1, <1>2, LineageIsLeast
<1>4. ClosedUnderCorrection({u})
  <2> SUFFICES ASSUME NEW k \in Rows, record[k].replaces = u PROVE FALSE
    BY DEF ClosedUnderCorrection
  <2>1. record[u].state \in Settled BY <1>0 DEF MemoryHolds
  <2> QED BY <1>0, <2>1 DEF Settled
<1>5. Lineage(u) \subseteq {u} BY <1>0, <1>4, LineageIsLeast
<1> QED BY <1>3, <1>5 DEF before

LEMMA MemoryIsOneText == MemoryHolds => OneTextPerCorrection
<1> SUFFICES ASSUME MemoryHolds, NEW n \in Rows PROVE Cardinality(Lineage(n) \cap Active) <= 1
  BY DEF OneTextPerCorrection
<1> DEFINE kept == Lineage(n) \cap Active
<1>1. CASE kept = {} BY <1>1, FS_EmptySet
<1>2. CASE kept # {}
  <2>1. PICK u : u \in kept BY <1>2
  <2>2. kept = {u} BY <2>1, OneActiveOfALineage
  <2> HIDE DEF kept
  <2>3. Cardinality(kept) = 1 BY <2>2, FS_Singleton
  <2> QED BY <2>3 DEF kept
<1> QED BY <1>1, <1>2

\* Every statement that sets the state of rows that are not settled, or settles
\* rows, keeps the invariant.
LEMMA StatesSet ==
  ASSUME MemoryHolds, NEW ns, NEW state \in States, Becomes(ns, state),
         state \in Settled \/ \A n \in ns \cap Rows : record[n].state \notin Settled
  PROVE  MemoryHolds'
<1>1. /\ record' = [n \in 1..Len(record) |-> IF n \in ns THEN [record[n] EXCEPT !.state = state]
                                            ELSE record[n]]
      /\ record \in Seq(MemoryRow) /\ Len(record) \in Nat /\ Rows = 1..Len(record)
  BY DEF Becomes, MemoryHolds, Rows
<1>2. \A n \in 1..Len(record) : record[n] \in MemoryRow BY <1>1
<1>3. \A n \in 1..Len(record) : record'[n] \in MemoryRow /\ record'[n].replaces = record[n].replaces
      /\ (n \in ns => record'[n].state = state) /\ (n \notin ns => record'[n] = record[n])
  BY <1>1, <1>2 DEF MemoryRow
<1>4. record' \in Seq(MemoryRow) /\ Len(record') = Len(record)
  <2>1. DOMAIN record' = 1..Len(record) BY <1>1
  <2>2. record' \in [1..Len(record) -> MemoryRow] BY <1>1, <1>3, <2>1
  <2>3. record' \in Seq(MemoryRow) BY <1>1, <2>2, SeqDef
  <2>4. Len(record') \in Nat /\ 1..Len(record') = 1..Len(record)
    BY <2>1, <2>3, LenProperties
  <2> QED BY <1>1, <2>3, <2>4
<1>5. Rows' = Rows BY <1>1, <1>4 DEF Rows
<1>6. \A n \in Rows : record[n].state \in Settled => record'[n].state \in Settled
  BY <1>1, <1>3
<1>7. \A k \in Rows : record'[k].replaces # 0 =>
        record'[k].replaces \in Rows /\ record'[record'[k].replaces].state \in Settled
  BY <1>1, <1>3, <1>6 DEF MemoryHolds
<1>8. \A j, k \in Rows : record'[j].replaces = record'[k].replaces /\ record'[j].replaces # 0 => j = k
  BY <1>1, <1>3 DEF MemoryHolds
<1> QED BY <1>4, <1>5, <1>7, <1>8 DEF MemoryHolds

\* remember: the new record, and what it replaces superseded with it.
LEMMA CorrectionWritten ==
  ASSUME MemoryHolds, NEW c \in Callers, Remember(c)
  PROVE  MemoryHolds'
<1>1. PICK kind \in {"working", "preference"}, s \in Subjects, dated \in BOOLEAN, old \in {0} \cup Rows :
        /\ old # 0 => Replaceable(old)
        /\ record' = Append(IF old = 0 THEN record ELSE [record EXCEPT ![old].state = "superseded"],
                            [kind |-> kind, subject |-> s, state |-> "active", dated |-> dated,
                             replaces |-> old])
  BY DEF Remember
<1> DEFINE n == Len(record)
           new == [kind |-> kind, subject |-> s, state |-> "active", dated |-> dated,
                   replaces |-> old]
           kept == IF old = 0 THEN record ELSE [record EXCEPT ![old].state = "superseded"]
<1>2. record \in Seq(MemoryRow) /\ n \in Nat /\ Rows = 1..n BY DEF MemoryHolds, Rows
<1>3. new \in MemoryRow /\ new.replaces = old /\ old \in {0} \cup 1..n
  BY <1>2 DEF MemoryRow, States
<1>4. /\ kept \in Seq(MemoryRow) /\ Len(kept) = n
      /\ \A k \in 1..n : /\ kept[k].replaces = record[k].replaces
                         /\ k = old => kept[k].state = "superseded"
                         /\ k # old => kept[k] = record[k]
  <2>1. CASE old = 0 BY <1>2, <2>1
  <2>2. CASE old # 0
    <3> DEFINE row == [record[old] EXCEPT !.state = "superseded"]
    <3>1. old \in 1..n /\ record[old] \in MemoryRow BY <1>2, <1>3, <2>2
    <3>2. row \in MemoryRow /\ row.replaces = record[old].replaces /\ row.state = "superseded"
      BY <3>1 DEF MemoryRow, States
    <3>3. kept = [record EXCEPT ![old] = row] BY <2>2
    <3> HIDE DEF row, kept
    <3> QED BY <1>2, <3>1, <3>2, <3>3, ExceptSeq
  <2> QED BY <2>1, <2>2
<1>5. record' = Append(kept, new) BY <1>1
<1> HIDE DEF kept, new
<1>6. /\ record' \in Seq(MemoryRow) /\ Len(record') = n + 1 /\ record'[n + 1] = new
      /\ \A k \in 1..n : record'[k] = kept[k]
  BY SMTT(30), <1>2, <1>3, <1>4, <1>5
<1>7. Rows' = 1..(n + 1) /\ \A k \in Rows' : k \in 1..n \/ k = n + 1
  BY <1>2, <1>6 DEF Rows
<1> HIDE DEF n
<1>8. \A k \in 1..n : record[k].state \in Settled => record'[k].state \in Settled
  BY <1>4, <1>6 DEF Settled
<1>9. old # 0 => \A k \in 1..n : record[k].replaces # old
  <2> SUFFICES ASSUME old # 0, NEW k \in 1..n, record[k].replaces = old PROVE FALSE OBVIOUS
  <2>1. record[old].state = "active" BY <1>1 DEF Replaceable
  <2>2. record[old].state \in Settled BY <1>2 DEF MemoryHolds
  <2> QED BY <2>1, <2>2 DEF Settled
<1>10. ASSUME NEW k \in Rows', record'[k].replaces # 0
       PROVE  record'[k].replaces \in Rows' /\ record'[record'[k].replaces].state \in Settled
  <2>1. CASE k \in 1..n
    <3> DEFINE m == record[k].replaces
    <3>1. record'[k].replaces = m BY <1>4, <1>6, <2>1
    <3>2. m \in 1..n /\ record[m].state \in Settled BY <1>2, <1>10, <2>1, <3>1 DEF MemoryHolds
    <3> HIDE DEF m
    <3> QED BY <1>2, <1>7, <1>8, <3>1, <3>2
  <2>2. CASE k = n + 1
    <3>1. record'[k].replaces = old /\ old \in 1..n BY <1>3, <1>6, <1>10, <2>2
    <3>2. record'[old].state = "superseded" BY <1>4, <1>6, <3>1
    <3> QED BY <1>2, <1>7, <3>1, <3>2 DEF Settled
  <2> QED BY <1>7, <2>1, <2>2
<1>11. ASSUME NEW j \in Rows', NEW k \in Rows', record'[j].replaces = record'[k].replaces,
              record'[j].replaces # 0
       PROVE  j = k
  <2>1. CASE j \in 1..n /\ k \in 1..n
    BY <1>2, <1>4, <1>6, <1>11, <2>1 DEF MemoryHolds
  <2>2. CASE j \in 1..n /\ k = n + 1
    BY <1>3, <1>4, <1>6, <1>9, <1>11, <2>2
  <2>3. CASE j = n + 1 /\ k \in 1..n
    BY <1>3, <1>4, <1>6, <1>9, <1>11, <2>3
  <2> QED BY <1>7, <2>1, <2>2, <2>3
<1> QED BY <1>6, <1>10, <1>11 DEF MemoryHolds

LEMMA MemoryStep == MemoryHolds /\ [OMNext]_omVars => MemoryHolds'
<1> SUFFICES ASSUME MemoryHolds, [OMNext]_omVars PROVE MemoryHolds' OBVIOUS
<1>0. record' = record => MemoryHolds' BY DEF MemoryHolds, Rows
<1>e. EnforceRetention => MemoryHolds'
  <2>1. "expired" \in States /\ "expired" \in Settled BY DEF States, Settled
  <2> QED BY <2>1, StatesSet DEF EnforceRetention
<1>1. CASE UNCHANGED omVars BY <1>0, <1>1 DEF omVars
<1>2. ASSUME NEW c \in Callers, Remember(c) PROVE MemoryHolds' BY <1>2, CorrectionWritten
<1>3. ASSUME NEW c \in Callers, BoundAfterRemember(c) PROVE MemoryHolds'
  BY <1>3, <1>e DEF BoundAfterRemember
<1>4. ASSUME NEW c \in Callers, BeginSearch(c) PROVE MemoryHolds' BY <1>4, <1>e DEF BeginSearch
<1>5. ASSUME NEW c \in Callers, ReadActive(c) \/ AnswerSearch(c) \/ ReadSetting(c) \/ Project(c)
      PROVE MemoryHolds'
  BY <1>0, <1>5 DEF ReadActive, AnswerSearch, ReadSetting, Project
<1>6. ASSUME NEW n \in Rows, MarkConflicted(n) PROVE MemoryHolds'
  <2>1. Becomes({n}, "conflicted") /\ "conflicted" \in States BY <1>6 DEF MarkConflicted, States
  <2>2. \A k \in {n} \cap Rows : record[k].state \notin Settled BY <1>6 DEF MarkConflicted, Settled
  <2> QED BY <2>1, <2>2, StatesSet
<1>7. ASSUME NEW n \in Rows, ResolveConflict(n) PROVE MemoryHolds'
  <2>1. PICK state \in {"active", "deleted"} : Becomes({n}, state) BY <1>7 DEF ResolveConflict
  <2>2. \A k \in {n} \cap Rows : record[k].state \notin Settled
    BY <1>7 DEF ResolveConflict, Disputed, Settled
  <2>3. state \in States BY DEF States
  <2> QED BY <2>1, <2>2, <2>3, StatesSet
<1>8. ASSUME NEW n \in Rows, Forget(n) PROVE MemoryHolds'
  <2>1. Becomes({n}, "deleted") /\ "deleted" \in States /\ "deleted" \in Settled
    BY <1>8 DEF Forget, States, Settled
  <2> QED BY <2>1, StatesSet
<1>9. ASSUME NEW n \in Rows, Lapse(n) PROVE MemoryHolds' BY <1>0, <1>9 DEF Lapse
<1>10. CASE Retain BY <1>10, <1>e DEF Retain
<1>11. CASE SetAdaptation \/ Relate \/ ForgetRelationship
  BY <1>0, <1>11 DEF SetAdaptation, Relate, ForgetRelationship
<1> QED BY <1>1, <1>2, <1>3, <1>4, <1>5, <1>6, <1>7, <1>8, <1>9, <1>10, <1>11 DEF OMNext

\* Of a record and all that was written to correct it, one text at most is
\* retrieved, whatever conflicts the owner marks and resolves and whatever
\* retention expires meanwhile (remember, mark_conflicted, resolve_conflict).
THEOREM CorrectionIsTheLastWord == OMSpec => []OneTextPerCorrection
<1>1. OMInit => MemoryHolds
  BY DEF OMInit, MemoryHolds, Rows
<1> QED BY <1>1, MemoryStep, MemoryIsOneText, PTL DEF OMSpec
-----------------------------------------------------------------------------
(* DocumentIndex: the index that is loaded because nothing changed           *)

\* A set of numbers has a least one.
LEMMA LeastOfNats ==
  ASSUME NEW S \in SUBSET Nat, S # {}
  PROVE  \E i \in S : \A j \in S : i <= j
<1> DEFINE R == OpToRel(<, Nat)
<1>1. IsWellFoundedOn(R, Nat) BY NatLessThanWellFounded
<1>2. \A x, y \in Nat : x < y => <<x, y>> \in R BY DEF OpToRel
<1> HIDE DEF R
<1>3. PICK x \in S : \A y \in S : ~ (<<y, x>> \in R) BY <1>1, WFMin
<1>4. \A y \in S : ~(y < x) BY <1>2, <1>3
<1> QED BY <1>3, <1>4

\* The first and the last word of a document's window k (chunk_text).
Begin(k)      == (k - 1) * (ChunkSize - Overlap) + 1
End(k, words) == IF Begin(k) + ChunkSize - 1 < words THEN Begin(k) + ChunkSize - 1 ELSE words

Chunk == [source : Documents, version : Nat, words : Nat \X Nat]

\* A window begins ChunkSize - Overlap words after the one before (chunk_text).
LEMMA WindowsAdvance ==
  ASSUME DIAssumption, NEW k \in Nat, k > 0, NEW words \in Nat
  PROVE  /\ Begin(k) \in Nat /\ Begin(k) >= k /\ Begin(1) = 1
         /\ Begin(k + 1) = Begin(k) + ChunkSize - Overlap
         /\ End(k, words) \in Nat
<1> DEFINE s == ChunkSize - Overlap
<1>1. s \in Nat /\ s >= 1 /\ ChunkSize \in Nat /\ Overlap \in Nat /\ ChunkSize >= 1
  BY DEF DIAssumption
<1>2. k - 1 \in Nat /\ s - 1 \in Nat BY <1>1
<1> HIDE DEF s
<1>3. \A a, b \in Nat : a * b \in Nat OBVIOUS
<1>4. (k - 1) * (s - 1) \in Nat BY <1>2, <1>3
<1>5. (k - 1) * s = (k - 1) * (s - 1) + (k - 1) BY <1>1, <1>2
<1>6. (k + 1 - 1) * s = (k - 1) * s + s BY <1>1
<1>7. Begin(k) = (k - 1) * s + 1 /\ Begin(k + 1) = (k + 1 - 1) * s + 1 BY DEF Begin, s
<1>8. Begin(k) \in Nat /\ Begin(k) >= k BY <1>2, <1>4, <1>5, <1>7
<1>9. Begin(1) = 1
  <2>1. Begin(1) = 0 * s + 1 BY DEF Begin, s
  <2> QED BY <1>1, <2>1
<1>10. Begin(k + 1) = Begin(k) + ChunkSize - Overlap BY <1>1, <1>2, <1>4, <1>5, <1>6, <1>7 DEF s
<1> QED BY <1>1, <1>8, <1>9, <1>10 DEF End

\* Every word of a document is in one of its windows.
LEMMA WindowsCover ==
  ASSUME DIAssumption, NEW words \in Nat
  PROVE  \E count \in 0..words :
           /\ Windows(words) = [k \in 1..count |-> <<Begin(k), End(k, words)>>]
           /\ \A w \in 1..words : \E k \in 1..count : w \in Begin(k)..End(k, words)
<1> DEFINE Enough(k) == /\ words > 0 => k > 0 /\ End(k, words) = words
                        /\ \A j \in 1..(k - 1) : End(j, words) # words
           count == CHOOSE k \in 0..words : Enough(k)
<1>1. ChunkSize \in Nat /\ Overlap \in Nat /\ ChunkSize >= 1 BY DEF DIAssumption
<1>2. Windows(words) = [k \in 1..count |-> <<Begin(k), End(k, words)>>]
  BY DEF Windows, Begin, End
<1>3. \E k \in 0..words : Enough(k)
  <2>1. CASE words = 0 BY <2>1
  <2>2. CASE words > 0
    <3> DEFINE S == {k \in 1..words : End(k, words) = words}
    <3>1. Begin(words) \in Nat /\ Begin(words) >= words BY <2>2, WindowsAdvance
    <3>2. End(words, words) = words BY <1>1, <3>1 DEF End
    <3>3. S # {} /\ S \in SUBSET Nat BY <2>2, <3>2
    <3>4. PICK m \in S : \A j \in S : m <= j BY <3>3, LeastOfNats
    <3>5. m \in 0..words /\ m > 0 /\ End(m, words) = words BY <3>4
    <3>6. \A j \in 1..(m - 1) : End(j, words) # words BY <3>4
    <3> QED BY <3>5, <3>6
  <2> QED BY <2>1, <2>2
<1>4. count \in 0..words /\ Enough(count) BY <1>3
<1> HIDE DEF count
<1>5. ASSUME NEW w \in 1..words PROVE \E k \in 1..count : w \in Begin(k)..End(k, words)
  <2> DEFINE T == {k \in 1..count : w <= End(k, words)}
  <2>1. count \in 1..count /\ End(count, words) = words BY <1>4
  <2>2. T # {} /\ T \in SUBSET Nat BY <2>1
  <2>3. PICK m \in T : \A j \in T : m <= j BY <2>2, LeastOfNats
  <2>4. m \in 1..count /\ w <= End(m, words) /\ m \in Nat /\ m > 0 /\ count \in Nat BY <1>4, <2>3
  <2>5. End(m, words) \in Nat /\ Begin(m) \in Nat BY <2>4, WindowsAdvance
  <2>6. Begin(m) <= w
    <3>1. CASE m = 1 BY <3>1, WindowsAdvance
    <3>2. CASE m # 1
      <4>1. m - 1 \in 1..count /\ m - 1 \in Nat /\ m - 1 > 0 /\ ~ (m <= m - 1) BY <2>4, <3>2
      <4>2. End(m - 1, words) \in Nat /\ Begin(m - 1) \in Nat
            /\ Begin(m - 1 + 1) = Begin(m - 1) + ChunkSize - Overlap
        BY <4>1, WindowsAdvance
      <4>3. ~ (w <= End(m - 1, words)) BY <2>3, <4>1
      <4>4. End(m - 1, words) = Begin(m - 1) + ChunkSize - 1 BY <4>2, <4>3 DEF End
      <4>5. m - 1 + 1 = m BY <2>4
      <4> QED BY <1>1, <4>2, <4>3, <4>4, <4>5
    <3> QED BY <3>1, <3>2
  <2> QED BY <2>4, <2>5, <2>6
<1> QED BY <1>2, <1>4, <1>5

\* The chunks of document d are those of version v: all of it, and of no other.
Fits(chunks, v, d) ==
  /\ \A i \in DOMAIN chunks : chunks[i].source = d => chunks[i].version = v
  /\ \A w \in 1..Words(v) : \E i \in DOMAIN chunks :
       chunks[i].source = d /\ w \in chunks[i].words[1]..chunks[i].words[2]

NoneOf(chunks, d) == \A i \in DOMAIN chunks : chunks[i].source # d

\* A page has a number of words.
LEMMA WordsAreCounted == ASSUME DIAssumption, NEW v \in Nat PROVE Words(v) \in Nat
BY DEF DIAssumption, Words, NativeText, OcrText, NeedsOcr

\* A file that is not there has no words.
LEMMA NoWordsOfNothing == DIAssumption => Words(0) = 0
<1>1. 0 % 3 = 0 OBVIOUS
<1> QED BY <1>1 DEF DIAssumption, Words, NativeText, OcrText, NeedsOcr

\* What is cut from one version of one document is all of it and nothing else.
LEMMA ChunksOfADocument ==
  ASSUME DIAssumption, NEW d \in Documents, NEW v \in Nat
  PROVE  /\ ChunksOf(d, v) \in Seq(Chunk) /\ Fits(ChunksOf(d, v), v, d)
         /\ \A i \in DOMAIN ChunksOf(d, v) : ChunksOf(d, v)[i].source = d
<1> DEFINE words == Words(v)
           c == ChunksOf(d, v)
<1>1. words \in Nat BY WordsAreCounted
<1> HIDE DEF words
<1>2. PICK count \in 0..words :
         /\ Windows(words) = [k \in 1..count |-> <<Begin(k), End(k, words)>>]
         /\ \A w \in 1..words : \E k \in 1..count : w \in Begin(k)..End(k, words)
  BY <1>1, WindowsCover
<1>3. DOMAIN Windows(words) = 1..count /\ count \in Nat BY <1>1, <1>2
<1>4. c = [k \in 1..count |-> [source |-> d, version |-> v, words |-> Windows(words)[k]]]
  BY <1>3 DEF ChunksOf, words
<1>5. c = [k \in 1..count |-> [source |-> d, version |-> v, words |-> <<Begin(k), End(k, words)>>]]
  BY <1>2, <1>4
<1> HIDE DEF c
<1>6. \A k \in 1..count : [source |-> d, version |-> v, words |-> <<Begin(k), End(k, words)>>] \in Chunk
  <2> TAKE k \in 1..count
  <2>1. k \in Nat /\ k > 0 OBVIOUS
  <2>2. Begin(k) \in Nat /\ End(k, words) \in Nat BY <1>1, <2>1, WindowsAdvance
  <2> QED BY <2>2 DEF Chunk
<1>7. c \in [1..count -> Chunk] BY <1>5, <1>6
<1>8. c \in Seq(Chunk) BY <1>3, <1>7
<1>9. DOMAIN c = 1..count BY <1>5
<1>10. \A k \in 1..count : /\ c[k].source = d /\ c[k].version = v
                           /\ c[k].words[1] = Begin(k) /\ c[k].words[2] = End(k, words)
  BY <1>5
<1>11. \A w \in 1..words : \E i \in DOMAIN c : c[i].source = d /\ w \in c[i].words[1]..c[i].words[2]
  <2> TAKE w \in 1..words
  <2>1. PICK k \in 1..count : w \in Begin(k)..End(k, words) BY <1>2
  <2> QED BY <1>9, <1>10, <2>1
<1> QED BY <1>8, <1>9, <1>10, <1>11 DEF Fits, c, words

\* Chunks that are appended are added to those there are, and nothing else
\* (build_document_chunks).
LEMMA ElementsOfBoth ==
  ASSUME NEW c \in Seq(Chunk), NEW e \in Seq(Chunk)
  PROVE  /\ c \o e \in Seq(Chunk)
         /\ \A i \in DOMAIN (c \o e) : \/ \E j \in DOMAIN c : (c \o e)[i] = c[j]
                                       \/ \E j \in DOMAIN e : (c \o e)[i] = e[j]
         /\ \A j \in DOMAIN c : \E i \in DOMAIN (c \o e) : (c \o e)[i] = c[j]
         /\ \A j \in DOMAIN e : \E i \in DOMAIN (c \o e) : (c \o e)[i] = e[j]
<1>1. /\ c \o e \in Seq(Chunk) /\ Len(c \o e) = Len(c) + Len(e)
      /\ \A i \in 1..Len(c) + Len(e) : (c \o e)[i] = IF i <= Len(c) THEN c[i] ELSE e[i - Len(c)]
  BY ConcatProperties
<1>2. /\ DOMAIN c = 1..Len(c) /\ DOMAIN e = 1..Len(e) /\ Len(c) \in Nat /\ Len(e) \in Nat
      /\ DOMAIN (c \o e) = 1..(Len(c) + Len(e))
  BY <1>1
<1>3. \A i \in DOMAIN (c \o e) : \/ \E j \in DOMAIN c : (c \o e)[i] = c[j]
                                 \/ \E j \in DOMAIN e : (c \o e)[i] = e[j]
  <2> TAKE i \in DOMAIN (c \o e)
  <2>1. i \in 1..Len(c) + Len(e) BY <1>2
  <2>2. CASE i <= Len(c)
    <3>1. i \in DOMAIN c /\ (c \o e)[i] = c[i] BY <1>1, <1>2, <2>1, <2>2
    <3> QED BY <3>1
  <2>3. CASE ~ (i <= Len(c))
    <3>1. i - Len(c) \in DOMAIN e /\ (c \o e)[i] = e[i - Len(c)] BY <1>1, <1>2, <2>1, <2>3
    <3> QED BY <3>1
  <2> QED BY <2>2, <2>3
<1>4. \A j \in DOMAIN c : \E i \in DOMAIN (c \o e) : (c \o e)[i] = c[j]
  <2> TAKE j \in DOMAIN c
  <2>1. j \in DOMAIN (c \o e) /\ j \in 1..Len(c) + Len(e) /\ j <= Len(c) BY <1>2
  <2> QED BY <1>1, <2>1
<1>5. \A j \in DOMAIN e : \E i \in DOMAIN (c \o e) : (c \o e)[i] = e[j]
  <2> TAKE j \in DOMAIN e
  <2> DEFINE i == j + Len(c)
  <2>1. i \in DOMAIN (c \o e) /\ i \in 1..Len(c) + Len(e) /\ ~ (i <= Len(c)) /\ i - Len(c) = j
    BY <1>2
  <2>2. (c \o e)[i] = e[j] BY <1>1, <2>1
  <2> QED BY <2>1, <2>2
<1> QED BY <1>1, <1>3, <1>4, <1>5

\* A document's chunks do not depend on those of other documents.
LEMMA FitsBoth ==
  ASSUME NEW c \in Seq(Chunk), NEW e \in Seq(Chunk), NEW d \in Documents, NEW v \in Nat
  PROVE  /\ Fits(c, v, d) /\ NoneOf(e, d) => Fits(c \o e, v, d)
         /\ Fits(e, v, d) /\ NoneOf(c, d) => Fits(c \o e, v, d)
         /\ NoneOf(c, d) /\ NoneOf(e, d) => NoneOf(c \o e, d)
<1> DEFINE b == c \o e
<1>1. /\ \A i \in DOMAIN b : \/ \E j \in DOMAIN c : b[i] = c[j]
                             \/ \E j \in DOMAIN e : b[i] = e[j]
      /\ \A j \in DOMAIN c : \E i \in DOMAIN b : b[i] = c[j]
      /\ \A j \in DOMAIN e : \E i \in DOMAIN b : b[i] = e[j]
  BY ElementsOfBoth
<1> HIDE DEF b
<1>2. Fits(c, v, d) /\ NoneOf(e, d) => Fits(b, v, d)
  <2> SUFFICES ASSUME Fits(c, v, d), NoneOf(e, d) PROVE Fits(b, v, d) OBVIOUS
  <2>1. \A i \in DOMAIN b : b[i].source = d => b[i].version = v BY <1>1 DEF Fits, NoneOf
  <2>2. ASSUME NEW w \in 1..Words(v)
        PROVE  \E i \in DOMAIN b : b[i].source = d /\ w \in b[i].words[1]..b[i].words[2]
    <3>1. PICK j \in DOMAIN c : c[j].source = d /\ w \in c[j].words[1]..c[j].words[2] BY DEF Fits
    <3>2. PICK i \in DOMAIN b : b[i] = c[j] BY <1>1
    <3> QED BY <3>1, <3>2
  <2> QED BY <2>1, <2>2 DEF Fits
<1>3. Fits(e, v, d) /\ NoneOf(c, d) => Fits(b, v, d)
  <2> SUFFICES ASSUME Fits(e, v, d), NoneOf(c, d) PROVE Fits(b, v, d) OBVIOUS
  <2>1. \A i \in DOMAIN b : b[i].source = d => b[i].version = v BY <1>1 DEF Fits, NoneOf
  <2>2. ASSUME NEW w \in 1..Words(v)
        PROVE  \E i \in DOMAIN b : b[i].source = d /\ w \in b[i].words[1]..b[i].words[2]
    <3>1. PICK j \in DOMAIN e : e[j].source = d /\ w \in e[j].words[1]..e[j].words[2] BY DEF Fits
    <3>2. PICK i \in DOMAIN b : b[i] = e[j] BY <1>1
    <3> QED BY <3>1, <3>2
  <2> QED BY <2>1, <2>2 DEF Fits
<1>4. NoneOf(c, d) /\ NoneOf(e, d) => NoneOf(b, d) BY <1>1 DEF NoneOf
<1> QED BY <1>2, <1>3, <1>4 DEF b

\* Document d was read in another version than it was hashed in, and is not version v,
\* or was put back since: from then on nothing is said of it.
Gone(v, d) == d \in misread /\ (d \in restored \/ (v \in 1..newest /\ document[d] # v))

\* The chunks are those of document d in version v, unless it was put back.
Held(chunks, v, d) == Fits(chunks, v, d) \/ d \in restored

\* What a manifest says of document d is so, or says of a content that is gone.
Told(chunks, hashed, d) == Fits(chunks, hashed[d], d) \/ Gone(hashed[d], d)

IndexShape ==
  /\ document \in [Documents -> Nat] /\ newest \in Nat /\ \A d \in Documents : document[d] <= newest
  /\ DOMAIN disk = {"index", "chunks", "manifest"}
  /\ \A f \in {"index", "chunks", "manifest"} : DOMAIN disk[f] = {"state", "body"}
  /\ disk.chunks.state = "whole" => disk.chunks.body \in Seq(Chunk)
  /\ disk.manifest.state = "whole" => disk.manifest.body \in [Documents -> Nat]
  /\ DOMAIN indexer = {"at", "todo", "manifest", "hashed", "chunks", "index", "step", "by"}
  /\ indexer.todo \in SUBSET Documents /\ indexer.manifest \in [Documents -> Nat]
  /\ indexer.hashed \in [Documents -> Nat] /\ indexer.chunks \in Seq(Chunk)
  /\ indexer.step \in 0..5 /\ (indexer.step # 0 => indexer.at = "save")

Stored == /\ \A f \in {"index", "chunks", "manifest"} : disk[f].state = "whole"
          /\ disk.index.body = disk.chunks.body

\* The three files belong together between two saves, unless an indexer died while
\* it saved.
FilesAgree ==
  ~ interrupted /\ indexer.step = 0 =>
    \/ \A f \in {"index", "chunks", "manifest"} : disk[f].state = "missing"
    \/ Stored /\ \A d \in Documents : Told(disk.chunks.body, disk.manifest.body, d)

\* An indexer that compares: a document whose hash is the recorded one is in the
\* stored chunks.
Compared ==
  indexer.at \in {"compare", "load"} /\ ~ interrupted =>
    /\ Stored /\ indexer.manifest = disk.manifest.body
    /\ \A d \in Documents \ indexer.todo :
         indexer.hashed[d] = indexer.manifest[d] => Held(disk.chunks.body, indexer.manifest[d], d)
    /\ indexer.at = "load" => indexer.hashed = indexer.manifest /\ indexer.todo = {}

\* An indexer that builds: a document is read after it was hashed, and before any
\* other is hashed.
Scanned ==
  indexer.at \in {"scan", "extract"} =>
    /\ \A d \in Documents \ indexer.todo : Told(indexer.chunks, indexer.hashed, d)
    /\ \A d \in indexer.todo : NoneOf(indexer.chunks, d)
    /\ indexer.at = "extract" => /\ indexer.todo # {}
                                 /\ indexer.hashed[Next1(indexer.todo)] \in 1..newest

Saved ==
  indexer.at = "save" =>
    /\ indexer.index = indexer.chunks
    /\ \A d \in Documents : Told(indexer.chunks, indexer.manifest, d)
    /\ indexer.step >= 2 => disk.index = Whole(indexer.index)
    /\ indexer.step >= 4 => disk.chunks = Whole(indexer.chunks)

Reused ==
  indexer.at = "ready" /\ indexer.by = "reuse" /\ ~ interrupted =>
    /\ indexer.index = indexer.chunks
    /\ \A d \in Documents : Held(indexer.chunks, indexer.hashed[d], d)

IndexInvariant == IndexShape /\ FilesAgree /\ Compared /\ Scanned /\ Saved /\ Reused

\* Without files and without an indexer the invariant holds.
LEMMA IndexStart == DIInit => IndexInvariant
<1> SUFFICES ASSUME DIInit PROVE IndexInvariant OBVIOUS
<1>1. << >> \in Seq(Chunk) OBVIOUS
<1> QED BY <1>1 DEF DIInit, IndexInvariant, IndexShape, FilesAgree, Compared, Scanned, Saved, Reused,
     Nothing, Missing, Down

\* What the owner writes is a new version, or one that was there before.
LEMMA EditsAreKnown ==
  ASSUME IndexShape, EditDocument
  PROVE  /\ document' \in [Documents -> Nat] /\ newest' \in Nat
         /\ \A d \in Documents : document'[d] <= newest'
         /\ \A d \in Documents, v \in Nat : Gone(v, d) => Gone(v, d)'
         /\ newest <= newest' /\ restored \subseteq restored'
<1>0. UNCHANGED misread BY DEF EditDocument
<1>1. PICK d \in Documents :
        \/ /\ newest' = newest + 1 /\ document' = [document EXCEPT ![d] = newest + 1]
           /\ UNCHANGED restored
        \/ /\ \E v \in 1..newest : document' = [document EXCEPT ![d] = v]
           /\ restored' = restored \cup ({d} \cap misread) /\ newest' = newest
        \/ document' = [document EXCEPT ![d] = 0] /\ newest' = newest /\ UNCHANGED restored
  BY DEF EditDocument
<1>2. CASE /\ newest' = newest + 1 /\ document' = [document EXCEPT ![d] = newest + 1]
           /\ UNCHANGED restored
  BY <1>0, <1>2 DEF IndexShape, Gone
<1>3. CASE document' = [document EXCEPT ![d] = 0] /\ newest' = newest /\ UNCHANGED restored
  BY <1>0, <1>3 DEF IndexShape, Gone
<1>4. CASE /\ \E v \in 1..newest : document' = [document EXCEPT ![d] = v]
           /\ restored' = restored \cup ({d} \cap misread) /\ newest' = newest
  <2>1. PICK v \in 1..newest : document' = [document EXCEPT ![d] = v] BY <1>4
  <2>2. ASSUME NEW e \in Documents, NEW n \in Nat, Gone(n, e) PROVE Gone(n, e)'
    <3>1. CASE e = d BY <1>0, <1>4, <2>2, <3>1 DEF Gone
    <3>2. CASE e # d BY <1>0, <1>4, <2>1, <2>2, <3>2 DEF Gone, IndexShape
    <3> QED BY <3>1, <3>2
  <2> QED BY <1>4, <2>1, <2>2 DEF IndexShape
<1> QED BY <1>1, <1>2, <1>3, <1>4

\* An edit between any two steps of the indexer takes nothing from what it knows.
LEMMA EditKeeps ==
  ASSUME IndexInvariant, EditDocument
  PROVE  IndexInvariant'
<1>1. /\ document' \in [Documents -> Nat] /\ newest' \in Nat
      /\ \A d \in Documents : document'[d] <= newest'
      /\ \A d \in Documents, v \in Nat : Gone(v, d) => Gone(v, d)'
      /\ newest <= newest' /\ newest \in Nat /\ restored \subseteq restored'
  BY EditsAreKnown DEF IndexInvariant, IndexShape
<1>2. UNCHANGED <<disk, indexer, interrupted>> BY DEF EditDocument
<1>3. ASSUME NEW c, NEW hashed \in [Documents -> Nat], NEW d \in Documents, Told(c, hashed, d)
      PROVE  Told(c, hashed, d)'
  BY <1>1, <1>3 DEF Told
<1>4. IndexShape' BY <1>1, <1>2 DEF IndexInvariant, IndexShape
<1>5. FilesAgree'
  <2> SUFFICES ASSUME ~ interrupted, indexer.step = 0, Stored,
                      \A d \in Documents : Told(disk.chunks.body, disk.manifest.body, d)
               PROVE  \A d \in Documents : Told(disk.chunks.body, disk.manifest.body, d)'
    BY <1>2 DEF IndexInvariant, FilesAgree, Stored
  <2>1. disk.manifest.body \in [Documents -> Nat] BY DEF IndexInvariant, IndexShape, Stored
  <2> QED BY <1>2, <1>3, <2>1
<1>6. Compared' BY <1>1, <1>2 DEF IndexInvariant, Compared, Stored, Held
<1>7. Scanned'
  <2> SUFFICES ASSUME indexer.at \in {"scan", "extract"} PROVE Scanned' BY <1>2 DEF Scanned
  <2>1. \A d \in Documents \ indexer.todo : Told(indexer.chunks, indexer.hashed, d)'
    BY <1>2, <1>3 DEF IndexInvariant, IndexShape, Scanned
  <2>2. indexer.at = "extract" => indexer.hashed[Next1(indexer.todo)] \in 1..newest'
    <3>1. \A n \in 1..newest : n \in 1..newest' BY <1>1
    <3> QED BY <3>1 DEF IndexInvariant, Scanned
  <2> QED BY <1>2, <2>1, <2>2 DEF IndexInvariant, Scanned
<1>8. Saved'
  <2> SUFFICES ASSUME indexer.at = "save" PROVE Saved' BY <1>2 DEF Saved
  <2>1. \A d \in Documents : Told(indexer.chunks, indexer.manifest, d)'
    BY <1>2, <1>3 DEF IndexInvariant, IndexShape, Saved
  <2> QED BY <1>2, <2>1 DEF IndexInvariant, Saved
<1>9. Reused' BY <1>1, <1>2 DEF IndexInvariant, Reused, Held
<1> QED BY <1>4, <1>5, <1>6, <1>7, <1>8, <1>9 DEF IndexInvariant

\* An indexer that is down, or begins to scan, knows nothing.
LEMMA DownIsQuiet ==
  ASSUME IndexShape, DOMAIN disk' = {"index", "chunks", "manifest"}, UNCHANGED <<document, newest, disk>>,
         indexer' = Down
  PROVE  IndexShape' /\ Compared' /\ Scanned' /\ Saved' /\ Reused'
<1>1. << >> \in Seq(Chunk) OBVIOUS
<1>2. Nothing \in [Documents -> Nat] BY DEF Nothing
<1> QED BY <1>1, <1>2 DEF IndexShape, Compared, Scanned, Saved, Reused, Down

\* A build begins with every document to do and no chunk (build_document_chunks).
LEMMA ScanBegins ==
  ASSUME DIAssumption, IndexShape, UNCHANGED <<document, newest, disk>>, NEW i,
         indexer' = [i EXCEPT !.at = "scan", !.todo = There],
         DOMAIN i = {"at", "todo", "manifest", "hashed", "chunks", "index", "step", "by"},
         i.step = 0, i.chunks = << >>, i.hashed = Nothing, i.manifest \in [Documents -> Nat]
  PROVE  IndexShape' /\ Compared' /\ Scanned' /\ Saved' /\ Reused'
<1>1. << >> \in Seq(Chunk) /\ DOMAIN << >> = {} OBVIOUS
<1>2. Nothing \in [Documents -> Nat] BY DEF Nothing
<1>3. There \in SUBSET Documents BY DEF There
<1>4. indexer'.at = "scan" /\ indexer'.todo = There /\ indexer'.step = 0 /\ indexer'.chunks = << >>
      /\ indexer'.hashed = Nothing /\ indexer'.manifest = i.manifest /\ DOMAIN indexer' = DOMAIN i
  OBVIOUS
<1>5. IndexShape'
  <2>1. UNCHANGED document /\ UNCHANGED newest /\ UNCHANGED disk OBVIOUS
  <2>2. DOMAIN indexer' = {"at", "todo", "manifest", "hashed", "chunks", "index", "step", "by"}
    BY <1>4
  <2>3. indexer'.todo \in SUBSET Documents BY ONLY <1>3, <1>4
  <2>4. indexer'.hashed \in [Documents -> Nat] BY ONLY <1>2, <1>4
  <2>5. indexer'.manifest \in [Documents -> Nat] BY <1>4
  <2>6. indexer'.chunks \in Seq(Chunk) BY ONLY <1>1, <1>4
  <2>7. indexer'.step \in 0..5 /\ indexer'.step = 0 BY <1>4
  <2> QED BY <2>1, <2>2, <2>3, <2>4, <2>5, <2>6, <2>7 DEF IndexShape
<1>6. \A d \in Documents : Fits(<< >>, Nothing[d], d)
  <2>1. Words(0) = 0 BY NoWordsOfNothing
  <2> QED BY <1>1, <2>1 DEF Fits, Nothing
<1>7. \A d \in Documents : NoneOf(<< >>, d) BY <1>1 DEF NoneOf
<1>8. Scanned' BY <1>3, <1>4, <1>6, <1>7 DEF Scanned, Told
<1> QED BY <1>4, <1>5, <1>8 DEF Compared, Saved, Reused

\* index_needs_rebuild and load_index: what StartIndexer, HashToCompare,
\* DecideRebuild and LoadIndex do.
LEMMA ComparingKeeps ==
  ASSUME DIAssumption, IndexInvariant,
         StartIndexer \/ HashToCompare \/ DecideRebuild \/ LoadIndex
  PROVE  IndexInvariant'
<1>0. /\ IndexShape /\ indexer.step = 0 /\ FilesAgree
      /\ UNCHANGED <<document, newest, disk>> /\ UNCHANGED <<misread, restored, interrupted>>
  BY DEF IndexInvariant, IndexShape, StartIndexer, HashToCompare, DecideRebuild, LoadIndex, Keeps, Moves,
         Indexing
<1>q. ASSUME IndexShape', Compared', Scanned', Saved', Reused', indexer'.step = 0 PROVE IndexInvariant'
  BY <1>0, <1>q DEF IndexInvariant, FilesAgree, Stored, Told, Gone
<1>d. CASE indexer' = Down
  <2>1. DOMAIN disk' = {"index", "chunks", "manifest"} BY <1>0 DEF IndexShape
  <2>2. indexer'.step = 0 BY <1>d DEF Down
  <2> QED BY <1>0, <1>d, <1>q, <2>1, <2>2, DownIsQuiet
<1>s. CASE indexer' = [Down EXCEPT !.at = "scan", !.todo = There]
  <2>1. /\ DOMAIN Down = {"at", "todo", "manifest", "hashed", "chunks", "index", "step", "by"}
        /\ Down.step = 0 /\ Down.chunks = << >> /\ Down.hashed = Nothing
        /\ Down.manifest \in [Documents -> Nat]
    BY DEF Down, Nothing
  <2>2. indexer'.step = 0 BY <1>s, <2>1
  <2> QED BY <1>0, <1>q, <1>s, <2>1, <2>2, ScanBegins
<1>1. CASE StartIndexer
  <2> DEFINE recorded == IF disk.manifest.state = "whole" THEN disk.manifest.body ELSE Nothing
  <2>1. CASE indexer' = [Down EXCEPT !.at = "compare", !.todo = There, !.manifest = recorded]
             /\ \A f \in DOMAIN disk : disk[f].state # "missing"
    <3>1. recorded \in [Documents -> Nat] BY <1>0 DEF IndexShape, Nothing
    <3>2. There \in SUBSET Documents /\ Nothing \in [Documents -> Nat] /\ << >> \in Seq(Chunk)
      BY DEF There, Nothing
    <3>3. /\ indexer'.at = "compare" /\ indexer'.todo = There /\ indexer'.manifest = recorded
          /\ indexer'.hashed = Nothing /\ indexer'.step = 0 /\ indexer'.chunks = << >>
          /\ DOMAIN indexer' = {"at", "todo", "manifest", "hashed", "chunks", "index", "step", "by"}
      BY <2>1 DEF Down
    <3> HIDE DEF recorded
    <3>4. IndexShape' BY <1>0, <3>1, <3>2, <3>3 DEF IndexShape
    <3>5. ASSUME ~ interrupted
          PROVE  /\ Stored /\ recorded = disk.manifest.body
                 /\ \A d \in Documents \ There : 0 = recorded[d] => Held(disk.chunks.body, recorded[d], d)
      <4>1. Stored /\ \A d \in Documents : Told(disk.chunks.body, disk.manifest.body, d)
        BY <1>0, <2>1, <3>5 DEF FilesAgree, IndexShape
      <4>2. recorded = disk.manifest.body BY <4>1 DEF Stored, recorded
      <4>3. ASSUME NEW d \in Documents, 0 = recorded[d] PROVE Held(disk.chunks.body, recorded[d], d)
        <5>1. Told(disk.chunks.body, recorded, d) BY <4>1, <4>2
        <5>2. Gone(recorded[d], d) => d \in restored BY <4>3, <1>0 DEF Gone, IndexShape
        <5> QED BY <5>1, <5>2 DEF Told, Held
      <4> QED BY <4>1, <4>2, <4>3
    <3>6. Compared'
      <4>1. \A d \in Documents : Nothing[d] = 0 BY DEF Nothing
      <4> QED BY <1>0, <3>3, <3>5, <4>1 DEF Compared, Stored, Held
    <3>7. Scanned' /\ Saved' /\ Reused' BY <3>3 DEF Scanned, Saved, Reused
    <3> QED BY <1>q, <3>3, <3>4, <3>6, <3>7
  <2> QED BY <1>1, <1>s, <2>1 DEF StartIndexer, Keeps, Moves
<1>2. CASE HashToCompare
  <2> DEFINE d == Next1(indexer.todo)
  <2>1. CASE indexer' = [indexer EXCEPT !.todo = @ \ {d}, !.hashed[d] = document[d]]
    <3>1. d \in indexer.todo /\ indexer.at = "compare" /\ d \in Documents
      BY <1>0, <1>2 DEF HashToCompare, Indexing, Next1, IndexShape
    <3> HIDE DEF d
    <3>2. /\ indexer'.at = "compare" /\ indexer'.todo = indexer.todo \ {d}
          /\ indexer'.manifest = indexer.manifest /\ indexer'.step = 0
          /\ indexer'.hashed = [indexer.hashed EXCEPT ![d] = document[d]]
      BY <1>0, <2>1, <3>1 DEF IndexShape
    <3>3. IndexShape' BY <1>0, <2>1, <3>1, <3>2 DEF IndexShape
    <3>4. ASSUME ~ interrupted, NEW e \in Documents \ indexer'.todo, indexer'.hashed[e] = indexer.manifest[e]
          PROVE  Held(disk.chunks.body, indexer.manifest[e], e)
      <4>1. /\ Stored /\ indexer.manifest = disk.manifest.body
            /\ \A x \in Documents \ indexer.todo :
                 indexer.hashed[x] = indexer.manifest[x] => Held(disk.chunks.body, indexer.manifest[x], x)
        BY <3>1, <3>4 DEF IndexInvariant, Compared
      <4>2. CASE e # d BY <1>0, <3>1, <3>2, <3>4, <4>1, <4>2 DEF IndexShape
      <4>3. CASE e = d
        <5>1. document[d] = indexer.manifest[d] BY <1>0, <3>1, <3>2, <3>4, <4>3 DEF IndexShape
        <5>2. Told(disk.chunks.body, indexer.manifest, d)
          BY <1>0, <3>1, <3>4, <4>1 DEF FilesAgree, Stored
        <5>3. Gone(indexer.manifest[d], d) => d \in restored BY <5>1 DEF Gone
        <5> QED BY <4>3, <5>2, <5>3 DEF Told, Held
      <4> QED BY <4>2, <4>3
    <3>5. Compared' BY <1>0, <3>1, <3>2, <3>4 DEF IndexInvariant, Compared, Stored, Held
    <3>6. Scanned' /\ Saved' /\ Reused' BY <3>2 DEF Scanned, Saved, Reused
    <3> QED BY <1>q, <3>2, <3>3, <3>5, <3>6
  <2> QED BY <1>2, <1>d, <2>1 DEF HashToCompare, Keeps, Moves
<1>3. CASE DecideRebuild
  <2>1. CASE indexer.hashed = indexer.manifest /\ indexer' = [indexer EXCEPT !.at = "load"]
    <3>1. indexer.at = "compare" /\ indexer.todo = {} BY <1>3 DEF DecideRebuild, Indexing
    <3>2. /\ indexer'.at = "load" /\ indexer'.step = 0 /\ indexer'.hashed = indexer.hashed
          /\ indexer'.manifest = indexer.manifest /\ indexer'.todo = indexer.todo
      BY <1>0, <2>1 DEF IndexShape
    <3>3. IndexShape' BY <1>0, <2>1 DEF IndexShape
    <3>4. Compared' BY <1>0, <2>1, <3>1, <3>2 DEF IndexInvariant, Compared, Stored, Held
    <3>5. Scanned' /\ Saved' /\ Reused' BY <3>2 DEF Scanned, Saved, Reused
    <3> QED BY <1>q, <3>2, <3>3, <3>4, <3>5
  <2> QED BY <1>3, <1>s, <2>1 DEF DecideRebuild, Keeps, Moves
<1>4. CASE LoadIndex
  <2>1. CASE /\ disk.chunks.state = "whole"
             /\ indexer' = [indexer EXCEPT !.at = "ready", !.by = "reuse",
                                           !.chunks = disk.chunks.body, !.index = disk.index.body]
    <3>1. indexer.at = "load" BY <1>4 DEF LoadIndex, Indexing
    <3>2. /\ indexer'.at = "ready" /\ indexer'.step = 0 /\ indexer'.hashed = indexer.hashed
          /\ indexer'.chunks = disk.chunks.body /\ indexer'.index = disk.index.body
      BY <1>0, <2>1 DEF IndexShape
    <3>3. IndexShape' BY <1>0, <2>1, <3>2 DEF IndexShape
    <3>4. ASSUME ~ interrupted
          PROVE  /\ disk.index.body = disk.chunks.body
                 /\ \A d \in Documents : Held(disk.chunks.body, indexer.hashed[d], d)
      BY <3>1, <3>4 DEF IndexInvariant, Compared, Stored
    <3>5. Reused' BY <1>0, <3>2, <3>4 DEF Reused, Held
    <3>6. Compared' /\ Scanned' /\ Saved' BY <3>2 DEF Compared, Scanned, Saved
    <3> QED BY <1>q, <3>2, <3>3, <3>5, <3>6
  <2> QED BY <1>4, <1>d, <2>1 DEF LoadIndex, Keeps, Moves
<1> QED BY <1>1, <1>2, <1>3, <1>4

\* build_document_chunks: what HashDocument, ExtractDocument and EmbedChunks do.
LEMMA BuildingKeeps ==
  ASSUME DIAssumption, IndexInvariant,
         HashDocument \/ ExtractDocument \/ EmbedChunks \/ ForceReindex
  PROVE  IndexInvariant'
<1>0. /\ IndexShape /\ indexer.step = 0 /\ FilesAgree
      /\ UNCHANGED <<document, newest, disk>> /\ UNCHANGED <<restored, interrupted>>
      /\ misread \subseteq misread'
  BY DEF IndexInvariant, IndexShape, HashDocument, ExtractDocument, EmbedChunks, ForceReindex, Keeps,
         Moves, Indexing
<1>g. \A v, d : Gone(v, d) => Gone(v, d)' BY <1>0 DEF Gone
<1>q. ASSUME IndexShape', Compared', Scanned', Saved', Reused', indexer'.step = 0 PROVE IndexInvariant'
  BY <1>0, <1>g, <1>q DEF IndexInvariant, FilesAgree, Stored, Told
<1>d. CASE indexer' = Down
  <2>1. DOMAIN disk' = {"index", "chunks", "manifest"} BY <1>0 DEF IndexShape
  <2>2. indexer'.step = 0 BY <1>d DEF Down
  <2> QED BY <1>0, <1>d, <1>q, <2>1, <2>2, DownIsQuiet
<1>1. CASE HashDocument
  <2> DEFINE d == Next1(indexer.todo)
  <2>1. CASE document[d] # 0 /\ indexer' = [indexer EXCEPT !.at = "extract", !.hashed[d] = document[d]]
    <3>1. d \in indexer.todo /\ indexer.at = "scan" /\ d \in Documents
      BY <1>0, <1>1 DEF HashDocument, Indexing, Next1, IndexShape
    <3>2. /\ indexer'.at = "extract" /\ indexer'.todo = indexer.todo /\ indexer'.step = 0
          /\ indexer'.chunks = indexer.chunks /\ d = Next1(indexer'.todo)
          /\ indexer'.hashed = [indexer.hashed EXCEPT ![d] = document[d]]
      BY <1>0, <2>1 DEF IndexShape
    <3>3. document[d] \in 1..newest BY <1>0, <2>1, <3>1 DEF IndexShape
    <3> HIDE DEF d
    <3>4. IndexShape' BY <1>0, <2>1, <3>1, <3>2 DEF IndexShape
    <3>5. \A e \in Documents \ indexer.todo : indexer'.hashed[e] = indexer.hashed[e]
      BY <1>0, <3>1, <3>2 DEF IndexShape
    <3>6. \A e \in Documents \ indexer.todo : Told(indexer.chunks, indexer.hashed, e)
      BY <3>1 DEF IndexInvariant, Scanned
    <3>7. \A e \in Documents \ indexer'.todo : Told(indexer.chunks, indexer.hashed, e)'
      BY <1>0, <1>g, <3>2, <3>5, <3>6 DEF Told, IndexShape
    <3>8. indexer'.hashed[d] \in 1..newest' BY <1>0, <3>1, <3>2, <3>3 DEF IndexShape
    <3>9. Scanned' BY <3>1, <3>2, <3>7, <3>8 DEF Scanned, IndexInvariant
    <3>10. Compared' /\ Saved' /\ Reused' BY <3>2 DEF Compared, Saved, Reused
    <3> QED BY <1>q, <3>2, <3>4, <3>9, <3>10
  <2> QED BY <1>1, <1>d, <2>1 DEF HashDocument, Keeps, Moves
<1>2. CASE ExtractDocument
  <2> DEFINE d == Next1(indexer.todo)
             read == ChunksOf(d, document[d])
  <2>1. CASE /\ document[d] # 0
             /\ indexer' = [indexer EXCEPT !.at = "scan", !.todo = @ \ {d}, !.chunks = @ \o read]
    <3>1. indexer.at = "extract" /\ indexer.todo # {} /\ indexer.hashed[d] \in 1..newest
      BY <1>2 DEF ExtractDocument, Indexing, IndexInvariant, Scanned
    <3>2. d \in indexer.todo /\ d \in Documents BY <1>0, <3>1 DEF Next1, IndexShape
    <3>3. document[d] \in Nat /\ indexer.chunks \in Seq(Chunk) BY <1>0, <3>2 DEF IndexShape
    <3>4. /\ read \in Seq(Chunk) /\ Fits(read, document[d], d)
          /\ \A i \in DOMAIN read : read[i].source = d
      BY <3>2, <3>3, ChunksOfADocument
    <3> HIDE DEF d, read
    <3>5. /\ indexer'.at = "scan" /\ indexer'.todo = indexer.todo \ {d} /\ indexer'.step = 0
          /\ indexer'.chunks = indexer.chunks \o read /\ indexer'.hashed = indexer.hashed
          /\ indexer'.manifest = indexer.manifest /\ DOMAIN indexer' = DOMAIN indexer
      BY <1>0, <2>1 DEF IndexShape
    <3>6. indexer.chunks \o read \in Seq(Chunk) BY <3>3, <3>4, ElementsOfBoth
    <3>7. IndexShape' BY <1>0, <3>2, <3>5, <3>6 DEF IndexShape
    <3>8. \A e \in Documents \ {d} : NoneOf(read, e) BY <3>4 DEF NoneOf
    <3>9. NoneOf(indexer.chunks, d) BY <3>1, <3>2 DEF IndexInvariant, Scanned
    <3>10. \A e \in Documents : indexer.hashed[e] \in Nat BY <1>0 DEF IndexShape
    <3>11. ASSUME NEW e \in Documents \ indexer'.todo PROVE Told(indexer.chunks, indexer.hashed, e)'
      <4>1. CASE e = d
        <5>1. CASE document[d] = indexer.hashed[d]
          <6>1. Fits(indexer.chunks \o read, indexer.hashed[d], d)
            BY <3>2, <3>3, <3>4, <3>9, <3>10, <5>1, FitsBoth
          <6> QED BY <3>5, <4>1, <6>1 DEF Told
        <5>2. CASE document[d] # indexer.hashed[d]
          <6>1. d \in misread' BY <1>2, <2>1, <5>2 DEF ExtractDocument, d
          <6>2. Gone(indexer.hashed[e], e)' BY <1>0, <3>1, <3>5, <4>1, <5>2, <6>1 DEF Gone
          <6> QED BY <6>2 DEF Told
        <5> QED BY <5>1, <5>2
      <4>2. CASE e # d
        <5>1. e \in Documents \ indexer.todo BY <3>5, <4>2
        <5>2. Told(indexer.chunks, indexer.hashed, e) BY <3>1, <5>1 DEF IndexInvariant, Scanned
        <5>3. NoneOf(read, e) BY <3>8, <4>2
        <5>4. Fits(indexer.chunks, indexer.hashed[e], e)
                => Fits(indexer.chunks \o read, indexer.hashed[e], e)
          BY <3>3, <3>4, <3>10, <5>3, FitsBoth
        <5>5. Gone(indexer.hashed[e], e) => Gone(indexer.hashed[e], e)' BY <1>g, <3>5
        <5> QED BY <3>5, <5>2, <5>4, <5>5 DEF Told
      <4> QED BY <4>1, <4>2
    <3>12. ASSUME NEW e \in indexer'.todo PROVE NoneOf(indexer'.chunks, e)
      <4>1. e \in indexer.todo /\ e \in Documents \ {d} BY <1>0, <3>5 DEF IndexShape
      <4>2. NoneOf(indexer.chunks, e) BY <3>1, <4>1 DEF IndexInvariant, Scanned
      <4>3. NoneOf(read, e) BY <3>8, <4>1
      <4>4. NoneOf(indexer.chunks \o read, e) BY <3>3, <3>4, <3>10, <4>1, <4>2, <4>3, FitsBoth
      <4> QED BY <3>5, <4>4
    <3>13. Scanned' BY <3>5, <3>11, <3>12 DEF Scanned
    <3>14. Compared' /\ Saved' /\ Reused' BY <3>5 DEF Compared, Saved, Reused
    <3> QED BY <1>q, <3>5, <3>7, <3>13, <3>14
  <2> QED BY <1>2, <1>d, <2>1 DEF ExtractDocument, Keeps, Moves
<1>3. CASE EmbedChunks
  <2>0. indexer.at = "scan" /\ indexer.todo = {} BY <1>3 DEF EmbedChunks, Indexing
  <2>1. CASE indexer' = [[indexer EXCEPT !.manifest = indexer.hashed]
                           EXCEPT !.at = "save", !.index = indexer.chunks]
    <3>1. /\ indexer'.at = "save" /\ indexer'.index = indexer.chunks /\ indexer'.chunks = indexer.chunks
          /\ indexer'.manifest = indexer.hashed /\ indexer'.step = 0
      BY <1>0, <2>1 DEF IndexShape
    <3>2. IndexShape' BY <1>0, <2>1, <3>1 DEF IndexShape
    <3>3. \A d \in Documents : Told(indexer.chunks, indexer.hashed, d)
      BY <2>0 DEF IndexInvariant, Scanned
    <3>4. \A d \in Documents : Told(indexer.chunks, indexer.manifest, d)'
      BY <1>0, <1>g, <3>1, <3>3 DEF Told, IndexShape
    <3>5. Saved' BY <3>1, <3>4 DEF Saved
    <3>6. Compared' /\ Scanned' /\ Reused' BY <3>1 DEF Compared, Scanned, Reused
    <3> QED BY <1>q, <3>1, <3>2, <3>5, <3>6
  <2>2. CASE /\ indexer.by = "force"
             /\ indexer' = [[indexer EXCEPT !.manifest = indexer.hashed] EXCEPT !.at = "ready"]
    <3>1. indexer'.at = "ready" /\ indexer'.by = "force" /\ indexer'.step = 0
      BY <1>0, <2>2 DEF IndexShape
    <3>2. IndexShape' BY <1>0, <2>2, <3>1 DEF IndexShape
    <3>3. Compared' /\ Scanned' /\ Saved' /\ Reused' BY <3>1 DEF Compared, Scanned, Saved, Reused
    <3> QED BY <1>q, <3>1, <3>2, <3>3
  <2> QED BY <1>3, <1>d, <2>1, <2>2 DEF EmbedChunks, Keeps, Moves
<1>4. CASE ForceReindex
  <2> DEFINE i == [indexer EXCEPT !.by = "force", !.chunks = << >>, !.hashed = Nothing]
  <2>1. indexer' = [i EXCEPT !.at = "scan", !.todo = There]
    BY <1>0, <1>4 DEF ForceReindex, Keeps, Moves, IndexShape
  <2>2. /\ DOMAIN i = {"at", "todo", "manifest", "hashed", "chunks", "index", "step", "by"}
        /\ i.step = 0 /\ i.chunks = << >> /\ i.hashed = Nothing /\ i.manifest \in [Documents -> Nat]
    BY <1>0 DEF IndexShape
  <2> HIDE DEF i
  <2>3. indexer'.step = 0 BY <2>1, <2>2
  <2> QED BY <1>0, <1>q, <2>1, <2>2, <2>3, ScanBegins
<1> QED BY <1>1, <1>2, <1>3, <1>4

\* The file that a half of a save writes, and what is in it afterwards.
LEMMA SaveWrites ==
  ASSUME SaveFiles, indexer.step \in 0..5
  PROVE  \/ indexer.step = 0 /\ disk' = [disk EXCEPT !["index"] = Torn]
         \/ indexer.step = 1 /\ disk' = [disk EXCEPT !["index"] = Whole(indexer.index)]
         \/ indexer.step = 2 /\ disk' = [disk EXCEPT !["chunks"] = Torn]
         \/ indexer.step = 3 /\ disk' = [disk EXCEPT !["chunks"] = Whole(indexer.chunks)]
         \/ indexer.step = 4 /\ disk' = [disk EXCEPT !["manifest"] = Torn]
         \/ indexer.step = 5 /\ disk' = [disk EXCEPT !["manifest"] = Whole(indexer.manifest)]
<1> DEFINE file == SaveOrder[(indexer.step \div 2) + 1]
           body == CASE file = "index" -> indexer.index
                     [] file = "chunks" -> indexer.chunks
                     [] file = "manifest" -> indexer.manifest
<1>1. disk' = [disk EXCEPT ![file] = IF indexer.step % 2 = 0 THEN Torn ELSE Whole(body)]
  BY DEF SaveFiles
<1>2. SaveOrder[1] = "index" /\ SaveOrder[2] = "chunks" /\ SaveOrder[3] = "manifest" BY DEF SaveOrder
<1>3. /\ indexer.step \in {0, 1} => indexer.step \div 2 = 0
      /\ indexer.step \in {2, 3} => indexer.step \div 2 = 1
      /\ indexer.step \in {4, 5} => indexer.step \div 2 = 2
      /\ indexer.step \in {0, 2, 4} => indexer.step % 2 = 0
      /\ indexer.step \in {1, 3, 5} => indexer.step % 2 # 0
  OBVIOUS
<1>4. /\ indexer.step \in {0, 1} => file = "index"
      /\ indexer.step \in {2, 3} => file = "chunks"
      /\ indexer.step \in {4, 5} => file = "manifest"
  BY <1>2, <1>3
<1> HIDE DEF file
<1>5. /\ file = "index" => body = indexer.index
      /\ file = "chunks" => body = indexer.chunks
      /\ file = "manifest" => body = indexer.manifest
  OBVIOUS
<1> HIDE DEF body
<1>6. indexer.step \in {0, 2, 4} => disk' = [disk EXCEPT ![file] = Torn] BY <1>1, <1>3
<1>7. indexer.step \in {1, 3, 5} => disk' = [disk EXCEPT ![file] = Whole(body)] BY <1>1, <1>3
<1>8. indexer.step \in {0, 1, 2, 3, 4, 5} OBVIOUS
<1> QED BY <1>4, <1>5, <1>6, <1>7, <1>8

\* The three saves, one after another, and the death of an indexer.
LEMMA SavingKeeps ==
  ASSUME IndexInvariant, SaveFiles
  PROVE  IndexInvariant'
<1>0. /\ IndexShape /\ indexer.at = "save" /\ UNCHANGED document /\ UNCHANGED newest
      /\ UNCHANGED misread /\ UNCHANGED restored
      /\ indexer.step \in 0..5
      /\ indexer.index = indexer.chunks
      /\ \A d \in Documents : Told(indexer.chunks, indexer.manifest, d)
      /\ indexer.step >= 2 => disk.index = Whole(indexer.index)
      /\ indexer.step >= 4 => disk.chunks = Whole(indexer.chunks)
      /\ DOMAIN disk = {"index", "chunks", "manifest"}
  BY DEF IndexInvariant, IndexShape, Saved, SaveFiles, Indexing
<1>1. \A d \in Documents : Fits(indexer.chunks, indexer.manifest[d], d) \/ Gone(indexer.manifest[d], d)
  BY <1>0 DEF Told
<1>2. CASE indexer.step # 5
  <2>1. indexer' = [indexer EXCEPT !.step = @ + 1] BY <1>2 DEF SaveFiles
  <2>2. /\ indexer'.at = "save" /\ indexer'.step = indexer.step + 1 /\ indexer'.step \in 0..5
        /\ indexer'.index = indexer.index /\ indexer'.chunks = indexer.chunks
        /\ indexer'.manifest = indexer.manifest /\ indexer'.step # 0
    BY <1>0, <1>2, <2>1 DEF IndexShape
  <2>3. \/ indexer.step = 0 /\ disk' = [disk EXCEPT !.index = Torn]
        \/ indexer.step = 1 /\ disk' = [disk EXCEPT !.index = Whole(indexer.index)]
        \/ indexer.step = 2 /\ disk' = [disk EXCEPT !.chunks = Torn]
        \/ indexer.step = 3 /\ disk' = [disk EXCEPT !.chunks = Whole(indexer.chunks)]
        \/ indexer.step = 4 /\ disk' = [disk EXCEPT !.manifest = Torn]
    BY <1>0, <1>2, SaveWrites
  <2>4. DOMAIN disk' = DOMAIN disk /\ \A f \in DOMAIN disk : DOMAIN disk'[f] = {"state", "body"}
    <3>1. DOMAIN Torn = {"state", "body"} BY DEF Torn
    <3>2. \A b : DOMAIN Whole(b) = {"state", "body"} BY DEF Whole
    <3>3. \A f \in DOMAIN disk : DOMAIN disk[f] = {"state", "body"} BY <1>0 DEF IndexShape
    <3>4. PICK f, w : f \in DOMAIN disk /\ disk' = [disk EXCEPT ![f] = w] /\ DOMAIN w = {"state", "body"}
      BY <1>0, <2>3, <3>1, <3>2
    <3> QED BY <3>3, <3>4
  <2>5. /\ indexer'.step >= 2 => disk'.index = Whole(indexer.index)
        /\ indexer'.step >= 4 => disk'.chunks = Whole(indexer.chunks)
    BY <1>0, <2>2, <2>3
  <2>6. /\ disk'.chunks.state = "whole" => disk'.chunks.body \in Seq(Chunk)
        /\ disk'.manifest.state = "whole" => disk'.manifest.body \in [Documents -> Nat]
    <3>1. /\ disk'.chunks \in {disk.chunks, Torn, Whole(indexer.chunks)}
          /\ disk'.manifest \in {disk.manifest, Torn}
      BY <1>0, <2>3
    <3>2. Torn.state # "whole" BY DEF Torn
    <3>3. Whole(indexer.chunks).body \in Seq(Chunk) BY <1>0 DEF Whole, IndexShape
    <3> QED BY <1>0, <3>1, <3>2, <3>3 DEF IndexShape
  <2>7. IndexShape' BY <1>0, <2>1, <2>2, <2>4, <2>6 DEF IndexShape
  <2>8. Saved' BY <1>0, <1>1, <2>2, <2>5 DEF Saved, Told, Gone
  <2> QED BY <2>2, <2>7, <2>8 DEF IndexInvariant, FilesAgree, Compared, Scanned, Reused
<1>3. CASE indexer.step = 5
  <2>1. disk' = [disk EXCEPT !.manifest = Whole(indexer.manifest)]
    BY <1>0, <1>3, SaveWrites
  <2>2. indexer' = [indexer EXCEPT !.at = "ready", !.step = 0, !.by = "build"] BY <1>3 DEF SaveFiles
  <2>3. indexer'.at = "ready" /\ indexer'.by = "build" /\ indexer'.step = 0
    BY <1>0, <2>2 DEF IndexShape
  <2>4. disk'.index = Whole(indexer.chunks) /\ disk'.chunks = Whole(indexer.chunks)
        /\ disk'.manifest = Whole(indexer.manifest) /\ DOMAIN disk' = {"index", "chunks", "manifest"}
    BY <1>0, <1>3, <2>1
  <2>5. Stored' /\ disk'.chunks.body = indexer.chunks /\ disk'.manifest.body = indexer.manifest
        /\ \A f \in {"index", "chunks", "manifest"} : DOMAIN disk'[f] = {"state", "body"}
    BY <2>4 DEF Whole, Stored
  <2>6. \A d \in Documents : Told(disk.chunks.body, disk.manifest.body, d)'
    BY <1>0, <1>1, <2>5 DEF Told, Gone
  <2>7. IndexShape' BY <1>0, <2>2, <2>4, <2>5 DEF IndexShape
  <2>8. FilesAgree' BY <2>5, <2>6 DEF FilesAgree
  <2> QED BY <2>3, <2>7, <2>8 DEF IndexInvariant, Compared, Scanned, Saved, Reused
<1> QED BY <1>2, <1>3

\* An indexer that dies while it saves leaves a mark; otherwise the files stay as they are.
LEMMA DeathKeeps ==
  ASSUME IndexInvariant, IndexerEnds
  PROVE  IndexInvariant'
<1>1. indexer' = Down /\ UNCHANGED <<document, newest, misread, restored, disk>>
      /\ (~ interrupted' => ~ interrupted /\ ~ (indexer.step > 0))
  BY DEF IndexerEnds
<1>2. DOMAIN disk' = {"index", "chunks", "manifest"} /\ indexer.step \in 0..5
  BY <1>1 DEF IndexInvariant, IndexShape
<1>3. IndexShape' /\ Compared' /\ Scanned' /\ Saved' /\ Reused'
  BY <1>1, <1>2, DownIsQuiet DEF IndexInvariant
<1>4. FilesAgree' BY <1>1, <1>2 DEF IndexInvariant, FilesAgree, Stored, Told, Gone
<1> QED BY <1>3, <1>4 DEF IndexInvariant

\* Every step of the owner, the indexer and the reader keeps the invariant.
LEMMA IndexStep ==
  ASSUME DIAssumption, IndexInvariant, [DINext]_diVars
  PROVE  IndexInvariant'
<1>1. CASE UNCHANGED <<document, newest, misread, restored, disk, indexer, interrupted>>
  BY <1>1 DEF IndexInvariant, IndexShape, FilesAgree, Compared, Scanned, Saved, Reused, Stored, Told, Gone,
     Held
<1>2. CASE AskKnowledge \/ ReadChunks \/ ReloadChunks \/ ReadIndex \/ Retrieve \/ Answer
  BY <1>1, <1>2 DEF AskKnowledge, ReadChunks, ReloadChunks, ReadIndex, Retrieve, Answer, Learns
<1>3. CASE UNCHANGED diVars BY <1>1, <1>3 DEF diVars
<1> QED BY <1>2, <1>3, EditKeeps, ComparingKeeps, BuildingKeeps, SavingKeeps, DeathKeeps DEF DINext

\* An index that is loaded because nothing changed is the index of the documents
\* that were just hashed, wherever an earlier indexer died outside of its saves,
\* but for those that were read in another version than they were hashed in and
\* then put back (documents.py, index_needs_rebuild and build_document_chunks).
THEOREM ReusedIsCurrent == DISpec => []ReusedIndexIsCurrent
<1>1. IndexInvariant => ReusedIndexIsCurrent
  <2> SUFFICES ASSUME IndexInvariant, indexer.at = "ready", indexer.by = "reuse", ~ interrupted
               PROVE  ReusedIndexIsCurrent
    BY DEF ReusedIndexIsCurrent, Indexing
  <2>1. indexer.index = indexer.chunks
        /\ \A d \in Documents : Fits(indexer.chunks, indexer.hashed[d], d) \/ d \in restored
    BY DEF IndexInvariant, Reused, Held
  <2>2. \A i \in DOMAIN indexer.chunks : indexer.chunks[i].source \in Documents
    <3>1. indexer.chunks \in Seq(Chunk) BY DEF IndexInvariant, IndexShape
    <3>2. \A i \in DOMAIN indexer.chunks : indexer.chunks[i] \in Chunk BY <3>1
    <3> QED BY <3>2 DEF Chunk
  <2>3. \A i \in DOMAIN indexer.chunks :
          \/ indexer.chunks[i].version = indexer.hashed[indexer.chunks[i].source]
          \/ indexer.chunks[i].source \in restored
    BY <2>1, <2>2 DEF Fits
  <2> QED BY <2>1, <2>3 DEF ReusedIndexIsCurrent, Fits
<1>2. IndexInvariant /\ [DINext]_diVars => IndexInvariant' BY DIAssumption, IndexStep
<1> QED BY <1>1, <1>2, IndexStart, PTL DEF DISpec

-----------------------------------------------------------------------------
(* CodeIndex: a generation of symbols, vectors and graph                     *)

Elements(s) == {s[i] : i \in DOMAIN s}
IsList(s)   == \E V : s \in Seq(V)

\* A finite set in a row has each of its members.
LEMMA RowOfSet ==
  ASSUME NEW S, IsFiniteSet(S)
  PROVE  /\ SetToSeq(S) \in [1..Cardinality(S) -> S] /\ Cardinality(S) \in Nat
         /\ Elements(SetToSeq(S)) = S
<1>1. Cardinality(S) \in Nat /\ Bijection(1..Cardinality(S), S) # {}
  BY FS_CardinalityType DEF ExistsBijection
<1>2. PICK b : b \in Bijection(1..Cardinality(S), S) BY <1>1
<1>3. b \in [1..Cardinality(S) -> S] /\ IsInjective(b) BY <1>2 DEF Bijection, Injection
<1>4. SetToSeq(S) \in [1..Cardinality(S) -> S] /\ IsInjective(SetToSeq(S))
  BY <1>3 DEF SetToSeq
<1> DEFINE q == SetToSeq(S)
<1> HIDE DEF q
<1>5. q \in Injection(1..Cardinality(S), S) BY <1>4 DEF Injection, q
<1>6. Cardinality(1..Cardinality(S)) = Cardinality(S) BY <1>1, FS_Interval
<1>7. q \in Surjection(1..Cardinality(S), S) BY <1>5, <1>6, FS_Injection
<1>8. Elements(q) = S BY <1>7 DEF Surjection, Elements
<1> QED BY <1>1, <1>4, <1>8 DEF q

\* There is a row of numbers in their order, with each of them: the place of a number is how
\* many there are up to it.
LEMMA AscendingIsAll ==
  ASSUME NEW K \in SUBSET Nat, IsFiniteSet(K)
  PROVE  /\ Ascending(K) \in [1..Cardinality(K) -> K] /\ Cardinality(K) \in Nat
         /\ Elements(Ascending(K)) = K
<1> DEFINE n      == Cardinality(K)
           Up(x)  == {y \in K : y <= x}
           place  == [x \in K |-> Cardinality(Up(x))]
           Sorted(p) == \A i, j \in DOMAIN p : i < j => p[i] < p[j]
<1>1. n \in Nat BY FS_CardinalityType
<1>2. \A x \in K : IsFiniteSet(Up(x)) /\ Cardinality(Up(x)) \in Nat /\ Cardinality(Up(x)) <= n
  BY FS_Subset, FS_CardinalityType
<1>3. \A x \in K : Cardinality(Up(x)) # 0
  <2> SUFFICES ASSUME NEW x \in K PROVE Up(x) # {}
    BY <1>2, FS_EmptySet
  <2>1. x \in Up(x) OBVIOUS
  <2> QED BY <2>1
<1>4. \A x, y \in K : x < y => Cardinality(Up(x)) < Cardinality(Up(y))
  <2> SUFFICES ASSUME NEW x \in K, NEW y \in K, x < y
               PROVE  Cardinality(Up(x)) < Cardinality(Up(y))
    OBVIOUS
  <2>a. \A z \in K : z \in Nat OBVIOUS
  <2>b. Up(x) \subseteq Up(y)
    <3> SUFFICES ASSUME NEW z \in K, z <= x PROVE z <= y
      OBVIOUS
    <3>1. x \in Nat /\ y \in Nat /\ z \in Nat BY <2>a
    <3> QED BY <3>1
  <2>c. y \in Up(y) BY <2>a
  <2>d. y \notin Up(x) BY <2>a
  <2>1. Up(x) \subseteq Up(y) /\ y \in Up(y) /\ y \notin Up(x) BY <2>b, <2>c, <2>d
  <2> HIDE DEF Up
  <2>2. Cardinality(Up(x)) <= Cardinality(Up(y))
        /\ (Cardinality(Up(y)) = Cardinality(Up(x)) => Up(y) = Up(x))
    BY <1>2, <2>1, FS_Subset
  <2> QED BY <1>2, <2>1, <2>2
<1> HIDE DEF Up
<1>5. place \in [K -> 1..n] BY <1>1, <1>2, <1>3
<1>6. \A x, y \in K : place[x] = place[y] => x = y
  <2> SUFFICES ASSUME NEW x \in K, NEW y \in K, x # y PROVE place[x] # place[y]
    OBVIOUS
  <2>1. x < y \/ y < x OBVIOUS
  <2> QED BY <1>2, <1>4, <2>1
<1>7. place \in Injection(K, 1..n) BY <1>5, <1>6 DEF Injection, IsInjective
<1>8. IsFiniteSet(1..n) /\ Cardinality(1..n) = n BY <1>1, FS_Interval
<1>9. place \in Surjection(K, 1..n) BY <1>7, <1>8, FS_Injection
<1>10. \A i \in 1..n : \E x \in K : place[x] = i BY <1>9 DEF Surjection
<1> DEFINE p == [i \in 1..n |-> CHOOSE x \in K : place[x] = i]
<1> HIDE DEF place
<1>11. p \in [1..n -> K] /\ \A i \in 1..n : place[p[i]] = i BY <1>10
<1>12. Sorted(p)
  <2> SUFFICES ASSUME NEW i \in 1..n, NEW j \in 1..n, i < j PROVE p[i] < p[j]
    BY <1>11
  <2>1. p[i] \in K /\ p[j] \in K /\ place[p[i]] = i /\ place[p[j]] = j BY <1>11
  <2> HIDE DEF p, n
  <2>2. ~(p[j] < p[i])
    <3> SUFFICES ASSUME p[j] < p[i] PROVE FALSE
      OBVIOUS
    <3>1. Cardinality(Up(p[j])) < Cardinality(Up(p[i])) BY <1>4, <2>1
    <3>2. i \in Nat /\ j \in Nat BY <1>1
    <3> QED BY <2>1, <3>1, <3>2 DEF place
  <2>3. p[i] # p[j] BY <1>1, <2>1
  <2>4. p[i] \in Nat /\ p[j] \in Nat BY <2>1
  <2> QED BY <2>2, <2>3, <2>4
<1> HIDE DEF p
<1>13. Ascending(K) \in [1..n -> K] /\ Sorted(Ascending(K)) BY <1>11, <1>12 DEF Ascending
<1> DEFINE q == Ascending(K)
<1> HIDE DEF q
<1>14. IsInjective(q)
  <2> SUFFICES ASSUME NEW i \in 1..n, NEW j \in 1..n, i # j PROVE q[i] # q[j]
    BY <1>13 DEF IsInjective, q
  <2>1. i < j \/ j < i BY <1>1
  <2>2. q[i] \in Nat /\ q[j] \in Nat BY <1>13 DEF q
  <2>3. q[i] < q[j] \/ q[j] < q[i] BY <1>13, <2>1 DEF q
  <2> QED BY <2>2, <2>3
<1>15. q \in Injection(1..n, K) BY <1>13, <1>14 DEF Injection, q
<1>16. q \in Surjection(1..n, K) BY <1>8, <1>15, FS_Injection
<1>17. Elements(q) = K BY <1>16 DEF Surjection, Elements
<1> QED BY <1>1, <1>13, <1>17 DEF q

LEMMA ListOfFunction ==
  ASSUME NEW n \in Nat, NEW V, NEW s \in [1..n -> V]
  PROVE  s \in Seq(V) /\ IsList(s) /\ DOMAIN s = 1..n /\ Len(s) = n
<1>1. s \in Seq(V) OBVIOUS
<1> QED BY <1>1 DEF IsList

LEMMA ElementsOfConcat ==
  ASSUME NEW s, NEW t, IsList(s), IsList(t)
  PROVE  IsList(s \o t) /\ Elements(s \o t) = Elements(s) \cup Elements(t)
<1>1. PICK V : s \in Seq(V) BY DEF IsList
<1>2. PICK W : t \in Seq(W) BY DEF IsList
<1>3. s \in Seq(V \cup W) /\ t \in Seq(V \cup W) BY <1>1, <1>2, SeqMonotonic
<1>4. /\ s \o t \in Seq(V \cup W) /\ Len(s \o t) = Len(s) + Len(t)
      /\ \A i \in 1..Len(s) + Len(t) : (s \o t)[i] = IF i <= Len(s) THEN s[i] ELSE t[i - Len(s)]
  BY <1>3, ConcatProperties
<1>5. /\ DOMAIN s = 1..Len(s) /\ DOMAIN t = 1..Len(t) /\ Len(s) \in Nat /\ Len(t) \in Nat
      /\ DOMAIN (s \o t) = 1..(Len(s) + Len(t))
  BY <1>3, <1>4
<1> DEFINE q == s \o t
<1> HIDE DEF q
<1>6. \A i \in DOMAIN q : q[i] \in Elements(s) \cup Elements(t)
  <2> SUFFICES ASSUME NEW i \in 1..(Len(s) + Len(t)) PROVE q[i] \in Elements(s) \cup Elements(t)
    BY <1>5 DEF q
  <2>1. CASE i <= Len(s)
    <3>1. i \in DOMAIN s /\ q[i] = s[i] BY <1>4, <1>5, <2>1 DEF q
    <3> QED BY <3>1 DEF Elements
  <2>2. CASE ~(i <= Len(s))
    <3>1. i - Len(s) \in DOMAIN t /\ q[i] = t[i - Len(s)] BY <1>4, <1>5, <2>2 DEF q
    <3> QED BY <3>1 DEF Elements
  <2> QED BY <2>1, <2>2
<1>7. \A j \in DOMAIN s : s[j] \in Elements(q)
  <2> SUFFICES ASSUME NEW j \in 1..Len(s) PROVE s[j] \in Elements(q)
    BY <1>5
  <2>1. j \in DOMAIN q /\ q[j] = s[j] BY <1>4, <1>5 DEF q
  <2> QED BY <2>1 DEF Elements
<1>8. \A j \in DOMAIN t : t[j] \in Elements(q)
  <2> SUFFICES ASSUME NEW j \in 1..Len(t) PROVE t[j] \in Elements(q)
    BY <1>5
  <2>1. j + Len(s) \in DOMAIN q BY <1>5 DEF q
  <2>2. q[j + Len(s)] = t[j] BY <1>4, <1>5 DEF q
  <2> QED BY <2>1, <2>2 DEF Elements
<1>9. Elements(q) = Elements(s) \cup Elements(t) BY <1>6, <1>7, <1>8 DEF Elements
<1> QED BY <1>4, <1>9 DEF IsList, q

\* The symbols are those of the recorded contents, and a call is one of its file's.
SymbolsRecorded(symbols, files) ==
  /\ IsList(symbols)
  /\ Elements(symbols) = UNION {SymbolsOf(f, files[f].content) : f \in Files}
CallsRecorded(calls, files) ==
  \A c \in calls : /\ DOMAIN c = {"file", "name", "callee"} /\ c.file \in Files
                   /\ c.name \in files[c.file].content.calls

WholeGeneration(a, files) ==
  /\ a.embeddings = a.symbols /\ a.faiss = a.embeddings
  /\ SymbolsRecorded(a.symbols, files) /\ CallsRecorded(a.graph, files)

RefreshFields == {"at", "full", "hashes", "files", "symbols", "embeddings", "calls", "faiss",
                  "chunks", "index", "step"}
ArtifactFields == {"symbols", "graph", "embeddings", "faiss"}

GenerationShape ==
  /\ tree \in [Files -> {NoFile} \cup Contents]
  /\ DOMAIN refresh = RefreshFields /\ DOMAIN artifact = ArtifactFields
  /\ metadata.state \in {"missing", "whole"}

\* What a refresh has in memory: nothing, a generation, then the next one and as much of it on
\* disk as it has saved.
RefreshHolds(r, a) ==
  /\ r.at \in {"lines", "hash"} =>
       r.symbols = << >> /\ r.embeddings = << >> /\ r.calls = {} /\ r.files = Unindexed
  /\ r.at \in {"hash", "extract"} => r.step = 0
  /\ r.at \in {"extract", "save"} =>
       /\ DOMAIN r.files = Files /\ r.embeddings = r.symbols
       /\ SymbolsRecorded(r.symbols, r.files) /\ CallsRecorded(r.calls, r.files)
  /\ r.at = "save" =>
       /\ r.step \in 0..4 /\ r.faiss = r.embeddings
       /\ r.step > 0 => a.symbols = r.symbols
       /\ r.step > 1 => a.graph = r.calls
       /\ r.step > 2 => a.embeddings = r.embeddings
       /\ r.step > 3 => a.faiss = r.faiss

\* What the manifest was written for, though the files beside it may be the next one's.
ManifestHolds ==
  metadata.state = "whole" =>
    DOMAIN metadata.files = Files /\ WholeGeneration(metadata.hashes, metadata.files)

GenerationInvariant == GenerationShape /\ RefreshHolds(refresh, artifact) /\ ManifestHolds

LEMMA NothingIndexed ==
  /\ DOMAIN Unindexed = Files
  /\ SymbolsRecorded(<< >>, Unindexed) /\ CallsRecorded({}, Unindexed)
<1>1. \A f \in Files : Unindexed[f].content = NoFile BY DEF Unindexed, NoRecord
<1>2. NoFile.defines = {} BY DEF NoFile
<1>3. \A f \in Files : SymbolsOf(f, Unindexed[f].content) = {} BY <1>1, <1>2 DEF SymbolsOf
<1>4. IsList(<< >>)
  <2>1. << >> \in Seq({}) OBVIOUS
  <2> QED BY <2>1 DEF IsList
<1>5. Elements(<< >>) = {} BY DEF Elements
<1> QED BY <1>3, <1>4, <1>5 DEF SymbolsRecorded, CallsRecorded, Unindexed

\* The symbols of the files that were extracted are finitely many.
LEMMA ExtractedAreFinite ==
  ASSUME GenerationShape, NEW X \in SUBSET Files
  PROVE  IsFiniteSet(UNION {SymbolsOf(f, tree[f]) : f \in X})
<1> DEFINE P == {x \in Files \X SymbolNames : x[1] \in X /\ x[2] \in tree[x[1]].defines}
           S == UNION {SymbolsOf(f, tree[f]) : f \in X}
           g == [x \in P |-> [file |-> x[1], name |-> x[2], content |-> tree[x[1]]]]
<1>1. \A f \in Files : tree[f].defines \subseteq SymbolNames
  <2> SUFFICES ASSUME NEW f \in Files PROVE tree[f].defines \subseteq SymbolNames
    OBVIOUS
  <2>1. tree[f] \in {NoFile} \cup Contents BY DEF GenerationShape
  <2>2. NoFile.defines = {} BY DEF NoFile
  <2>3. \A c \in Contents : c.defines \subseteq SymbolNames BY DEF Contents
  <2> QED BY <2>1, <2>2, <2>3
<1>2. IsFiniteSet(Files \X SymbolNames) BY CIAssumption, FS_Product
<1>3. IsFiniteSet(P) BY <1>2, FS_Subset
<1>4. g \in [P -> S] BY DEF SymbolsOf
<1>5. \A s \in S : \E x \in P : g[x] = s
  <2> SUFFICES ASSUME NEW s \in S PROVE \E x \in P : g[x] = s
    OBVIOUS
  <2>0. PICK f \in X : s \in SymbolsOf(f, tree[f]) OBVIOUS
  <2>1. PICK n \in tree[f].defines : s = [file |-> f, name |-> n, content |-> tree[f]]
    BY <2>0 DEF SymbolsOf
  <2>2. <<f, n>> \in P BY <1>1
  <2>3. g[<<f, n>>] = s BY <2>1, <2>2
  <2> QED BY <2>2, <2>3
<1> HIDE DEF g, P, S
<1>6. g \in Surjection(P, S) BY <1>4, <1>5 DEF Surjection
<1>7. IsFiniteSet(S) BY <1>3, <1>6, FS_Surjection
<1> QED BY <1>7 DEF S

\* What stays of the symbols is what is not of a replaced file, and the vectors that stay are
\* theirs.
LEMMA WhatStays ==
  ASSUME IsList(refresh.symbols), refresh.embeddings = refresh.symbols
  PROVE  /\ IsList(RetainedSymbols) /\ RetainedVectors = RetainedSymbols
         /\ Elements(RetainedSymbols) = {s \in Elements(refresh.symbols) : s.file \notin Replaced}
<1> DEFINE q == refresh.symbols
           K == {i \in DOMAIN q : q[i].file \notin Replaced}
           places == Ascending(K)
           kept == [i \in DOMAIN places |-> q[places[i]]]
<1>1. PICK V : q \in Seq(V) BY DEF IsList
<1>2. DOMAIN q = 1..Len(q) /\ Len(q) \in Nat /\ \A i \in DOMAIN q : q[i] \in V BY <1>1
<1>3. IsFiniteSet(DOMAIN q) /\ DOMAIN q \subseteq Nat BY <1>2, FS_Interval
<1>4. IsFiniteSet(K) /\ K \in SUBSET Nat BY <1>3, FS_Subset
<1>5. RetainedVectors = RetainedSymbols BY DEF RetainedVectors, RetainedSymbols
<1>6. RetainedSymbols = kept BY DEF RetainedSymbols, Retained
<1> HIDE DEF K
<1>7. places \in [1..Cardinality(K) -> K] /\ Cardinality(K) \in Nat /\ Elements(places) = K
  BY <1>4, AscendingIsAll
<1> HIDE DEF places
<1>8. kept \in [1..Cardinality(K) -> V]
  <2>1. \A i \in 1..Cardinality(K) : places[i] \in K BY <1>7
  <2>2. \A i \in K : q[i] \in V BY <1>2 DEF K
  <2>3. DOMAIN places = 1..Cardinality(K) BY <1>7
  <2> HIDE DEF q
  <2> QED BY <2>1, <2>2, <2>3
<1>9. IsList(kept) BY <1>7, <1>8, ListOfFunction
<1>10. \A s \in Elements(kept) : s \in Elements(q) /\ s.file \notin Replaced
  <2> SUFFICES ASSUME NEW i \in DOMAIN places
               PROVE  q[places[i]] \in Elements(q) /\ q[places[i]].file \notin Replaced
    BY DEF Elements
  <2>1. places[i] \in K BY <1>7
  <2> QED BY <2>1 DEF K, Elements
<1>11. \A s \in Elements(q) : s.file \notin Replaced => s \in Elements(kept)
  <2> SUFFICES ASSUME NEW j \in DOMAIN q, q[j].file \notin Replaced PROVE q[j] \in Elements(kept)
    BY DEF Elements
  <2>1. j \in Elements(places) BY <1>7 DEF K
  <2>2. PICK i \in DOMAIN places : places[i] = j BY <2>1 DEF Elements
  <2>3. i \in DOMAIN kept /\ kept[i] = q[j] BY <2>2
  <2> QED BY <2>3 DEF Elements
<1> HIDE DEF kept
<1>12. Elements(kept) = {s \in Elements(q) : s.file \notin Replaced} BY <1>10, <1>11
<1> QED BY <1>5, <1>6, <1>9, <1>12

\* The records after an extraction.
NextFiles == [f \in Files |-> IF f \in Extracted THEN [content |-> tree[f], parser |-> parser]
                              ELSE IF f \in Replaced THEN NoRecord ELSE refresh.files[f]]
NextSymbols == RetainedSymbols \o NewSymbols
NextCalls   == {c \in refresh.calls : c.file \notin Replaced}
                 \cup UNION {CallsOf(f, tree[f]) : f \in Extracted}

LEMMA FilesAfter ==
  /\ Extracted \subseteq Replaced /\ Replaced \subseteq Files
  /\ \A f \in Extracted : NextFiles[f].content = tree[f]
  /\ \A f \in Replaced \ Extracted : NextFiles[f].content = NoFile
  /\ \A f \in Files \ Replaced : NextFiles[f] = refresh.files[f]
<1>1. Extracted \subseteq Replaced /\ Replaced \subseteq Files
  BY DEF Extracted, Replaced, Changed, Deleted
<1> QED BY <1>1 DEF NextFiles, NoRecord

LEMMA SymbolsAfter ==
  ASSUME GenerationInvariant, RefreshAt("extract")
  PROVE  SymbolsRecorded(NextSymbols, NextFiles) /\ RetainedVectors = RetainedSymbols
<1>1. /\ SymbolsRecorded(refresh.symbols, refresh.files)
      /\ refresh.embeddings = refresh.symbols
  BY DEF GenerationInvariant, RefreshHolds, RefreshAt
<1>2. /\ IsList(RetainedSymbols) /\ RetainedVectors = RetainedSymbols
      /\ Elements(RetainedSymbols) = {s \in Elements(refresh.symbols) : s.file \notin Replaced}
  BY <1>1, WhatStays DEF SymbolsRecorded
<1> DEFINE New == UNION {SymbolsOf(f, tree[f]) : f \in Extracted}
<1>3. IsFiniteSet(New) BY FilesAfter, ExtractedAreFinite DEF GenerationInvariant
<1> HIDE DEF New
<1>4. NewSymbols = SetToSeq(New) BY DEF NewSymbols, New
<1>5. /\ SetToSeq(New) \in [1..Cardinality(New) -> New] /\ Cardinality(New) \in Nat
      /\ Elements(SetToSeq(New)) = New
  BY <1>3, RowOfSet
<1>6. IsList(NewSymbols) /\ Elements(NewSymbols) = New BY <1>4, <1>5, ListOfFunction
<1>7. IsList(NextSymbols) /\ Elements(NextSymbols) = Elements(RetainedSymbols) \cup New
  BY <1>2, <1>6, ElementsOfConcat DEF NextSymbols
<1>8. \A f, c : \A s \in SymbolsOf(f, c) : s.file = f BY DEF SymbolsOf
<1>9. \A f : SymbolsOf(f, NoFile) = {} BY DEF SymbolsOf, NoFile
<1> DEFINE All == UNION {SymbolsOf(f, NextFiles[f].content) : f \in Files}
<1>10. ASSUME NEW s \in Elements(NextSymbols) PROVE s \in All
  <2>1. CASE s \in New
    <3>1. PICK f \in Extracted : s \in SymbolsOf(f, tree[f]) BY <2>1 DEF New
    <3> QED BY <3>1, FilesAfter
  <2>2. CASE s \in Elements(RetainedSymbols)
    <3>1. s \in Elements(refresh.symbols) /\ s.file \notin Replaced BY <1>2, <2>2
    <3>2. PICK f \in Files : s \in SymbolsOf(f, refresh.files[f].content)
      BY <1>1, <3>1 DEF SymbolsRecorded
    <3>3. f \notin Replaced BY <1>8, <3>1, <3>2
    <3> QED BY <3>2, <3>3, FilesAfter
  <2> QED BY <1>7, <2>1, <2>2
<1>11. ASSUME NEW s \in All PROVE s \in Elements(NextSymbols)
  <2>1. PICK f \in Files : s \in SymbolsOf(f, NextFiles[f].content) OBVIOUS
  <2>2. CASE f \in Extracted
    <3>1. s \in SymbolsOf(f, tree[f]) BY <2>1, <2>2, FilesAfter
    <3>2. s \in New BY <2>2, <3>1 DEF New
    <3> QED BY <1>7, <3>2
  <2>3. CASE f \in Replaced \ Extracted BY <1>9, <2>1, <2>3, FilesAfter
  <2>4. CASE f \notin Replaced
    <3>1. s \in SymbolsOf(f, refresh.files[f].content) BY <2>1, <2>4, FilesAfter
    <3>2. s \in Elements(refresh.symbols) BY <1>1, <3>1 DEF SymbolsRecorded
    <3>3. s.file \notin Replaced BY <1>8, <2>4, <3>1
    <3> QED BY <1>2, <1>7, <3>2, <3>3
  <2> QED BY <2>2, <2>3, <2>4
<1>12. Elements(NextSymbols) = All BY <1>10, <1>11
<1> QED BY <1>2, <1>7, <1>12 DEF SymbolsRecorded

LEMMA ResolveKeeps ==
  ASSUME NEW symbols, NEW c, DOMAIN c = {"file", "name", "callee"}
  PROVE  LET d == ResolveCall(symbols, c)
         IN DOMAIN d = {"file", "name", "callee"} /\ d.file = c.file /\ d.name = c.name
<1> DEFINE d == ResolveCall(symbols, c)
<1>1. d = c \/ \E x : d = [c EXCEPT !.callee = x] BY DEF ResolveCall
<1> QED BY <1>1

LEMMA CallsAfter ==
  ASSUME GenerationInvariant, RefreshAt("extract")
  PROVE  CallsRecorded({ResolveCall(NextSymbols, c) : c \in NextCalls}, NextFiles)
<1>1. CallsRecorded(refresh.calls, refresh.files)
  BY DEF GenerationInvariant, RefreshHolds, RefreshAt
<1>2. ASSUME NEW c \in NextCalls
      PROVE  /\ DOMAIN c = {"file", "name", "callee"} /\ c.file \in Files
             /\ c.name \in NextFiles[c.file].content.calls
  <2>1. CASE c \in refresh.calls /\ c.file \notin Replaced
    <3>1. /\ DOMAIN c = {"file", "name", "callee"} /\ c.file \in Files
          /\ c.name \in refresh.files[c.file].content.calls
      BY <1>1, <2>1 DEF CallsRecorded
    <3> QED BY <2>1, <3>1, FilesAfter
  <2>2. CASE c \in UNION {CallsOf(f, tree[f]) : f \in Extracted}
    <3>1. PICK f \in Extracted : c \in CallsOf(f, tree[f]) BY <2>2
    <3>2. PICK n \in tree[f].calls :
            c = [file |-> f, name |-> n,
                 callee |-> IF n \in tree[f].defines THEN <<f, n>> ELSE Unresolved]
      BY <3>1 DEF CallsOf
    <3>3. DOMAIN c = {"file", "name", "callee"} /\ c.file = f /\ c.name = n BY <3>2
    <3> QED BY <3>1, <3>2, <3>3, FilesAfter
  <2> QED BY <2>1, <2>2 DEF NextCalls
<1>3. ASSUME NEW d \in {ResolveCall(NextSymbols, c) : c \in NextCalls}
      PROVE  /\ DOMAIN d = {"file", "name", "callee"} /\ d.file \in Files
             /\ d.name \in NextFiles[d.file].content.calls
  <2>1. PICK c \in NextCalls : d = ResolveCall(NextSymbols, c) OBVIOUS
  <2>2. DOMAIN d = {"file", "name", "callee"} /\ d.file = c.file /\ d.name = c.name
    BY <1>2, <2>1, ResolveKeeps
  <2> QED BY <1>2, <2>2
<1> QED BY <1>3 DEF CallsRecorded

\* A step that leaves the files of the index alone.
LEMMA RefreshGoes ==
  ASSUME GenerationInvariant, NEW r, Goes(r), DOMAIN r = RefreshFields, RefreshHolds(r, artifact)
  PROVE  GenerationInvariant'
<1>1. refresh' = r /\ UNCHANGED <<tree, artifact, metadata>> BY DEF Goes
<1>2. GenerationShape' BY <1>1 DEF GenerationInvariant, GenerationShape
<1>3. RefreshHolds(refresh', artifact') BY <1>1 DEF RefreshHolds
<1>4. ManifestHolds' BY <1>1 DEF GenerationInvariant, ManifestHolds
<1> QED BY <1>2, <1>3, <1>4 DEF GenerationInvariant

LEMMA ClearedHolds ==
  /\ DOMAIN Cleared = RefreshFields /\ Cleared.at = "down" /\ Cleared.step = 0
  /\ Cleared.symbols = << >> /\ Cleared.embeddings = << >> /\ Cleared.calls = {}
  /\ Cleared.files = Unindexed
  /\ \A a : RefreshHolds(Cleared, a)
BY DEF Cleared, RefreshFields, RefreshHolds

LEMMA NothingInMemory ==
  ASSUME NEW r, NEW a, DOMAIN r = RefreshFields, r.at \in {"lines", "hash"},
         r.at = "hash" => r.step = 0,
         r.symbols = << >>, r.embeddings = << >>, r.calls = {}, r.files = Unindexed
  PROVE  RefreshHolds(r, a)
BY DEF RefreshHolds

\* One artifact is on disk, the next one is due.
LEMMA SaveKeeps ==
  ASSUME GenerationInvariant, SaveArtifact
  PROVE  GenerationInvariant'
<1> DEFINE r    == refresh
           name == SaveSteps[refresh.step + 1]
<1>1. /\ r.at = "save" /\ r.step \in 0..4 /\ r.step < Len(SaveSteps)
      /\ artifact' = [artifact EXCEPT ![name] = Content(name)]
      /\ refresh' = [refresh EXCEPT !.step = @ + 1] /\ UNCHANGED <<tree, metadata>>
  BY DEF SaveArtifact, RefreshAt, GenerationInvariant, RefreshHolds
<1>2. /\ DOMAIN artifact = ArtifactFields /\ DOMAIN refresh = RefreshFields
  BY DEF GenerationInvariant, GenerationShape
<1>3. /\ refresh'.at = "save" /\ refresh'.step = r.step + 1 /\ refresh'.files = r.files
      /\ refresh'.symbols = r.symbols /\ refresh'.embeddings = r.embeddings
      /\ refresh'.calls = r.calls /\ refresh'.faiss = r.faiss /\ DOMAIN refresh' = RefreshFields
  BY <1>1, <1>2 DEF RefreshFields
<1>4. Len(SaveSteps) = 4 /\ SaveSteps[1] = "symbols" /\ SaveSteps[2] = "graph"
      /\ SaveSteps[3] = "embeddings" /\ SaveSteps[4] = "faiss"
  BY DEF SaveSteps
<1>5. r.step \in 0..3 BY <1>1, <1>4
<1>6. DOMAIN artifact' = ArtifactFields BY <1>1, <1>2
<1>a. /\ Content("symbols") = r.symbols /\ Content("graph") = r.calls
      /\ Content("embeddings") = r.embeddings /\ Content("faiss") = r.faiss
  BY DEF Content
<1>b. /\ r.step = 0 => name = "symbols"
      /\ r.step = 1 => name = "graph"
      /\ r.step = 2 => name = "embeddings"
      /\ r.step = 3 => name = "faiss"
  BY <1>4
<1> HIDE DEF name
<1>7. /\ r.step + 1 > 0 => artifact'.symbols = r.symbols
      /\ r.step + 1 > 1 => artifact'.graph = r.calls
      /\ r.step + 1 > 2 => artifact'.embeddings = r.embeddings
      /\ r.step + 1 > 3 => artifact'.faiss = r.faiss
  <2>1. /\ r.step > 0 => artifact.symbols = r.symbols
        /\ r.step > 1 => artifact.graph = r.calls
        /\ r.step > 2 => artifact.embeddings = r.embeddings
    BY <1>1 DEF GenerationInvariant, RefreshHolds
  <2>2. CASE r.step = 0
    <3>1. artifact' = [artifact EXCEPT !.symbols = r.symbols] BY <1>1, <1>a, <1>b, <2>2
    <3> QED BY <1>2, <2>2, <3>1 DEF ArtifactFields
  <2>3. CASE r.step = 1
    <3>1. artifact' = [artifact EXCEPT !.graph = r.calls] BY <1>1, <1>a, <1>b, <2>3
    <3> QED BY <1>2, <2>1, <2>3, <3>1 DEF ArtifactFields
  <2>4. CASE r.step = 2
    <3>1. artifact' = [artifact EXCEPT !.embeddings = r.embeddings]
      BY <1>1, <1>a, <1>b, <2>4
    <3> QED BY <1>2, <2>1, <2>4, <3>1 DEF ArtifactFields
  <2>5. CASE r.step = 3
    <3>1. artifact' = [artifact EXCEPT !.faiss = r.faiss] BY <1>1, <1>a, <1>b, <2>5
    <3> QED BY <1>2, <2>1, <2>5, <3>1 DEF ArtifactFields
  <2> QED BY <1>5, <2>2, <2>3, <2>4, <2>5
<1>8. RefreshHolds(refresh', artifact')
  <2>1. /\ DOMAIN r.files = Files /\ r.embeddings = r.symbols /\ r.faiss = r.embeddings
        /\ SymbolsRecorded(r.symbols, r.files) /\ CallsRecorded(r.calls, r.files)
    BY <1>1 DEF GenerationInvariant, RefreshHolds
  <2> QED BY <1>3, <1>5, <1>7, <2>1 DEF RefreshHolds
<1>9. GenerationShape' BY <1>1, <1>3, <1>6 DEF GenerationInvariant, GenerationShape
<1>10. ManifestHolds' BY <1>1 DEF GenerationInvariant, ManifestHolds
<1> QED BY <1>8, <1>9, <1>10 DEF GenerationInvariant

LEMMA GenerationStep == GenerationInvariant /\ [CINext]_ciVars => GenerationInvariant'
<1> SUFFICES ASSUME GenerationInvariant, [CINext]_ciVars PROVE GenerationInvariant'
  OBVIOUS
<1>1. /\ DOMAIN refresh = RefreshFields /\ RefreshHolds(refresh, artifact)
  BY DEF GenerationInvariant, GenerationShape
<1>2. /\ DOMAIN Cleared = RefreshFields /\ Cleared.at = "down" /\ Cleared.step = 0
      /\ Cleared.symbols = << >> /\ Cleared.embeddings = << >> /\ Cleared.calls = {}
      /\ Cleared.files = Unindexed
      /\ \A a : RefreshHolds(Cleared, a)
  BY ClearedHolds
<1> HIDE DEF Cleared
<1>3. CASE Goes(Cleared) BY <1>2, <1>3, RefreshGoes
<1>4. CASE UNCHANGED ciVars
  BY <1>4 DEF ciVars, GenerationInvariant, GenerationShape, RefreshHolds, ManifestHolds
<1>5. CASE TreeChanges
  <2>1. UNCHANGED <<artifact, metadata, refresh>> BY <1>5 DEF TreeChanges
  <2>2. tree' \in [Files -> {NoFile} \cup Contents]
    BY <1>5 DEF TreeChanges, GenerationInvariant, GenerationShape
  <2>3. GenerationShape' BY <2>1, <2>2 DEF GenerationInvariant, GenerationShape
  <2>4. RefreshHolds(refresh', artifact') BY <1>1, <2>1
  <2>5. ManifestHolds' BY <2>1 DEF GenerationInvariant, ManifestHolds
  <2> QED BY <2>3, <2>4, <2>5 DEF GenerationInvariant
<1>6. ASSUME NEW full \in BOOLEAN, Reindex(full) PROVE GenerationInvariant'
  <2>1. PICK chunks : Goes([Cleared EXCEPT !.at = "lines", !.full = full, !.chunks = chunks,
                                           !.index = chunks])
    BY <1>6 DEF Reindex
  <2> DEFINE r == [Cleared EXCEPT !.at = "lines", !.full = full, !.chunks = chunks,
                                  !.index = chunks]
  <2>2. /\ DOMAIN r = RefreshFields /\ r.at = "lines" /\ r.symbols = << >>
        /\ r.embeddings = << >> /\ r.calls = {} /\ r.files = Unindexed
    BY <1>2 DEF RefreshFields
  <2>3. Goes(r) BY <2>1
  <2> HIDE DEF r
  <2>4. RefreshHolds(r, artifact) BY <2>2, NothingInMemory
  <2> QED BY <2>2, <2>3, <2>4, RefreshGoes
<1>7. CASE SaveLineIndex
  <2>1. /\ UNCHANGED <<tree, artifact, metadata>> /\ refresh.at = "lines"
        /\ refresh' = IF refresh.step < 3 THEN [refresh EXCEPT !.step = @ + 1]
                      ELSE [refresh EXCEPT !.step = 0, !.at = "hash"]
    BY <1>7 DEF SaveLineIndex, RefreshAt
  <2>2. /\ DOMAIN refresh' = RefreshFields
        /\ refresh'.at = "lines" \/ (refresh'.at = "hash" /\ refresh'.step = 0)
        /\ refresh'.symbols = refresh.symbols /\ refresh'.embeddings = refresh.embeddings
        /\ refresh'.calls = refresh.calls /\ refresh'.files = refresh.files
    BY <1>1, <2>1 DEF RefreshFields
  <2>3. RefreshHolds(refresh', artifact') BY <1>1, <2>1, <2>2 DEF RefreshHolds
  <2>4. GenerationShape' BY <2>1, <2>2 DEF GenerationInvariant, GenerationShape
  <2>5. ManifestHolds' BY <2>1 DEF GenerationInvariant, ManifestHolds
  <2> QED BY <2>3, <2>4, <2>5 DEF GenerationInvariant
<1>8. CASE RefreshSymbols
  <2> DEFINE r == [Cleared EXCEPT !.at = "hash"]
  <2>1. Goes(r) BY <1>8 DEF RefreshSymbols
  <2>2. /\ DOMAIN r = RefreshFields /\ r.at = "hash" /\ r.symbols = << >> /\ r.step = 0
        /\ r.embeddings = << >> /\ r.calls = {} /\ r.files = Unindexed
    BY <1>2 DEF RefreshFields
  <2> HIDE DEF r
  <2>3. RefreshHolds(r, artifact) BY <2>2, NothingInMemory
  <2> QED BY <2>1, <2>2, <2>3, RefreshGoes
<1>9. CASE LoadStored
  <2> DEFINE h == [refresh EXCEPT !.at = "extract", !.hashes = tree]
             g == [h EXCEPT !.files = metadata.files, !.symbols = artifact.symbols,
                            !.embeddings = artifact.embeddings, !.calls = artifact.graph]
  <2>0. /\ refresh.at = "hash"
        /\ \/ Goes(h)
           \/ metadata.state # "missing" /\ Loads(metadata, artifact) /\ Goes(g)
           \/ Goes(Cleared)
    BY <1>9 DEF LoadStored, RefreshAt
  <2>1. CASE Goes(h)
    <3>1. /\ refresh.symbols = << >> /\ refresh.embeddings = << >> /\ refresh.calls = {}
          /\ refresh.files = Unindexed /\ refresh.step = 0
      BY <1>1, <2>0 DEF RefreshHolds
    <3>2. /\ DOMAIN h = RefreshFields /\ h.at = "extract" /\ h.symbols = << >> /\ h.step = 0
          /\ h.embeddings = << >> /\ h.calls = {} /\ h.files = Unindexed
      BY <1>1, <3>1 DEF RefreshFields
    <3> HIDE DEF h
    <3>3. RefreshHolds(h, artifact) BY <3>2, NothingIndexed DEF RefreshHolds
    <3> QED BY <2>1, <3>2, <3>3, RefreshGoes
  <2>2. CASE metadata.state # "missing" /\ Loads(metadata, artifact) /\ Goes(g)
    <3>1. refresh.step = 0 BY <1>1, <2>0 DEF RefreshHolds
    <3>2. /\ DOMAIN g = RefreshFields /\ g.at = "extract" /\ g.step = 0
          /\ g.symbols = artifact.symbols /\ g.embeddings = artifact.embeddings
          /\ g.calls = artifact.graph /\ g.files = metadata.files
      BY <1>1, <3>1 DEF RefreshFields
    <3> HIDE DEF g
    <3>3. DOMAIN metadata.files = Files /\ WholeGeneration(artifact, metadata.files)
      BY <2>2 DEF Loads, GenerationInvariant, ManifestHolds
    <3>4. RefreshHolds(g, artifact) BY <3>2, <3>3 DEF RefreshHolds, WholeGeneration
    <3> QED BY <2>2, <3>2, <3>4, RefreshGoes
  <2> QED BY <1>3, <2>0, <2>1, <2>2
<1>10. CASE ExtractChanged
  <2> DEFINE vectors == RetainedVectors \o NewSymbols
             calls   == {ResolveCall(NextSymbols, c) : c \in NextCalls}
             r == [refresh EXCEPT !.at = "save", !.symbols = NextSymbols, !.embeddings = vectors,
                                  !.faiss = vectors, !.calls = calls, !.files = NextFiles]
  <2>1. RefreshAt("extract") /\ Goes(r)
    BY <1>10 DEF ExtractChanged, NextSymbols, NextCalls, NextFiles
  <2>2. /\ SymbolsRecorded(NextSymbols, NextFiles) /\ vectors = NextSymbols
        /\ CallsRecorded(calls, NextFiles)
    BY <2>1, SymbolsAfter, CallsAfter DEF NextSymbols
  <2>3. DOMAIN NextFiles = Files BY DEF NextFiles
  <2>4. refresh.step = 0 BY <1>1, <2>1 DEF RefreshHolds, RefreshAt
  <2> HIDE DEF vectors, calls
  <2>5. /\ DOMAIN r = RefreshFields /\ r.at = "save" /\ r.step = 0 /\ r.symbols = NextSymbols
        /\ r.embeddings = vectors /\ r.faiss = vectors /\ r.calls = calls
        /\ r.files = NextFiles
    BY <1>1, <2>4 DEF RefreshFields
  <2> HIDE DEF r
  <2>6. RefreshHolds(r, artifact) BY <2>2, <2>3, <2>5 DEF RefreshHolds
  <2> QED BY <2>1, <2>5, <2>6, RefreshGoes
<1>11. CASE SaveArtifact BY <1>11, SaveKeeps
<1>12. CASE CommitGeneration
  <2>1. /\ refresh.at = "save" /\ refresh.step = 4 /\ UNCHANGED <<tree, artifact>>
        /\ metadata' = [state |-> "whole", files |-> refresh.files, hashes |-> artifact]
        /\ refresh' = [refresh EXCEPT !.at = "ready", !.step = 0]
    BY <1>12 DEF CommitGeneration, RefreshAt, SaveSteps
  <2>2. /\ artifact.symbols = refresh.symbols /\ artifact.graph = refresh.calls
        /\ artifact.embeddings = refresh.embeddings /\ artifact.faiss = refresh.faiss
        /\ refresh.embeddings = refresh.symbols /\ refresh.faiss = refresh.embeddings
        /\ DOMAIN refresh.files = Files
        /\ SymbolsRecorded(refresh.symbols, refresh.files)
        /\ CallsRecorded(refresh.calls, refresh.files)
    BY <1>1, <2>1 DEF RefreshHolds
  <2>3. WholeGeneration(artifact, refresh.files) BY <2>2 DEF WholeGeneration
  <2>4. ManifestHolds' BY <2>1, <2>2, <2>3 DEF ManifestHolds
  <2>5. DOMAIN refresh' = RefreshFields /\ refresh'.at = "ready"
    BY <1>1, <2>1 DEF RefreshFields
  <2>6. RefreshHolds(refresh', artifact') BY <2>5 DEF RefreshHolds
  <2>7. GenerationShape' BY <2>1, <2>5 DEF GenerationInvariant, GenerationShape
  <2> QED BY <2>4, <2>6, <2>7 DEF GenerationInvariant
<1>13. CASE RefreshEnds BY <1>3, <1>13 DEF RefreshEnds
<1>14. CASE RefreshDies
  <2>1. UNCHANGED <<tree, artifact, metadata>> /\ refresh' = Cleared BY <1>14 DEF RefreshDies
  <2>2. GenerationShape' BY <1>2, <2>1 DEF GenerationInvariant, GenerationShape
  <2>3. ManifestHolds' BY <2>1 DEF GenerationInvariant, ManifestHolds
  <2>4. RefreshHolds(refresh', artifact') BY <1>2, <2>1
  <2> QED BY <2>2, <2>3, <2>4 DEF GenerationInvariant
<1>15. CASE LoadIndexes
  <2> DEFINE r == [Cleared EXCEPT !.at = "ready", !.index = lines.index.body,
                                  !.chunks = lines.chunks.body, !.symbols = artifact.symbols,
                                  !.embeddings = artifact.embeddings, !.calls = artifact.graph,
                                  !.faiss = artifact.faiss, !.files = metadata.files]
  <2>1. Goes(Cleared) \/ Goes(r) BY <1>15 DEF LoadIndexes
  <2>2. DOMAIN r = RefreshFields /\ r.at = "ready" BY <1>2 DEF RefreshFields
  <2> HIDE DEF r
  <2>3. RefreshHolds(r, artifact) BY <2>2 DEF RefreshHolds
  <2> QED BY <1>3, <2>1, <2>2, <2>3, RefreshGoes
<1> QED BY <1>4, <1>5, <1>6, <1>7, <1>8, <1>9, <1>10, <1>11, <1>12, <1>13, <1>14, <1>15
        DEF CINext

LEMMA GenerationInvariantHolds == CISpec => []GenerationInvariant
<1>1. CIInit => GenerationInvariant
  <2> SUFFICES ASSUME CIInit PROVE GenerationInvariant
    OBVIOUS
  <2>1. /\ refresh = Cleared /\ artifact = Absent /\ metadata.state = "missing"
        /\ tree \in [Files -> {NoFile} \cup Contents]
    BY DEF CIInit
  <2>2. DOMAIN Absent = ArtifactFields BY DEF Absent, ArtifactFields
  <2>3. DOMAIN Cleared = RefreshFields /\ \A a : RefreshHolds(Cleared, a) BY ClearedHolds
  <2> HIDE DEF Cleared
  <2>4. GenerationShape BY <2>1, <2>2, <2>3 DEF GenerationShape
  <2>5. ManifestHolds BY <2>1 DEF ManifestHolds
  <2>6. RefreshHolds(refresh, artifact) BY <2>1, <2>3
  <2> QED BY <2>4, <2>5, <2>6 DEF GenerationInvariant
<1>2. GenerationInvariant /\ [CINext]_ciVars => GenerationInvariant' BY GenerationStep
<1> QED BY <1>1, <1>2, PTL DEF CISpec

\* symbol_index.py:213-264, 293-334: whatever a load of the symbol index accepts is one
\* generation: as many vectors as symbols and each its symbol's, a search index of those vectors,
\* the symbols of exactly the recorded contents, and calls of those contents. It holds for any
\* repository, over any number of refreshes, full or from what is stored, and wherever each of
\* them died.
THEOREM LoadedIndexIsOneGeneration == CISpec => []LoadedGenerationIsWhole
<1>1. GenerationInvariant => LoadedGenerationIsWhole
  <2> SUFFICES ASSUME GenerationInvariant, metadata.state = "whole", Loads(metadata, artifact)
               PROVE  LoadedGenerationIsWhole
    BY DEF LoadedGenerationIsWhole
  <2>1. WholeGeneration(artifact, metadata.files)
    BY DEF Loads, GenerationInvariant, ManifestHolds
  <2> QED BY <2>1 DEF WholeGeneration, SymbolsRecorded, CallsRecorded, Elements,
                      LoadedGenerationIsWhole
<1> QED BY <1>1, GenerationInvariantHolds, PTL
=============================================================================
