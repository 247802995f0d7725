----------------------------- MODULE OwnerProjects -----------------------------
(***************************************************************************)
(* A learning project from its assignment to its completion: the milestone  *)
(* is assigned and a Career Forge mission opened for each competency, the   *)
(* work is delegated to an objective, the task's files or the learner's own *)
(* artifact are submitted, and every competency is reviewed                 *)
(* (projects/service.py and the handlers of interface/api.py).              *)
(*                                                                          *)
(* The handlers are `def` functions on worker threads.  Each call of the    *)
(* project service holds its lock and one transaction, and is one step, and *)
(* so is each call of Career Forge and of Autonomy; between them other      *)
(* handlers run and the process may end.                                    *)
(***************************************************************************)
EXTENDS Integers, FiniteSets

CONSTANTS
  ProjectHandlers,  \* requests that may be under way
  Submissions,      \* submission ids the owner's browser makes up
  CompetencyCount,  \* bound: the competencies of the milestone, 1..CompetencyCount in order
  MaxMissions,      \* bound: missions opened for one competency
  MaxEnds           \* bound: missions that end and processes that die

ASSUME OPAssumption == /\ CompetencyCount \in Nat \ {0} /\ MaxMissions \in Nat \ {0}
                       /\ MaxEnds \in Nat

Skills == 1..CompetencyCount

VARIABLES
  project,    \* projects: its state and its references
  assigned,   \* the learning path's project_assignment row exists
  missions,   \* by competency: the newest mission, and whether its resume point names the project
  links,      \* project_learning_missions: by competency the mission, 0 for none
  objective,  \* the objective with the reserved id, in Autonomy's own database
  delegated,  \* mission_objectives links the project's mission to it
  task,       \* the objective's engineering task
  rows,       \* project_review_submissions, with the Career Forge attempt each reserved
  linked,     \* project_learning_evidence: the submissions whose evidence is linked
  reviewer,   \* who holds project_review_lock
  request,    \* what each handler does
  ended

opVars == <<project, assigned, missions, links, objective, delegated, task, rows, linked,
            reviewer, request, ended>>

NoProject == [state |-> "none", mission |-> FALSE, reserved |-> FALSE, task |-> FALSE,
              artifacts |-> FALSE]
NoRow     == [kind |-> "none", skill |-> 0, verdict |-> "none"]
NoWork    == [op |-> "idle", at |-> "-", skill |-> 0, row |-> "-", verdict |-> "-"]

\* A competency may already be studied in a mission that has nothing to do with the project.
OPInit ==
  /\ project = NoProject /\ assigned = FALSE /\ delegated = FALSE
  /\ missions \in [Skills -> {[n |-> 0, state |-> "none", ours |-> FALSE],
                              [n |-> 1, state |-> "active", ours |-> FALSE]}]
  /\ links = [c \in Skills |-> 0]
  /\ objective = "none" /\ task = "none"
  /\ rows = [s \in Submissions |-> NoRow] /\ linked = {}
  /\ reviewer = "free" /\ request = [h \in ProjectHandlers |-> NoWork] /\ ended = 0

Waits(h, op, at)  == request[h].op = op /\ request[h].at = at
Begins(h, w)      == request[h] = NoWork /\ request' = [request EXCEPT ![h] = w]
Step(h, at)       == request' = [request EXCEPT ![h].at = at]
Answers(h)        == request' = [request EXCEPT ![h] = NoWork]
\* The handler goes on when `ok`, and answers 409 otherwise.
StepIf(h, ok, at) == IF ok THEN Step(h, at) ELSE Answers(h)
State(s)          == project' = [project EXCEPT !.state = s]

-----------------------------------------------------------------------------
(* Assignment.                                                              *)

\* assign: one project for the path version's milestone, made or found.
AssignProject(h) ==
  /\ Begins(h, [NoWork EXCEPT !.op = "assign", !.at = "mission", !.skill = 1])
  /\ project' = IF project.state = "none" THEN [project EXCEPT !.state = "assigned"] ELSE project
  /\ UNCHANGED <<assigned, missions, links, objective, delegated, task, rows, linked, reviewer, ended>>

\* start_project_mission: the competency's active mission when its resume point still names
\* this project, a new one when there is none, and a refusal otherwise.
BeginProjectMission(h) ==
  /\ Waits(h, "assign", "mission")
  /\ LET c == request[h].skill
         m == missions[c]
     IN IF m.state = "active"
        THEN StepIf(h, m.ours, "attach") /\ UNCHANGED missions
        ELSE /\ m.n < MaxMissions /\ Step(h, "attach")
             /\ missions' = [missions EXCEPT ![c] = [n |-> m.n + 1, state |-> "active", ours |-> TRUE]]
  /\ UNCHANGED <<project, assigned, links, objective, delegated, task, rows, linked, reviewer, ended>>

\* Mutant: the path learns of the project once its first mission is attached.
AttachFirstAndLink(h) ==
  /\ Waits(h, "assign", "attach")
  /\ links' = [links EXCEPT ![request[h].skill] = missions[request[h].skill].n]
  /\ project' = [project EXCEPT !.mission = TRUE] /\ Step(h, "link")
  /\ UNCHANGED <<assigned, missions, objective, delegated, task, rows, linked, reviewer, ended>>

\* attach_mission: an open project, and a competency that is not bound to another mission.
\* (The mission attached is the one the call before returned.)
AttachMission(h) ==
  /\ Waits(h, "assign", "attach")
  /\ LET c  == request[h].skill
         ok == project.state \in {"assigned", "active"} /\ links[c] \in {0, missions[c].n}
     IN IF ok
        THEN /\ links' = [links EXCEPT ![c] = missions[c].n]
             /\ project' = [project EXCEPT !.mission = TRUE]
             /\ IF c < CompetencyCount
                THEN request' = [request EXCEPT ![h].skill = c + 1, ![h].at = "mission"]
                ELSE Step(h, "link")
        ELSE Answers(h) /\ UNCHANGED <<links, project>>
  /\ UNCHANGED <<assigned, missions, objective, delegated, task, rows, linked, reviewer, ended>>

\* link_project_assignment: last of all, the path learns of the project.
LinkAssignment(h) ==
  /\ Waits(h, "assign", "link") /\ assigned' = TRUE /\ Answers(h)
  /\ UNCHANGED <<project, missions, links, objective, delegated, task, rows, linked, reviewer, ended>>

-----------------------------------------------------------------------------
(* The objective that does the work.                                        *)

\* create_learning_project_objective reads the project; a reserved id is looked up in Autonomy,
AskForObjective(h) ==
  /\ project.state # "none"
  /\ IF project.reserved
     THEN Begins(h, [NoWork EXCEPT !.op = "objective",
                                   !.at = CASE objective = "none"    -> "missing"
                                            [] objective = "created" -> "resume"
                                            [] OTHER                 -> "delegate"])
     ELSE /\ project.mission /\ ~delegated /\ assigned
          /\ Begins(h, [NoWork EXCEPT !.op = "objective", !.at = "reserve"])
  /\ UNCHANGED <<project, assigned, missions, links, objective, delegated, task, rows, linked,
                 reviewer, ended>>

\* and an id Autonomy does not know is answered with 409, "objective is unavailable".
ObjectiveIsMissing(h) ==
  /\ Waits(h, "objective", "missing") /\ Answers(h)
  /\ UNCHANGED <<project, assigned, missions, links, objective, delegated, task, rows, linked,
                 reviewer, ended>>

\* reserve_objective_id: the id is stored before the objective is made.
ReserveObjectiveId(h) ==
  /\ Waits(h, "objective", "reserve")
  /\ LET ok == project.state \in {"assigned", "active", "needs_revision"}
     IN /\ StepIf(h, ok, "create")
        /\ project' = IF ok THEN [project EXCEPT !.reserved = TRUE, !.state = "active"] ELSE project
  /\ UNCHANGED <<assigned, missions, links, objective, delegated, task, rows, linked, reviewer, ended>>

\* Autonomy's create: the objective with that id, made or found.
CreateObjective(h) ==
  /\ Waits(h, "objective", "create")
  /\ objective' = IF objective = "none" THEN "created" ELSE objective
  /\ Step(h, IF objective \in {"none", "created"} THEN "resume" ELSE "delegate")
  /\ UNCHANGED <<project, assigned, missions, links, delegated, task, rows, linked, reviewer, ended>>

\* Autonomy's resume.
ResumeObjective(h) ==
  /\ Waits(h, "objective", "resume")
  /\ objective' = IF objective = "cancelled" THEN objective ELSE "planning"
  /\ StepIf(h, objective # "cancelled", "delegate")
  /\ UNCHANGED <<project, assigned, missions, links, delegated, task, rows, linked, reviewer, ended>>

\* link_mission_objective: the link exists, or the mission is active and gets it.
LinkMissionObjective(h) ==
  /\ Waits(h, "objective", "delegate")
  /\ delegated' = (delegated \/ missions[1].state = "active")
  /\ Answers(h)
  /\ UNCHANGED <<project, assigned, missions, links, objective, task, rows, linked, reviewer, ended>>

\* Autonomy and the engineering task go their own way.
ObjectiveGoesOn ==
  /\ \/ objective = "planning" /\ task = "none" /\ task' = "succeeded" /\ UNCHANGED objective
     \/ objective \in {"created", "planning"} /\ objective' = "cancelled" /\ UNCHANGED task
  /\ UNCHANGED <<project, assigned, missions, links, delegated, rows, linked, reviewer, request, ended>>

-----------------------------------------------------------------------------
(* What is submitted.                                                       *)

\* submit_learning_project_artifacts: the linked task passed validation and review, for good;
\* attach_task,
AttachTask(h) ==
  /\ project.reserved /\ task = "succeeded"
  /\ project.state \in {"active", "needs_revision", "under_review"}
  /\ Begins(h, [NoWork EXCEPT !.op = "submit", !.at = "artifacts"])
  /\ project' = [project EXCEPT !.task = TRUE]
  /\ UNCHANGED <<assigned, missions, links, objective, delegated, task, rows, linked, reviewer, ended>>

\* then add_task_artifacts.
AddTaskArtifacts(h) ==
  /\ Waits(h, "submit", "artifacts") /\ Answers(h)
  /\ project' = IF project.state \in {"active", "needs_revision", "under_review"}
                THEN [project EXCEPT !.artifacts = TRUE, !.state = "under_review"] ELSE project
  /\ UNCHANGED <<assigned, missions, links, objective, delegated, task, rows, linked, reviewer, ended>>

\* review_learning_project wants an explanation of one competency for the task's artifacts,
\* submit_learning_project_artifact the learner's own source file for one; both know a
\* submission id they have seen.
AcceptsSubmission(kind, s) ==
  /\ assigned
  /\ IF kind = "review"
     THEN /\ project.task /\ project.artifacts
          /\ rows[s] = NoRow => project.state = "under_review"
     ELSE rows[s] = NoRow => project.state \in {"active", "needs_revision", "under_review"}

\* What the handlers read lasts, but for the state, which reserve_review_submission and
\* reserve_owner_artifact_submission read again: a new row with its attempt id, or the same
\* row for the same competency; the owner's artifact puts the project under review.
ReserveSubmission(h, kind, s, c) ==
  /\ links[c] # 0 /\ AcceptsSubmission(kind, s)
  /\ rows[s] # NoRow => rows[s].kind = kind /\ rows[s].skill = c
  /\ Begins(h, [NoWork EXCEPT !.op = kind, !.at = "record", !.skill = c, !.row = s])
  /\ IF rows[s] = NoRow
     THEN /\ rows' = [rows EXCEPT ![s] = [kind |-> kind, skill |-> c, verdict |-> "none"]]
          /\ IF kind = "artifact" THEN State("under_review") ELSE UNCHANGED project
     ELSE UNCHANGED <<rows, project>>
  /\ UNCHANGED <<assigned, missions, links, objective, delegated, task, linked, reviewer, ended>>

-----------------------------------------------------------------------------
(* The review.                                                              *)

\* record_attempt: the pending attempt with the reserved id, made or found.  A new one moves
\* the mission's resume point, which forgets the project; a mission that is over refuses.
RecordProjectAttempt(h) ==
  /\ request[h].at = "record"
  /\ LET s == request[h].row
         c == request[h].skill
         live == missions[c].state = "active" /\ missions[c].n = links[c]
     IN IF rows[s].verdict = "none"
        THEN /\ rows' = [rows EXCEPT ![s].verdict = "pending"]
             /\ missions' = IF live THEN [missions EXCEPT ![c].ours = FALSE] ELSE missions
             /\ StepIf(h, live, "judge")
        ELSE /\ Step(h, IF rows[s].verdict = "pending" THEN "judge" ELSE "evidence")
             /\ UNCHANGED <<rows, missions>>
  /\ UNCHANGED <<project, assigned, links, objective, delegated, task, linked, reviewer, ended>>

\* One review at a time asks the model; another one answers 429.
AskEvaluator(h) ==
  /\ request[h].at = "judge"
  /\ IF reviewer = "free" THEN reviewer' = h /\ Step(h, "model")
     ELSE UNCHANGED reviewer /\ Answers(h)
  /\ UNCHANGED <<project, assigned, missions, links, objective, delegated, task, rows, linked, ended>>

\* The model answers, or fails; the lock is given back before the verdict is stored.
EvaluatorAnswers(h) ==
  /\ request[h].at = "model" /\ reviewer' = "free"
  /\ \/ \E v \in {"correct", "incorrect"} :
          request' = [request EXCEPT ![h].at = "evaluate", ![h].verdict = v]
     \/ Answers(h)
  /\ UNCHANGED <<project, assigned, missions, links, objective, delegated, task, rows, linked, ended>>

\* evaluate_attempt: the verdict, and the evidence of a correct answer, once and for a mission
\* that is active.
EvaluateProjectAttempt(h) ==
  /\ request[h].at = "evaluate"
  /\ LET s == request[h].row
         c == request[h].skill
         ok == /\ rows[s].verdict = "pending"
               /\ missions[c].state = "active" /\ missions[c].n = links[c]
     IN /\ StepIf(h, ok, "evidence")
        /\ rows' = IF ok THEN [rows EXCEPT ![s].verdict = request[h].verdict] ELSE rows
  /\ UNCHANGED <<project, assigned, missions, links, objective, delegated, task, linked, reviewer, ended>>

\* link_learning_evidence: what Career Forge holds for the attempt.
LinkEvidence(h) ==
  /\ request[h].at = "evidence" /\ Step(h, "settle")
  /\ linked' = IF rows[request[h].row].verdict = "correct" THEN linked \cup {request[h].row} ELSE linked
  /\ UNCHANGED <<project, assigned, missions, links, objective, delegated, task, rows, reviewer, ended>>

Bound  == {c \in Skills : links[c] # 0}
\* project_evidence: the competencies Career Forge has evidence for, from this project.
Proved == {rows[s].skill : s \in {t \in Submissions : rows[t].verdict = "correct"}}
\* project_learning_evidence: the competencies the project has linked evidence for.
Shown  == {rows[s].skill : s \in linked}

\* The handler reads what is expected and proved, and what it will make of the verdict.
Settle(h) ==
  /\ request[h].at = "settle"
  /\ LET right == rows[request[h].row].verdict = "correct"
         own   == request[h].op = "artifact"
     IN IF right
        THEN StepIf(h, Bound \subseteq Proved /\ (own => project.state # "completed"), "complete")
        ELSE StepIf(h, own => project.state \in {"under_review", "needs_revision"}, "revise")
  /\ UNCHANGED <<project, assigned, missions, links, objective, delegated, task, rows, linked,
                 reviewer, ended>>

\* record_review_result refuses a project that awaits no result, and a completion without
\* linked evidence for every bound competency.
MayRecord(result) ==
  /\ project.state \in {"under_review", "needs_revision"}
  /\ result = "completed" => Bound \subseteq Shown

RecordReviewResult(h) ==
  /\ request[h].at \in {"complete", "revise"} /\ Answers(h)
  /\ LET result == IF request[h].at = "complete" THEN "completed" ELSE "needs_revision"
     IN IF MayRecord(result) THEN State(result) ELSE UNCHANGED project
  /\ UNCHANGED <<assigned, missions, links, objective, delegated, task, rows, linked, reviewer, ended>>

-----------------------------------------------------------------------------
\* The owner studies in a mission: an attempt moves its resume point; or the mission ends.
MissionGoesOn ==
  /\ \E c \in Skills :
       /\ missions[c].state = "active"
       /\ \/ missions' = [missions EXCEPT ![c].ours = FALSE] /\ missions[c].ours /\ UNCHANGED ended
          \/ ended < MaxEnds /\ ended' = ended + 1 /\ missions' = [missions EXCEPT ![c].state = "over"]
  /\ UNCHANGED <<project, assigned, links, objective, delegated, task, rows, linked, reviewer, request>>

\* The process ends with its requests and its lock.
ServerDies ==
 /\ ended < MaxEnds /\ ended' = ended + 1
 /\ \E h \in ProjectHandlers : request[h] # NoWork
 /\ request' = [h \in ProjectHandlers |-> NoWork] /\ reviewer' = "free"
 /\ UNCHANGED <<project, assigned, missions, links, objective, delegated, task, rows, linked>>

OPNext ==
  \/ ObjectiveGoesOn \/ MissionGoesOn \/ ServerDies
  \/ \E h \in ProjectHandlers :
       \/ AssignProject(h) \/ BeginProjectMission(h) \/ AttachMission(h) \/ LinkAssignment(h)
       \/ AskForObjective(h) \/ ObjectiveIsMissing(h) \/ ReserveObjectiveId(h)
       \/ CreateObjective(h) \/ ResumeObjective(h) \/ LinkMissionObjective(h)
       \/ AttachTask(h) \/ AddTaskArtifacts(h)
       \/ \E k \in {"review", "artifact"}, s \in Submissions, c \in Skills :
            ReserveSubmission(h, k, s, c)
       \/ RecordProjectAttempt(h) \/ AskEvaluator(h)
       \/ EvaluatorAnswers(h) \/ EvaluateProjectAttempt(h) \/ LinkEvidence(h) \/ Settle(h)
       \/ RecordReviewResult(h)

OPSpec == OPInit /\ [][OPNext]_opVars
-----------------------------------------------------------------------------
\* Every variable keeps its type; the lock is held by a review that asks the model.
OPTypeOK ==
  /\ project.state \in {"none", "assigned", "active", "under_review", "needs_revision", "completed"}
  /\ \A c \in Skills : links[c] \in 0..MaxMissions
  /\ \A s \in Submissions : rows[s].verdict \in {"none", "pending", "correct", "incorrect"}
  /\ reviewer # "free" => request[reviewer].at = "model"

\* docs/architecture, record_review_result: a completed project has a correct answer of the
\* owner for every competency of its milestone, although the missions were attached one by
\* one and a handler may have died after any of them.
CompletedProvesEveryCompetency == project.state = "completed" => Skills \subseteq Proved

\* service.py:496, "Persist an Objective ID before creating it for crash-safe retry": a
\* request that finds the reserved id without its objective meets one that is creating it.
RetryIsCrashSafe ==
  \A h \in ProjectHandlers : Waits(h, "objective", "missing") =>
    objective # "none" \/ \E g \in ProjectHandlers : Waits(g, "objective", "create")
=============================================================================
