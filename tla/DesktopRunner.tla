---------------------------- MODULE DesktopRunner ----------------------------
(***************************************************************************)
(* ComputerAgencyRunner of desktop/runner.py with the terminal of          *)
(* desktop/terminal.py: one computer task from its contract to its end.    *)
(* The runner plans, then takes the plan step by step.  A step dispatches  *)
(* one effect (open a URI, launch, open a location, a filesystem change, a *)
(* command) along prepare, claim, start, dispatch and a poll with a        *)
(* deadline, or it performs accessible actions one after the other.  The   *)
(* ledger row of every effect, the task's state and the stop flag are      *)
(* durable; everything else dies with the process.                         *)
(*                                                                         *)
(* Abstracted: one accessible action is one step here (its inside, and the *)
(* recovery of a task, are ComputerAgency); what an observation shows is a *)
(* free choice; progress, metrics, summaries and interaction context are   *)
(* left out, and so is the clarification an ambiguous target may end in.   *)
(***************************************************************************)
EXTENDS GoalPlan

CONSTANTS
  MaxRows,     \* bound: ledger rows of the task
  DirectSteps  \* the routes _run_locked takes without a plan

ASSUME DesktopRunnerAssumption ==
  /\ MaxRows \in Nat
  /\ DirectSteps \subseteq {"navigate", "form", "native_plan", "text_file"}

VARIABLES
  goal,        \* the contract of the request
  plan,        \* the steps, proposed and later completed
  stage,       \* where the run is
  at,          \* the step in progress
  pc,          \* where that step is
  rows,        \* the ledger's action rows
  claim,       \* the row of the effect being dispatched, 0 for none
  actor,       \* the dispatched process
  seen,        \* an observation succeeded since the dispatch
  left,        \* accessible actions the step still takes, one mode each
  results,     \* satisfied_requirements
  taskStatus,  \* the task's state in the ledger
  stopFlag     \* its durable stop flag

drVars == <<goal, plan, stage, at, pc, rows, claim, actor, seen, left, results, taskStatus, stopFlag>>
step == <<at, pc, claim, actor, seen, left>>

NoGoal == [location |-> FALSE, create |-> FALSE, terminal |-> FALSE, commands |-> 0,
           apps |-> {}, query |-> FALSE, uri |-> FALSE, ws |-> FALSE, explicit |-> FALSE,
           visible |-> FALSE, only |-> FALSE]

DirectPlan(kind) == <<Step(kind, "named", "")>>

(* The effect a step dispatches; "acts": accessible actions only. *)
EffectOf(s) ==
  CASE s.kind = "open_target" -> IF s.target = "site" THEN "open_uri" ELSE "launch_app"
    [] s.kind \in {"open_location", "activate_visible_target"} -> "open_location"
    [] s.kind = "create_directory" -> "filesystem"
    [] s.kind = "run_read_only_command" -> IF goal.terminal THEN "integrated" ELSE "terminal"
    [] s.kind = "text_file" -> "open_file"
    [] OTHER -> "acts"

Effects == {"open_uri", "launch_app", "open_location", "filesystem", "integrated", "terminal",
            "open_file"}

(* The accessible actions of a step, each "checked" for its verified result *)
(* or "any": the runner goes on whatever came of it.  Every route is a set  *)
(* of sequences, for what it finds on the screen decides what it still does.*)
Maybe(m) == {<<>>, <<m>>}
Then(A, B) == {x \o y : x \in A, y \in B}

(* Windows are switched until an observation shows the right one active. *)
FocusRoute == Maybe("any")

NavigateRoute == Then(FocusRoute, Then(Maybe("checked"), {<<"checked", "checked">>}))
FormRoute == Then(FocusRoute, Then(Maybe("checked"), Then(Maybe("checked"), {<<"checked">>})))
BrowserFocus == FocusRoute
SearchRoute ==
  Then(BrowserFocus, Then(Maybe("checked"), Then(Maybe("any"), {<<"checked", "checked">>})))
ResultRoute == {<<"checked">>}
ContextTargetRoute == {<<"checked">>}
GroundedRoute == {<<"any">>}
ContextRoute == {<<"checked">>}
VisibleRoute == {<<"checked">>, <<>>}
NativeRoute == {<<"checked", "checked">>}
TerminalRoute == Then(FocusRoute, Then(Maybe("checked"), Maybe("checked")))

Routes(s) ==
  CASE s.kind = "navigate" -> NavigateRoute
    [] s.kind = "form" -> FormRoute
    [] s.kind = "native_plan" -> NativeRoute
    [] s.kind = "search_current_page" -> SearchRoute
    [] s.kind = "select_search_result" -> ResultRoute
    [] s.kind = "native_action" -> ContextTargetRoute \cup GroundedRoute
    [] s.kind = "scroll" -> ContextRoute
    [] s.kind = "open_terminal" -> TerminalRoute
    [] s.kind = "activate_visible_target" -> VisibleRoute
    [] OTHER -> {<<>>}

RowStates == {"prepared", "in_flight", "verified", "failed", "in_doubt", "stale", "cancelled"}

DRTypeOK ==
  /\ goal \in Contracts \cup {NoGoal}
  /\ stage \in {"new", "proposed", "completed", "running", "returned"}
  /\ at \in 0..(PlanLimit + 1)
  /\ pc \in {"step", "acts", "prepare", "prepared", "claimed", "started", "polling", "verified"}
  /\ \A i \in DOMAIN rows :
       rows[i] \in [step : 1..PlanLimit, effect : Effects \cup {"acts"},
                    state : RowStates, started : BOOLEAN]
  /\ claim \in 0..MaxRows
  /\ actor \in {"none", "running", "ok", "failed"}
  /\ seen \in BOOLEAN /\ Len(left) <= 5
  /\ taskStatus \in {"active", "recovery_required", "succeeded", "failed", "cancelled"}
  /\ stopFlag \in BOOLEAN

DRInit ==
  /\ goal \in Contracts \cup {NoGoal}
  /\ plan = <<>> /\ stage = "new"
  /\ at = 0 /\ pc = "step" /\ rows = <<>> /\ claim = 0
  /\ actor = "none" /\ seen = FALSE /\ left = <<>> /\ results = {}
  /\ taskStatus = "active" /\ stopFlag = FALSE

-----------------------------------------------------------------------------
(* The ledger, as far as the runner depends on it. *)

InState(S) == {i \in DOMAIN rows : rows[i].state \in S}
Set(i, state) == rows' = [rows EXCEPT ![i].state = state]
CancelPrepared(r) ==
  [i \in DOMAIN r |-> IF r[i].state = "prepared" THEN [r[i] EXCEPT !.state = "cancelled"] ELSE r[i]]
RequiresRecovery == IF taskStatus = "active" THEN "recovery_required" ELSE taskStatus
OpenUnlessFinal == taskStatus = "active"
Open == taskStatus = "active" /\ ~stopFlag   \* prepare, claim and mark_execution_started accept it

(* complete(succeeded=False) of the handler around the run, given the rows *)
(* r and the task state s the exception leaves; a refusal of it escapes.   *)
RaisesWith(r, s) ==
  LET failed == s = "active" /\ ~stopFlag /\ \A i \in DOMAIN r : r[i].state # "in_flight" IN
  /\ stage' = "returned"
  /\ taskStatus' = IF failed THEN "failed" ELSE s
  /\ rows' = IF failed THEN CancelPrepared(r) ELSE r
  /\ UNCHANGED <<goal, plan, results, stopFlag>> /\ UNCHANGED step

Raises == RaisesWith(rows, taskStatus)
RowClosed(i, state) == [rows EXCEPT ![i].state = state]
RaisesFailed == RaisesWith(RowClosed(claim, "failed"), taskStatus)
RaisesInDoubt == RaisesWith(RowClosed(claim, "in_doubt"), RequiresRecovery)

-----------------------------------------------------------------------------
(* Planning. *)

Propose ==
  /\ stage = "new"
  /\ IF stopFlag \/ taskStatus # "active"
     THEN /\ stage' = "returned"
          /\ taskStatus' = IF taskStatus = "active" THEN "cancelled" ELSE taskStatus
          /\ UNCHANGED plan
     ELSE \/ /\ stage' = "returned"  \* the desktop permission is not active
             /\ UNCHANGED <<plan, taskStatus>>
          \/ /\ goal = NoGoal
             /\ \E k \in DirectSteps : plan' = DirectPlan(k)
             /\ stage' = "running" /\ UNCHANGED taskStatus
          \/ /\ goal # NoGoal
             /\ plan' \in PlansFor(goal)
             /\ stage' = "proposed" /\ UNCHANGED taskStatus
  /\ at' = 1
  /\ UNCHANGED <<goal, pc, rows, claim, actor, seen, left, results, stopFlag>>

(* No observation, no model answer, or none that parses. *)
PlanFails == stage = "proposed" /\ Raises

CompletePlan ==
  /\ stage = "proposed"
  /\ \/ /\ ~Completes(goal, plan) /\ Raises
     \/ /\ Completes(goal, plan)
        /\ plan' = Completed(goal, plan) /\ stage' = "completed"
        /\ UNCHANGED <<goal, rows, results, taskStatus, stopFlag>> /\ UNCHANGED step

ValidatePlan ==
  /\ stage = "completed"
  /\ \/ /\ ~Accepted(goal, plan) /\ Raises
     \/ /\ Accepted(goal, plan)
        /\ stage' = "running"
        /\ UNCHANGED <<goal, plan, rows, results, taskStatus, stopFlag>> /\ UNCHANGED step

-----------------------------------------------------------------------------
(* A step: its checks, its accessible actions, its effect. *)

PlanRuns == stage = "running" /\ at \in DOMAIN plan
Effect == EffectOf(plan[at])
Goes(next) ==
  /\ pc' = next
  /\ UNCHANGED <<goal, plan, stage, at, claim, actor, seen, left, results, taskStatus, stopFlag>>

BeginStep ==
  /\ PlanRuns /\ pc = "step"
  /\ \/ /\ stopFlag /\ Raises
     \/ /\ ~stopFlag
        /\ left' \in Routes(plan[at])
        /\ pc' = IF left' # <<>> THEN "acts" ELSE IF Effect = "acts" THEN "verified" ELSE "prepare"
        /\ UNCHANGED <<goal, plan, stage, at, rows, claim, actor, seen, results, taskStatus, stopFlag>>

(* Whatever fails before the effect is dispatched and that nothing catches. *)
Fails ==
  /\ PlanRuns /\ pc \in {"step", "acts", "prepare", "prepared"}
  /\ Raises

ActDone ==
  /\ left' = Tail(left)
  /\ pc' = IF Len(left) > 1 THEN "acts" ELSE IF Effect = "acts" THEN "verified" ELSE "prepare"
  /\ UNCHANGED <<goal, plan, stage, at, claim, actor, seen, results, taskStatus, stopFlag>>

Acted(state) == Append(rows, [step |-> at, effect |-> "acts", state |-> state, started |-> TRUE])

Act ==
  /\ PlanRuns /\ pc = "acts" /\ Len(rows) < MaxRows
  /\ \/ ~Open /\ Raises
     \/ Open /\ rows' = Acted("verified") /\ ActDone
     \/ Open /\ Head(left) = "any" /\ rows' = Acted("failed") /\ ActDone
     \/ Open /\ Head(left) = "checked" /\ RaisesWith(Acted("failed"), taskStatus)
     \/ Open /\ RaisesWith(Acted("in_doubt"), "recovery_required")

Prepare ==
  /\ PlanRuns /\ pc = "prepare" /\ Len(rows) < MaxRows
  /\ \/ ~Open /\ Raises
     \/ /\ Open
        /\ rows' = Append(rows, [step |-> at, effect |-> Effect, state |-> "prepared",
                                 started |-> FALSE])
        /\ claim' = Len(rows) + 1 /\ pc' = "prepared"
        /\ UNCHANGED <<goal, plan, stage, at, actor, seen, left, results, taskStatus, stopFlag>>

Claim(changed) ==
  /\ PlanRuns /\ pc = "prepared"
  /\ \/ ~Open /\ Raises
     \/ Open /\ changed /\ RaisesWith(RowClosed(claim, "stale"), taskStatus)
     \/ Open /\ ~changed /\ Set(claim, "in_flight") /\ Goes("claimed")

(* Only the launcher looks at its target between claim and start. *)
TargetUnobservable ==
  /\ PlanRuns /\ pc = "claimed" /\ Effect = "launch_app"
  /\ RaisesFailed

(* The handler around mark_execution_started closes the row, or there is   *)
(* none and the refusal leaves it claimed.                                 *)
StartIsGuarded == Effect \in {"launch_app", "open_location", "terminal", "open_file"}

Start ==
  /\ PlanRuns /\ pc = "claimed"
  /\ \/ /\ Open
        /\ rows' = [rows EXCEPT ![claim].started = TRUE]
        /\ Goes("started")
     \/ ~Open /\ StartIsGuarded /\ RaisesFailed
     \/ ~Open /\ ~StartIsGuarded /\ Raises

Synchronous == {"filesystem", "open_file"}  \* returned before the result is looked for

Dispatch ==
  /\ PlanRuns /\ pc = "started"
  /\ \/ /\ Effect = "integrated" /\ stopFlag /\ RaisesFailed
     \/ /\ Effect = "integrated" => ~stopFlag
        /\ actor' = IF Effect \in Synchronous THEN "ok" ELSE "running"
        /\ seen' = FALSE /\ pc' = "polling"
        /\ UNCHANGED <<goal, plan, stage, at, rows, claim, left, results, taskStatus, stopFlag>>

DispatchFails ==
  /\ PlanRuns /\ pc = "started"
  /\ \/ Effect \in {"open_uri", "launch_app", "open_location", "terminal", "open_file"} /\ RaisesFailed
     \/ Effect = "filesystem" /\ RaisesInDoubt
     \/ Effect = "integrated" /\ ~stopFlag /\ Raises  \* its handler expects other state names

-----------------------------------------------------------------------------
(* The poll: one action per way the loop is left. *)

Polling == PlanRuns /\ pc = "polling"

ActorExits(result) ==
  /\ Polling /\ actor = "running"
  /\ actor' = result
  /\ UNCHANGED <<goal, plan, stage, rows, results, taskStatus, stopFlag, at, pc, claim, seen, left>>

Observe ==
  /\ Polling /\ ~seen
  /\ seen' = TRUE
  /\ UNCHANGED <<goal, plan, stage, rows, results, taskStatus, stopFlag, at, pc, claim, actor, left>>

HearStop ==
  /\ Polling /\ stopFlag /\ Effect \notin Synchronous
  /\ RaisesInDoubt

Exited == Polling /\ actor = "failed" /\ RaisesFailed

(* A terminal command is verified by its result, the others by what shows. *)
Verify ==
  /\ Polling
  /\ Effect \in {"terminal", "integrated", "filesystem", "open_file"} => actor = "ok"
  /\ Set(claim, "verified") /\ Goes("verified")

NotShownGoesOn ==
  /\ Polling /\ Effect \in {"terminal", "filesystem", "open_file"} /\ actor = "ok"
  /\ Set(claim, "failed") /\ Goes("verified")

NotShown ==
  /\ Polling /\ Effect \in {"terminal", "filesystem", "open_file"} /\ actor = "ok"
  /\ IF Effect = "filesystem" THEN RaisesInDoubt ELSE RaisesFailed

(* Focusing the window and reading its location field are actions of their *)
(* own inside the claim; whatever goes wrong there closes the claim.       *)
NestedAct ==
  /\ Polling /\ Effect = "open_location" /\ Len(rows) < MaxRows
  /\ \/ ~Open /\ RaisesFailed
     \/ /\ Open /\ rows' = Acted("verified") /\ Goes("polling")
     \/ /\ Open
        /\ RaisesWith([Acted("failed") EXCEPT ![claim].state = "failed"], taskStatus)
     \/ /\ Open
        /\ RaisesWith([Acted("in_doubt") EXCEPT ![claim].state = "failed"], "recovery_required")

(* The address verifier, the observer after a command's result and the     *)
(* frame check of the integrated terminal raise out of the poll.           *)
VerifierFails ==
  /\ Polling
  /\ \/ Effect = "open_uri"
     \/ Effect \in {"terminal", "integrated", "open_file"} /\ actor = "ok"
  /\ Raises

Uncertain ==
  \/ Effect \in {"terminal", "integrated"}
  \/ actor = "running"
  \/ Effect = "open_uri" /\ ~seen

DispatcherDeadline ==
  /\ Polling /\ Effect \notin Synchronous /\ actor = "running"
  /\ RaisesInDoubt

DeadlinePasses ==
  /\ Polling /\ Effect \notin Synchronous
  /\ IF Uncertain THEN RaisesInDoubt ELSE RaisesFailed

-----------------------------------------------------------------------------
EndStep ==
  /\ PlanRuns /\ pc = "verified"
  /\ \/ stopFlag /\ Raises
     \/ /\ ~stopFlag
        /\ results' = results \cup (IF goal = NoGoal THEN {} ELSE Achieves(goal, plan, at))
        /\ at' = at + 1 /\ pc' = "step" /\ claim' = 0 /\ actor' = "none" /\ seen' = FALSE
        /\ UNCHANGED <<goal, plan, stage, rows, left, taskStatus, stopFlag>>

Missing == Required(goal) \ results

FinishRun ==
  /\ stage = "running" /\ at = Len(plan) + 1
  /\ \/ Missing # {} /\ Raises
     \/ /\ Missing = {}
        /\ stage' = "returned"
        /\ taskStatus' = IF taskStatus = "active" /\ ~stopFlag /\ InState({"in_flight"}) = {}
                         THEN "succeeded" ELSE taskStatus
        /\ rows' = IF taskStatus' = "succeeded" THEN CancelPrepared(rows) ELSE rows
        /\ UNCHANGED <<goal, plan, results, stopFlag>> /\ UNCHANGED step

(* The owner: request_cancel signals, cancel() of the ledger finalizes. *)
RequestStop ==
  /\ taskStatus \in {"active", "recovery_required"} /\ ~stopFlag
  /\ stopFlag' = TRUE
  /\ UNCHANGED <<goal, plan, stage, rows, results, taskStatus>> /\ UNCHANGED step

FinalizeStop ==
  /\ taskStatus \in {"active", "recovery_required"} /\ stopFlag
  /\ taskStatus' = "cancelled" /\ rows' = CancelPrepared(rows)
  /\ UNCHANGED <<goal, plan, stage, results, stopFlag>> /\ UNCHANGED step

(* The process dies; the next one opens the ledger: recover_in_flight. *)
Restart ==
  /\ stage # "returned"
  /\ stage' = "returned"
  /\ taskStatus' = IF InState({"in_flight"}) # {} THEN RequiresRecovery ELSE taskStatus
  /\ rows' = [i \in DOMAIN rows |-> IF rows[i].state = "in_flight"
                                    THEN [rows[i] EXCEPT !.state = "in_doubt"] ELSE rows[i]]
  /\ UNCHANGED <<goal, plan, results, stopFlag>> /\ UNCHANGED step

PollEnds == DeadlinePasses \/ NotShown

PollStep ==
  \/ \E r \in {"ok", "failed"} : ActorExits(r)
  \/ Observe \/ HearStop \/ Exited \/ Verify \/ NestedAct \/ VerifierFails
  \/ PollEnds

RunnerStep ==
  \/ Propose \/ PlanFails \/ CompletePlan \/ ValidatePlan
  \/ BeginStep \/ Fails \/ Act \/ Prepare \/ \E b \in BOOLEAN : Claim(b)
  \/ TargetUnobservable \/ Start \/ Dispatch \/ DispatchFails
  \/ EndStep \/ FinishRun

DRNext == RunnerStep \/ PollStep \/ RequestStop \/ FinalizeStop \/ Restart

(* The runner's thread keeps running and its clock passes every deadline;   *)
(* what the desktop does while it polls is free.                            *)
DRFairness == WF_drVars(RunnerStep) /\ WF_drVars(PollEnds)

DRSpec == DRInit /\ [][DRNext]_drVars /\ DRFairness

-----------------------------------------------------------------------------
(* A plan that passed both validations holds a step for every result the   *)
(* owner's request requires: verifying its steps is enough to succeed.     *)
(* Completion, the two validations and the bookkeeping of the run are four *)
(* hand-written readings of one contract.                                  *)
AcceptedPlanCovers ==
  stage = "running" /\ goal # NoGoal =>
    Required(goal) \subseteq UNION {Achieves(goal, plan, i) : i \in DOMAIN plan}

(* A task that succeeded has every required result, a verified row for     *)
(* every effect its plan dispatches, and no effect claimed or in doubt.    *)
SuccessIsEarned ==
  taskStatus = "succeeded" =>
          /\ Missing = {}
          /\ InState({"in_flight", "in_doubt", "prepared"}) = {}
          /\ \A i \in DOMAIN plan : EffectOf(plan[i]) # "acts" =>
               \E k \in DOMAIN rows : rows[k].step = i /\ rows[k].effect = EffectOf(plan[i])
                                      /\ rows[k].state = "verified"

Started == {i \in DOMAIN rows : rows[i].started}

(* Once an effect of the task is in doubt, or the owner asked it to stop,  *)
(* no further effect is started by the run.                                *)
NothingStartsAfterDoubtOrStop ==
  [][InState({"in_doubt"}) # {} \/ stopFlag => Started' \subseteq Started]_drVars

(* The run ends: every poll has its deadline and every loop its bound. *)
RunReturns == (stage = "new") ~> (stage = "returned")

(* ADR 0044, lines 22-23: a short owner-ordered native plan advances only  *)
(* after each visible effect is verified.                                  *)
AdvancesOnVerifiedEffects ==
  taskStatus = "succeeded" =>
          \A i \in DOMAIN plan : plan[i].kind = "native_action" =>
            \A k \in DOMAIN rows : rows[k].step = i => rows[k].state = "verified"

(* The handler of the integrated terminal, terminal.py:649-656, and the    *)
(* ones around the other effects: an effect that ended by an exception is  *)
(* closed before the run returns.                                          *)
ReturnLeavesNothingClaimed == stage = "returned" => InState({"in_flight"}) = {}
=============================================================================
