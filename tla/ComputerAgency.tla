--------------------------- MODULE ComputerAgency ---------------------------
(***************************************************************************)
(* The processes that use the ledger: ComputerAgencyRunner.run and resume  *)
(* (desktop/runner.py) drive ComputerAgencyController.act                  *)
(* (desktop/agency.py), which prepares, claims and starts one action,      *)
(* performs it on the desktop and records what it then sees; other threads *)
(* stop or read tasks; a process may die anywhere and a new one recovers.  *)
(*                                                                         *)
(* execution_guard is an RLock with a flock under it, held over a whole    *)
(* run, so it has one owner: a thread.  Cancel, recovery and reconcile     *)
(* wait for it; the durable stop intent does not.                          *)
(*                                                                         *)
(* Abstracted: what the plan is, how targets are found and verified (any   *)
(* of these may raise), the portal and the qualification gate.             *)
(***************************************************************************)
EXTENDS ComputerAgencyLedger

CONSTANTS
  Procs,    \* processes that open the database, now or after a restart
  ProcOf,   \* the process of each caller (thread)
  Runners   \* the callers that run tasks; the others stop and read them

ASSUME AgencyAssumption ==
  /\ Runners \subseteq Callers
  /\ ProcOf \in [Callers -> Procs]
  /\ None \notin Callers

VARIABLES
  up,       \* processes that are alive, past their ledger's constructor
  guard,    \* the thread that holds execution_guard, None when free
  run,      \* what each runner is doing, for which task, on which row
  effects,  \* history: how often the row's physical effect happened
  late      \* history: effects of a task after its stop or its end

avars == <<tasks, actions, clars, calls, up, guard, run, effects, late>>

RunPcs == {"idle", "entered", "resuming", "step", "acting", "bound", "claimed",
           "started", "acted", "failing", "settling", "leaving"}
Run == [pc : RunPcs, task : Tasks \cup {None}, row : Nat]
IdleRun == [pc |-> "idle", task |-> None, row |-> 0]

AgencyTypeOK ==
  /\ up \subseteq Procs
  /\ guard \in Callers \cup {None}
  /\ run \in [Runners -> Run]
  /\ effects \in [Tasks -> [1..MaxActions -> Nat]]
  /\ late \in [Tasks -> Nat]

AgencyInit ==
  /\ Init
  /\ up = {} /\ guard = None
  /\ run = [r \in Runners |-> IdleRun]
  /\ effects = [t \in Tasks |-> [i \in 1..MaxActions |-> 0]]
  /\ late = [t \in Tasks |-> 0]

Stopped(t) == tasks[t].cancel \/ tasks[t].state \notin Pending
Live(t) == tasks[t].state = "active"

-----------------------------------------------------------------------------
(* run and resume: the guard is held from entry to exit.                    *)

At(r, pc) == run[r].pc = pc /\ Idle(r)

Goto(r, pc) == run' = [run EXCEPT ![r].pc = pc]
\* Faulty: leaves without releasing the guard.
LeaveLocked(r) == run' = [run EXCEPT ![r] = IdleRun] /\ UNCHANGED guard
Leave(r) == run' = [run EXCEPT ![r] = IdleRun] /\ guard' = None
Unharmed == UNCHANGED <<up, effects, late>>

\* An exception: the handler of the run reads the task, then settles it.
Fail(r) == Goto(r, "failing")

Enter(r, t, pc) ==
  /\ ProcOf[r] \in up
  /\ run[r].pc = "idle" /\ guard = None
  /\ guard' = r
  /\ run' = [run EXCEPT ![r] = [pc |-> pc, task |-> t, row |-> 0]]
  /\ CallTask(r, t)
  /\ Unharmed

StartRun(r) ==
  LET t == run[r].task IN
  /\ At(r, "entered")
  /\ \/ /\ ~Live(t)
        /\ Leave(r)
        /\ UNCHANGED vars
     \/ /\ Live(t) /\ tasks[t].cancel        \* return self.ledger.cancel(task_id)
        /\ Cancel(r, t)
        /\ Goto(r, "leaving") /\ UNCHANGED guard
     \/ /\ Live(t) /\ ~tasks[t].cancel
        /\ \/ Goto(r, "step") /\ UNCHANGED guard
           \/ Leave(r)                       \* the portal has no permission
        /\ UNCHANGED vars
  /\ Unharmed

ResumeRun(r) ==
  LET t == run[r].task IN
  /\ At(r, "resuming")
  /\ \/ /\ \E i \in DOMAIN actions[t], b \in BOOLEAN : ResumeNativePlan(t, i, b)
        /\ Goto(r, "step") /\ UNCHANGED guard
     \/ Leave(r) /\ UNCHANGED vars
  /\ Unharmed

(* _before_plan_step and _act check for a stop; act reads the task again. *)
NextStep(r) ==
  LET t == run[r].task IN
  /\ At(r, "step")
  /\ \/ Live(t) /\ ~tasks[t].cancel /\ CallTask(r, t) /\ Goto(r, "acting")
     \/ UNCHANGED vars /\ Fail(r)            \* stopped, or no target is found
  /\ UNCHANGED guard
  /\ Unharmed

(* The plan is done: complete, unless voice playback will (defer).  A      *)
(* refused complete leaves the task as it is.                              *)
FinishRun(r) ==
  LET t == run[r].task IN
  /\ At(r, "step")
  /\ Leave(r)
  /\ Complete(t, TRUE) \/ UNCHANGED vars
  /\ Unharmed

ReadFailed(r) ==
  /\ At(r, "failing")
  /\ CallTask(r, run[r].task)
  /\ Goto(r, "settling")
  /\ UNCHANGED guard
  /\ Unharmed

FailRun(r) ==
  LET t == run[r].task IN
  /\ At(r, "settling")
  /\ Leave(r)
  /\ \/ Complete(t, FALSE)
     \/ /\ \/ ~Live(t) \/ tasks[t].cancel \/ InState(t, {"in_flight"}) # {}
           \/ CanAwaitClarification(t)       \* an ambiguous target, to be asked about
        /\ UNCHANGED vars
  /\ Unharmed

LeaveRun(r) ==
  /\ At(r, "leaving")
  /\ Leave(r)
  /\ UNCHANGED vars /\ Unharmed

-----------------------------------------------------------------------------
(* act: one action bound to what was observed.                             *)

PrepareRow(r) ==
  LET t == run[r].task IN
  /\ At(r, "acting")
  /\ \/ /\ Live(t)
        /\ \E spec \in ActionSpecs : Prepare(t, spec)
        /\ run' = [run EXCEPT ![r].pc = "bound", ![r].row = Len(actions[t]) + 1]
     \/ Fail(r) /\ UNCHANGED vars      \* the policy, the target or the ledger refuses
  /\ UNCHANGED guard
  /\ Unharmed

ClaimRow(r) ==
  LET t == run[r].task
      i == run[r].row
  IN
  /\ At(r, "bound")
  /\ \/ Claim(t, i, FALSE) /\ Goto(r, "claimed")
     \/ Claim(t, i, TRUE) /\ Fail(r)
     \/ Fail(r) /\ UNCHANGED vars
  /\ UNCHANGED guard
  /\ Unharmed

StartRow(r) ==
  LET t == run[r].task
      i == run[r].row
  IN
  /\ At(r, "claimed")
  /\ IF Live(t) /\ ~tasks[t].cancel
     THEN MarkExecutionStarted(t, i) /\ Goto(r, "started")
     ELSE MarkInDoubt(t, i) /\ Fail(r)
  /\ UNCHANGED guard
  /\ Unharmed

(* The pointer kinds look again and may find the target moved or the task  *)
(* stopped: nothing happened.  Any other failure leaves the row in doubt.  *)
Refrain(r) ==
  LET t == run[r].task
      i == run[r].row
  IN
  /\ At(r, "started")
  /\ Finish(t, i, FALSE, "none") \/ MarkInDoubt(t, i)
  /\ Fail(r)
  /\ UNCHANGED guard
  /\ Unharmed

PhysicalEffect(r) ==
  LET t == run[r].task
      i == run[r].row
  IN
  /\ At(r, "started")
  /\ effects' = [effects EXCEPT ![t][i] = @ + 1]
  /\ late' = [late EXCEPT ![t] = IF Stopped(t) THEN @ + 1 ELSE @]
  /\ Goto(r, "acted")
  /\ UNCHANGED <<vars, up, guard>>

\* Faulty: performs the action again when its result is not seen.
VerifyOrRepeat(r) ==
  LET t == run[r].task
      i == run[r].row
  IN
  /\ At(r, "acted")
  /\ \/ (\E v \in Verifications : Finish(t, i, TRUE, v)) /\ Goto(r, "step")
     \/ Goto(r, "started") /\ UNCHANGED vars
  /\ UNCHANGED guard
  /\ Unharmed

Verify(r) ==
  LET t == run[r].task
      i == run[r].row
  IN
  /\ At(r, "acted")
  /\ \/ (\E v \in Verifications : Finish(t, i, TRUE, v)) /\ Goto(r, "step")
     \/ (Finish(t, i, FALSE, "none") \/ MarkInDoubt(t, i)) /\ Fail(r)
  /\ UNCHANGED guard
  /\ Unharmed

-----------------------------------------------------------------------------
(* The other threads.  Only the final transaction of a cancel needs the    *)
(* guard, which the runner that cancels its own task already holds.        *)

Free(c) == guard \in {None, c}

Continue(c) ==
  /\ ReadTask(c) \/ ExpireTask(c) \/ ReadClarification(c) \/ ExpireClarification(c)
     \/ WithdrawInCancel(c) \/ RequestCancel(c) \/ (Free(c) /\ FinalizeCancel(c))
     \/ StopReturns(c)
  /\ UNCHANGED <<up, guard, run, effects, late>>

Request(c) ==
  /\ ProcOf[c] \in up /\ c \notin Runners
  /\ \/ StopAll(c)
     \/ \E t \in Tasks : \/ CallTask(c, t) \/ Cancel(c, t)
                       \/ \E k \in DOMAIN clars[t] : ResumeClarification(c, t, k)
  /\ UNCHANGED <<up, guard, run, effects, late>>

OwnerStep(t) ==
  /\ up # {}
  /\ \/ Create(t) \/ SignalCancel(t)
     \/ AwaitClarification(t) \/ CancelClarification(t)
     \/ \E k \in DOMAIN clars[t], b \in BOOLEAN : RecordClarificationDelivery(t, k, b)
     \/ guard = None /\ \E i \in DOMAIN actions[t], b \in BOOLEAN : Reconcile(t, i, b)
     \/ \E b \in BOOLEAN : Complete(t, b)     \* the voice playback that was deferred
  /\ UNCHANGED <<up, guard, run, effects, late>>

Passes(t) ==
  /\ TaskAges(t) \/ \E k \in DOMAIN clars[t] : ClarificationLapses(t, k)
  /\ UNCHANGED <<up, guard, run, effects, late>>

-----------------------------------------------------------------------------
(* Processes: the kernel drops the flock of a dead one; the constructor of *)
(* the next waits for it, then puts what was in flight in doubt.           *)

Threads(p) == {c \in Callers : ProcOf[c] = p}

Crash(p) ==
  /\ p \in up
  /\ up' = up \ {p}
  /\ guard' = IF guard \in Threads(p) THEN None ELSE guard
  /\ run' = [r \in Runners |-> IF r \in Threads(p) THEN IdleRun ELSE run[r]]
  /\ calls' = [c \in Callers |-> IF c \in Threads(p) THEN IdleCall ELSE calls[c]]
  /\ UNCHANGED <<tasks, actions, clars, effects, late>>

Start(p) ==
  /\ p \notin up
  /\ guard = None
  /\ up' = up \cup {p}
  /\ IF \E t \in Tasks : InState(t, {"in_flight"}) # {}
     THEN RecoverInFlight ELSE UNCHANGED vars
  /\ UNCHANGED <<guard, run, effects, late>>

-----------------------------------------------------------------------------
RunnerStep(r) ==
  \/ StartRun(r) \/ ResumeRun(r) \/ NextStep(r) \/ FinishRun(r) \/ ReadFailed(r) \/ FailRun(r)
  \/ LeaveRun(r) \/ PrepareRow(r) \/ ClaimRow(r) \/ StartRow(r) \/ Refrain(r)
  \/ PhysicalEffect(r) \/ Verify(r)

AgencyNext ==
  \/ \E r \in Runners, t \in Tasks : Enter(r, t, "entered") \/ Enter(r, t, "resuming")
  \/ \E r \in Runners : RunnerStep(r)
  \/ \E c \in Callers : Continue(c) \/ Request(c)
  \/ \E t \in Tasks : OwnerStep(t) \/ Passes(t)
  \/ \E p \in Procs : Crash(p) \/ Start(p)

AgencySpec == AgencyInit /\ [][AgencyNext]_avars

\* Threads that are not blocked run; the flock is granted to a waiter that
\* finds it free again and again.
FairAgencySpec ==
  /\ AgencySpec
  /\ \A r \in Runners : WF_avars(RunnerStep(r))
  /\ \A c \in Callers : SF_avars(Continue(c))

-----------------------------------------------------------------------------
\* The guard keeps everyone off the row of an action that is under way:
\* recovery, reconcile, cancel and expiry never rewrite it under the actor.
LiveActionKeepsItsClaim ==
  \A r \in Runners : run[r].pc \in {"claimed", "started", "acted"} =>
    /\ guard = r
    /\ actions[run[r].task][run[r].row].state = "in_flight"
    /\ (run[r].pc # "claimed") = actions[run[r].task][run[r].row].started

\* The physical effect of an action happens at most once, whatever crashes,
\* resumes and stops come between, and only past the durable boundary.
EffectAtMostOnce ==
  \A t \in Tasks : \A i \in 1..MaxActions :
    /\ effects[t][i] <= 1
    /\ effects[t][i] = 1 => i \in DOMAIN actions[t] /\ actions[t][i].started

\* An effect is on record: its row says verified, failed, or that its
\* outcome is not known, and is never declared not executed.
NoEffectIsDenied ==
  \A t \in Tasks : \A i \in DOMAIN actions[t] :
    effects[t][i] = 1 => actions[t][i].state \notin
      {"prepared", "stale", "not_executed", "cancelled", "expired"}

Sum(f) == LET s[n \in 0..MaxActions] == IF n = 0 THEN 0 ELSE s[n - 1] + f[n]
          IN s[MaxActions]

\* What the owner sees of a task (see ComputerTaskContract).
Phase(t) == CASE tasks[t].state = "absent" -> "none"
              [] tasks[t].state \in Pending /\ ~tasks[t].cancel -> "open"
              [] tasks[t].state \in Pending /\ tasks[t].cancel -> "stopping"
              [] OTHER -> "over"

Owner == INSTANCE ComputerTaskContract WITH
  phase   <- [t \in Tasks |-> Phase(t)],
  effects <- [t \in Tasks |-> Sum(effects[t])]

\* The agency implements the contract: within budget, at most one late
\* effect after a stop or the end, and a task that is over stays over.
ImplementsContract == Owner!Contract

\* A cancel that waits for the run to leave the guard is not left waiting.
CancelIsNotStarved ==
  \A c \in Callers : calls[c].pc = "finalize_cancel" ~> calls[c].pc # "finalize_cancel"
=============================================================================
