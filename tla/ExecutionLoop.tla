---------------------------- MODULE ExecutionLoop ----------------------------
(***************************************************************************)
(* How one approved plan is carried out in its isolated worktree: the       *)
(* bounded loop in which the coder model chooses a tool (execution/loop.py), *)
(* the registry that authorises a tool and takes back what left the scope   *)
(* (execution/registry.py), the validation of the resulting diff with its   *)
(* cache, its repairs and its review (validation/), and the continuation    *)
(* and the decision around them (agent/code_agent.py).                      *)
(*                                                                         *)
(* The worktree is the set of edits in it.  An edit of Edits stays in the   *)
(* approved scope; "stray" is any effect outside it, and "guarded" a stray  *)
(* untracked file with a protected name (.env, *.pem), which _safe_path     *)
(* refuses to touch, so that the registry's own rollback stops at it.       *)
(* The plan has one validation command for the loop and one step in each    *)
(* phase of its validation.  A command may do anything the sandbox allows:  *)
(* pass, fail, time out, and change the worktree.                           *)
(***************************************************************************)
EXTENDS Integers, FiniteSets

CONSTANTS Edits,         \* the edits inside the approved scope
          OwnerTests,    \* those that touch a test file the owner asked for
          NewFiles,      \* those that create a planned, still untracked file
          Prints,        \* the fingerprints of validation failures
          MaxSteps, MaxMutations, MaxRepairs, MaxReplans   \* LoopLimits

ASSUME ExecutionAssumption ==
  /\ OwnerTests \subseteq Edits /\ NewFiles \subseteq Edits
  /\ {MaxMutations, MaxRepairs, MaxReplans} \subseteq Nat
  /\ MaxSteps \in Nat \ {0}

VARIABLES
  tree,        \* what the worktree holds beyond the starting commit
  loop,        \* the locals of ExecutionLoop.run and of the edit command
  events,      \* what context.events lets the loop conclude
  check,       \* the current validation: its repairs and its report
  cache,       \* validation-cache.json: <<phase, diff>> that passed
  passedOn,    \* history: the <<phase, diff>> a command really passed on
  cancelAsked  \* cancel_requested of the task

execVars == <<tree, loop, events, check, cache, passedOn, cancelAsked>>

NoEdit == "none"
Outside == {"stray", "guarded"}
Trees == SUBSET (Edits \cup Outside)
Phases == {"targeted", "required"}
Mutating == {"edit", "create_patch", "revert_current_changes"}
Tools == Mutating \cup {"read_file", "run_tests", "finish"}

FreshLoop == [pc |-> "model", round |-> 1, limit |-> MaxSteps, steps |-> 0,
              mutations |-> 0, repairs |-> 0, replans |-> 0, replanLimit |-> MaxReplans,
              tool |-> "finish", edit |-> NoEdit, before |-> {}, inspected |-> FALSE,
              failed |-> FALSE, status |-> "running", told |-> "nothing"]

FreshEvents == [edited |-> {}, passed |-> FALSE, repeats |-> 0]

FreshCheck == [attempts |-> 0, prints |-> {}, retry |-> FALSE, ok |-> FALSE, diff |-> {}]

\* A clean worktree.  The plan may have nothing to inspect, and an earlier
\* task on the same commit may have left a success in the cache (one, here).
ExecInit ==
  /\ tree = {} /\ events = FreshEvents /\ check = FreshCheck /\ cancelAsked = FALSE
  /\ \E none \in BOOLEAN : loop = [FreshLoop EXCEPT !.inspected = none]
  /\ cache \in {{}} \cup {{<<phase, diff>>} : phase \in Phases, diff \in SUBSET Edits}
  /\ passedOn = cache

-----------------------------------------------------------------------------
(* The registry's ways back                                                 *)

\* git restore takes the tracked edits; untracked files go one by one until
\* a protected name raises, so those after it stay.
AfterRollback(t) ==
  IF "guarded" \notin t THEN {{}}
  ELSE {s \in SUBSET (t \cap (NewFiles \cup Outside)) : "guarded" \in s}

RollbackRaises(t) == "guarded" \in t

\* Roll back, then apply the diff from before the rejected mutation; when git
\* does not take it, the earlier edits are gone and the summary says so.
RestoreDiff(before) == {[tree |-> before, told |-> "kept"],
                        [tree |-> {}, told |-> "discarded"]}

-----------------------------------------------------------------------------
(* What the loop does with an observation                                   *)

Continue(l) == [l EXCEPT !.pc = "model", !.tool = "finish", !.edit = NoEdit, !.before = {}]
LoopEnd(l, status) ==
  [l EXCEPT !.pc = "ended", !.status = status, !.tool = "finish", !.edit = NoEdit, !.before = {}]

CountRepair(l) ==
  LET n == [l EXCEPT !.repairs = @ + 1]
  IN IF n.repairs > MaxRepairs THEN LoopEnd(n, "max_repairs") ELSE Continue(n)

CountReplan(l) ==
  LET n == [l EXCEPT !.replans = @ + 1]
  IN LoopEnd(n, IF n.replans > l.replanLimit THEN "max_replans" ELSE "reapproval_required")

\* `scope`: a tool_error or scope_rejection whose summary has the word.
Observed(l, success, scope) ==
  IF cancelAsked THEN LoopEnd(l, "cancelled")
  ELSE IF success THEN Continue(l)
  ELSE IF scope THEN CountReplan(l)
  ELSE CountRepair(l)

OwnerTestsMissing == ~ (OwnerTests \subseteq events.edited)
CommandsMissing == ~ events.passed

-----------------------------------------------------------------------------
(* One step of the loop                                                     *)

CancelBeforeStep ==
  /\ loop.pc \in {"model", "chosen"} /\ cancelAsked
  /\ loop.pc = "model" => loop.steps < loop.limit
  /\ loop' = LoopEnd(loop, "cancelled")
  /\ UNCHANGED <<tree, events, check, cache, passedOn, cancelAsked>>

OutOfSteps ==
  /\ loop.pc = "model" /\ loop.steps = loop.limit
  /\ loop' = LoopEnd(loop, "max_steps")
  /\ UNCHANGED <<tree, events, check, cache, passedOn, cancelAsked>>

\* The model's choice, after at most one corrective retry; a second malformed
\* answer raises out of the loop.
NextRequest ==
  /\ loop.pc = "model" /\ ~ cancelAsked /\ loop.steps < loop.limit
  /\ \/ \E tool \in Tools, e \in Edits \cup {NoEdit} :
          /\ (e = NoEdit) <=> tool \notin {"edit", "create_patch"}
          /\ loop' = [loop EXCEPT !.pc = "chosen", !.steps = @ + 1, !.tool = tool, !.edit = e]
     \/ loop' = [loop EXCEPT !.pc = "raised"]
  /\ UNCHANGED <<tree, events, check, cache, passedOn, cancelAsked>>

Choosing(tools) == loop.pc = "chosen" /\ ~ cancelAsked /\ loop.tool \in tools

\* Steps that only tell the model what it must do first.
AskAgain ==
  /\ \/ Choosing({"read_file", "edit"})        \* duplicate read; test symbol needs a patch
     \/ Choosing(Mutating) /\ ~ loop.inspected
     \/ Choosing({"run_tests"}) /\ OwnerTestsMissing
     \/ Choosing({"finish"}) /\ (OwnerTestsMissing \/ CommandsMissing)
  /\ loop' = Continue(loop)
  /\ UNCHANGED <<tree, events, check, cache, passedOn, cancelAsked>>

Finish ==
  /\ Choosing({"finish"}) /\ ~ OwnerTestsMissing /\ ~ CommandsMissing
  /\ loop' = LoopEnd(loop, "complete")
  /\ UNCHANGED <<tree, events, check, cache, passedOn, cancelAsked>>

\* A read-only tool: it may complete the required inspections, or fail.
Read ==
  /\ Choosing({"read_file"})
  /\ \/ \E all \in BOOLEAN :
          loop' = Observed([loop EXCEPT !.inspected = @ \/ all], TRUE, FALSE)
     \/ loop' = Observed(loop, FALSE, FALSE)
  /\ UNCHANGED <<tree, events, check, cache, passedOn, cancelAsked>>

Mutation == Choosing(Mutating) /\ loop.inspected
Counted == [loop EXCEPT !.mutations = @ + 1, !.told = "nothing"]

MutationsSpent ==
  /\ Mutation /\ loop.mutations >= MaxMutations
  /\ loop' = LoopEnd(Counted, "max_mutations")
  /\ UNCHANGED <<tree, events, check, cache, passedOn, cancelAsked>>

\* A refused authorisation or an error of the handler: invoke rolls the whole
\* worktree back before it lets the error through.
MutationRaises ==
  /\ Mutation /\ loop.mutations < MaxMutations
  /\ tree' \in AfterRollback(tree)
  /\ \E scope \in BOOLEAN : /\ scope => ~ RollbackRaises(tree)
                            /\ loop' = Observed(Counted, FALSE, scope)
  /\ UNCHANGED <<events, check, cache, passedOn, cancelAsked>>

\* Nothing is written: the patch does not parse or fails its preflight, or
\* the candidate is not valid Python.
RejectBeforeWriting ==
  /\ Mutation /\ loop.tool = "edit" /\ loop.mutations < MaxMutations
  /\ loop' = Observed(Counted, FALSE, FALSE)
  /\ UNCHANGED <<tree, events, check, cache, passedOn, cancelAsked>>

\* What a successful mutating event lets the loop conclude.
Recorded(ev, files) ==
  [ev EXCEPT !.edited = @ \cup (files \cap OwnerTests), !.repeats = 0]

\* create_patch checks the scope of a patch and writes nothing; its event is
\* that of a mutation of the patch's files.
CreatePatch ==
  /\ Mutation /\ loop.tool = "create_patch" /\ loop.mutations < MaxMutations
  /\ events' = Recorded(events, {loop.edit})
  /\ loop' = Observed([Counted EXCEPT !.failed = FALSE], TRUE, FALSE)
  /\ UNCHANGED <<tree, check, cache, passedOn, cancelAsked>>

RevertCurrentChanges ==
  /\ Mutation /\ loop.tool = "revert_current_changes" /\ loop.mutations < MaxMutations
  /\ tree' \in AfterRollback(tree)
  /\ IF RollbackRaises(tree)
     THEN events' = events /\ loop' = Observed(Counted, FALSE, FALSE)
     ELSE /\ events' = Recorded(events, {})
          /\ loop' = Observed([Counted EXCEPT !.failed = FALSE], TRUE, FALSE)
  /\ UNCHANGED <<check, cache, passedOn, cancelAsked>>

\* The authorised edit is written, with whatever else it touches.
WriteEdit ==
  /\ Mutation /\ loop.tool = "edit" /\ loop.mutations < MaxMutations
  /\ \E extra \in {{}, {"stray"}} : tree' = tree \cup {loop.edit} \cup extra
  /\ loop' = [Counted EXCEPT !.pc = "written", !.before = tree]
  /\ UNCHANGED <<events, check, cache, passedOn, cancelAsked>>

\* The scope of the whole worktree diff after the write.  A diff outside it,
\* or a candidate the index cannot parse, goes back to the diff from before.
EnforceScope ==
  /\ loop.pc = "written"
  /\ \/ /\ tree \subseteq Edits
        /\ tree' = tree /\ events' = Recorded(events, {loop.edit})
        /\ loop' = Observed([loop EXCEPT !.failed = FALSE], TRUE, FALSE)
     \/ /\ ~ RollbackRaises(tree)
        /\ \E r \in RestoreDiff(loop.before), scope \in BOOLEAN :
             /\ tree' = r.tree
             /\ loop' = Observed([loop EXCEPT !.told = r.told], FALSE, scope)
        /\ events' = events
     \/ /\ RollbackRaises(tree)
        /\ tree' \in AfterRollback(tree)
        /\ loop' = Observed(loop, FALSE, FALSE)
        /\ events' = events
  /\ UNCHANGED <<check, cache, passedOn, cancelAsked>>

-----------------------------------------------------------------------------
(* The plan's validation command inside the loop                            *)

\* The same validator does not run again before a successful mutation.
CommandStillFails ==
  /\ Choosing({"run_tests"}) /\ ~ OwnerTestsMissing /\ loop.failed
  /\ loop' = Observed(loop, FALSE, FALSE)
  /\ UNCHANGED <<tree, events, check, cache, passedOn, cancelAsked>>

CommandRuns == Choosing({"run_tests"}) /\ ~ OwnerTestsMissing /\ ~ loop.failed

CommandFails ==
  /\ CommandRuns
  /\ loop' = Observed([loop EXCEPT !.failed = TRUE], FALSE, FALSE)
  /\ UNCHANGED <<tree, events, check, cache, passedOn, cancelAsked>>

\* A repeated success without an edit in between completes the plan once its
\* planned files exist.
CommandPasses ==
  /\ CommandRuns
  /\ LET again == events.repeats + 1
         l == [loop EXCEPT !.failed = FALSE]
     IN /\ events' = [events EXCEPT !.passed = TRUE, !.repeats = IF again > 2 THEN 2 ELSE again]
        /\ loop' = IF again >= 2 /\ NewFiles \subseteq tree
                   THEN LoopEnd(l, "complete") ELSE Observed(l, TRUE, FALSE)
  /\ UNCHANGED <<tree, check, cache, passedOn, cancelAsked>>

\* A command that changed the worktree: everything is rolled back, the earlier
\* edits too.
CommandDirties ==
  /\ CommandRuns
  /\ \E dirt \in SUBSET (Outside \ tree) :
       /\ dirt # {}
       /\ tree' \in AfterRollback(tree \cup dirt)
  /\ loop' = Observed([loop EXCEPT !.failed = TRUE], FALSE, FALSE)
  /\ UNCHANGED <<events, check, cache, passedOn, cancelAsked>>

LoopStep ==
  \/ CancelBeforeStep \/ OutOfSteps \/ NextRequest \/ AskAgain \/ Finish \/ Read
  \/ MutationsSpent \/ MutationRaises \/ RejectBeforeWriting \/ CreatePatch
  \/ RevertCurrentChanges \/ WriteEdit \/ EnforceScope
  \/ CommandStillFails \/ CommandFails \/ CommandPasses \/ CommandDirties

-----------------------------------------------------------------------------
(* Validation of the diff                                                   *)

\* A cancelled run is not validated.
StartValidation ==
  /\ loop.pc = "ended"
  /\ check' = FreshCheck
  /\ loop' = [loop EXCEPT !.pc = IF loop.status = "cancelled" \/ cancelAsked
                                 THEN "decide" ELSE "targeted"]
  /\ UNCHANGED <<tree, events, cache, passedOn, cancelAsked>>

\* The mutants' form: the key leaves the diff out.
CacheHoldsAnyDiff(phase, diff) == \E d \in Trees : <<phase, d>> \in cache

\* The cache answers for this phase's command, commit, diff and configuration.
CacheHolds(phase, diff) == <<phase, diff>> \in cache

AfterSuccess(phase) == IF phase = "targeted" THEN "required" ELSE "review"

\* A failed targeted step is repaired while attempts are left; anything else
\* is the verdict.
AfterFailure(phase) ==
  IF phase = "targeted" /\ check.attempts < MaxRepairs THEN "repair" ELSE "decide"

StepCached(phase) ==
  /\ loop.pc = phase /\ CacheHolds(phase, tree)
  /\ loop' = [loop EXCEPT !.pc = AfterSuccess(phase)]
  /\ UNCHANGED <<tree, events, check, cache, passedOn, cancelAsked>>

\* Only a success on an unchanged worktree is a success, and is cached.
StepPasses(phase) ==
  /\ loop.pc = phase /\ ~ CacheHolds(phase, tree)
  /\ cache' = cache \cup {<<phase, tree>>}
  /\ passedOn' = passedOn \cup {<<phase, tree>>}
  /\ loop' = [loop EXCEPT !.pc = AfterSuccess(phase)]
  /\ UNCHANGED <<tree, events, check, cancelAsked>>

\* A failure, a timeout, or a command that changed the worktree: the snapshot
\* from before the command is put back exactly, or the validation raises.  A
\* tool that is not installed is no failure to repair.
StepFails(phase) ==
  /\ loop.pc = phase /\ ~ CacheHolds(phase, tree)
  /\ \/ loop' = [loop EXCEPT !.pc = AfterFailure(phase)] /\ tree' = tree
     \/ loop' = [loop EXCEPT !.pc = "decide"] /\ tree' = tree
     \/ \E dirt \in SUBSET (Outside \ tree) :
          /\ dirt # {} /\ tree' = tree \cup dirt
          /\ loop' = [loop EXCEPT !.pc = "raised"]
  /\ UNCHANGED <<events, check, cache, passedOn, cancelAsked>>

\* BoundedRepairEngine.propose stops: the failure is of no repairable kind or
\* was seen, or the model's patch is malformed, out of scope or a shortcut.
RepairStops ==
  /\ loop.pc = "repair"
  /\ \E p \in Prints : check' = [check EXCEPT !.prints = @ \cup {p}]
  /\ loop' = [loop EXCEPT !.pc = "decide"]
  /\ UNCHANGED <<tree, events, cache, passedOn, cancelAsked>>

Proposed(p) == [check EXCEPT !.attempts = @ + 1, !.prints = @ \cup {p}, !.retry = FALSE]

CanPropose(p) == p \notin check.prints /\ check.attempts < MaxRepairs

\* The accepted patch goes through apply_patch of the registry: applied, then
\* the targeted steps run again.
RepairApplied ==
  /\ loop.pc = "repair"
  /\ \E p \in Prints, e \in Edits :
       /\ CanPropose(p)
       /\ check' = Proposed(p)
       /\ tree' = tree \cup {e} /\ tree' \subseteq Edits
       /\ events' = Recorded(events, {e})
  /\ loop' = [loop EXCEPT !.pc = "targeted"]
  /\ UNCHANGED <<cache, passedOn, cancelAsked>>

\* Its preflight fails: one more proposal from the rejected patch, if an
\* attempt is left; a second failure stops.
RepairNotApplied ==
  /\ loop.pc = "repair"
  /\ \E p \in Prints : CanPropose(p) /\ check' = [Proposed(p) EXCEPT !.retry = ~ check.retry]
  /\ loop' = [loop EXCEPT !.pc = IF ~ check.retry /\ check.attempts + 1 < MaxRepairs
                                 THEN "repair" ELSE "decide"]
  /\ UNCHANGED <<tree, events, cache, passedOn, cancelAsked>>

\* The registry refuses it, or finds the worktree out of scope after it.
RepairRejected ==
  /\ loop.pc = "repair"
  /\ \E p \in Prints : CanPropose(p) /\ check' = Proposed(p)
  /\ \/ tree' \in AfterRollback(tree)
     \/ ~ RollbackRaises(tree) /\ \E r \in RestoreDiff(tree) : tree' = r.tree
  /\ loop' = [loop EXCEPT !.pc = "decide"]
  /\ UNCHANGED <<events, cache, passedOn, cancelAsked>>

\* deterministic_review blocks on every change outside the approved plan.
ScopeReviewed(diff) == diff \subseteq Edits

\* The deterministic review and the reviewer's findings, then decide_final.
Review ==
  /\ loop.pc = "review"
  /\ \E blocked \in BOOLEAN :
       check' = [check EXCEPT !.ok = ScopeReviewed(tree) /\ ~ blocked, !.diff = tree]
  /\ loop' = [loop EXCEPT !.pc = "decide"]
  /\ UNCHANGED <<tree, events, cache, passedOn, cancelAsked>>

ValidationStep ==
  \/ StartValidation \/ Review
  \/ \E phase \in Phases : StepCached(phase) \/ StepPasses(phase) \/ StepFails(phase)
  \/ RepairStops \/ RepairApplied \/ RepairNotApplied \/ RepairRejected

-----------------------------------------------------------------------------
(* The edit command around them                                             *)

Larger(a, b) == IF a > b THEN a ELSE b

\* One continuation of a loop that ran out of its bounds: the steps and
\* replans left over, and a fresh count of mutations and repairs.
MayContinue ==
  /\ loop.round = 1 /\ ~ cancelAsked
  /\ check.ok \/ OwnerTestsMissing
  /\ loop.status \in {"max_repairs", "max_steps", "max_mutations"}

ContinuePlan ==
  /\ loop.pc = "decide" /\ MayContinue
  /\ loop' = [FreshLoop EXCEPT !.round = 2, !.inspected = loop.inspected,
                               !.limit = Larger(1, MaxSteps - loop.steps),
                               !.replanLimit = Larger(0, MaxReplans - loop.replans)]
  /\ UNCHANGED <<tree, events, check, cache, passedOn, cancelAsked>>

\* Success is a complete loop, a passing report and no cancellation; the
\* commit is of the diff whose hash was reviewed.  Anything else rolls back.
Decide ==
  /\ loop.pc = "decide" /\ ~ MayContinue
  /\ loop' = [loop EXCEPT !.pc =
                IF loop.status = "complete" /\ check.ok /\ ~ cancelAsked /\ check.diff = tree
                THEN "committed" ELSE "rolled_back"]
  /\ UNCHANGED <<tree, events, check, cache, passedOn, cancelAsked>>

\* The owner asks to cancel, at any time.
AskCancel ==
  /\ ~ cancelAsked /\ cancelAsked' = TRUE
  /\ UNCHANGED <<tree, loop, events, check, cache, passedOn>>

Settled == {"committed", "rolled_back", "raised"}

ExecNext ==
  LoopStep \/ ValidationStep \/ ContinuePlan \/ Decide \/ AskCancel

ExecWork == LoopStep \/ ValidationStep \/ ContinuePlan \/ Decide
ExecSpec == ExecInit /\ [][ExecNext]_execVars /\ WF_execVars(ExecWork)

-----------------------------------------------------------------------------
ExecTypeOK ==
  /\ tree \in Trees /\ cache \subseteq Phases \X Trees /\ passedOn \subseteq Phases \X Trees
  /\ loop.steps \in 0..loop.limit /\ loop.mutations \in 0..MaxMutations + 1
  /\ loop.repairs \in 0..MaxRepairs + 1 /\ loop.edit \in Edits \cup {NoEdit}
  /\ check.attempts \in 0..MaxRepairs /\ check.prints \subseteq Prints

\* A validation that passes is one of the worktree as it is: every phase's
\* command passed on exactly this diff, in this run or in the one the cache
\* remembers, whatever repairs, rollbacks and commands came in between.
PassIsOfTheTree ==
  loop.pc = "decide" /\ check.ok =>
    /\ check.diff = tree
    /\ \A phase \in Phases : <<phase, tree>> \in passedOn

\* What is committed stays in the approved scope, although a protected file
\* stops the registry's rollback and a command may leave anything behind.
CommitStaysInScope == loop.pc = "committed" => tree \subseteq Edits

\* A rejected edit that reports the earlier approved edits preserved did not
\* take any of them away.
RejectionKeepsEdits ==
  [][loop.pc = "written" /\ loop'.pc # "written" /\ loop'.told = "kept"
       => loop.before \subseteq tree']_execVars
=============================================================================
