# A verification development of Local-AI-Assistant

The repository is a local, owner-private assistant: a FastAPI service with a
web client and a wake-word voice pipeline, a desktop agency that acts on a
GNOME session, and an engineering side that plans, executes, isolates,
validates and publishes changes to repositories.  This directory models the
parts whose correctness depends on order (of threads, processes, owner turns,
crashes and restarts) and checks them with TLC; what matters most is proved
with TLAPS for every value of the constants.

Paths below are relative to `src/local_ai_assistant/` of the repository.

## 1. Inventory

### 1.1 Desktop agency

| part | state | operations | hard behaviour |
|---|---|---|---|
| `desktop/agency_ledger.py` | SQLite: `computer_tasks`, `computer_actions`, `computer_clarifications` | create, task, prepare, claim, mark_execution_started, finish, mark_in_doubt, reconcile, resume_native_plan, await/resume/cancel_clarification, request_cancel, cancel, complete, recovery in the constructor | operations of several transactions (`task`, `cancel`, stop-all) interleave with those of other threads; crash between claim, start, effect and record |
| `desktop/agency.py` | none of its own | observe, act, reconcile, cancel, stop_all | one physical effect between two durable writes; result observed late or never |
| `desktop/runner.py` | run metrics, result summaries | run, resume, request_cancel | holds `execution_guard` over a whole plan while stops arrive |
| `desktop/qualification_gate.py` | a gate file, shared by processes | arm, consume, close | one use, stale reads |
| `desktop/terminal.py` | one running command | start, read, cancel | output racing exit and cancellation |
| `desktop/portal_client.py`, `portal_worker.py` | one D-Bus session | open, input, close | worker death |
| observation, targets, filesystem, planner | none | pure reads and parsing | not stateful |

### 1.2 Interface and voice

| part | state | operations | hard behaviour |
|---|---|---|---|
| `interface/voice_actions.py` | tasks of the running turn, pending clarification, last results | handle, execute, playback result, stop | owner turns arrive while a task runs or is asked about |
| `voice/wake_capture.py`, `wake_runtime.py`, `wake_orchestrator.py`, `interface/wake_bootstrap.py` | capture, activation and conversation phase | start, wake, capture, submit, follow up, stop | audio thread, supervisor and event loop |
| `voice/barge_in.py`, `piper_runtime.py`, `pocket_runtime.py`, `speech_queue.py` | playback, worker process | speak, cancel, recycle | cancellation racing completion |
| `interface/voice_conversation.py`, `conversation.py`, `voice_learning.py` | the turn under way | submit, stream, cancel | one turn at a time |
| `interface/events.py`, `session.py`, `runtime.py` | replay buffer, subscribers, owner session | publish, subscribe, replay | slow and reconnecting subscribers |
| `interface/task_recovery.py`, `local_owner.py` | interrupted tasks, owner key | list, resume, dismiss | stale choice |

### 1.3 Engineering

| part | state | operations | hard behaviour |
|---|---|---|---|
| `execution/` | tool records, budgets | register, authorize, run, record | retries, limits |
| `isolation/` | worktrees, checkpoints, journals, locks | create, checkpoint, promote, roll back, recover | crash between two git steps |
| `gateway/` | approvals, publications | approve, execute, publish, recover | lost or repeated remote calls |
| `planning/`, `validation/`, `history/` | plans, results, append-only records | approve, validate, repair, record | stale approvals, bounded repair |

### 1.4 Learning and personal services

`learning_paths/`, `career_forge/`, `projects/`, `memory/`, `proactive/`,
`autonomy/`: each a SQLite store with guarded state changes (confirm,
supersede, expire, complete) behind handlers of several transactions.
`rag/documents.py` and `code_index/`: files on disk that an indexer rewrites
while a service reads them.  `onboarding.py`: a registry file that every
process reads once and writes back whole.  `roles/`, `admin/`: single
transactions.

### 1.5 Qualification

`scripts/qualification/` (paths from the repository's root): the operators' Stage
32 session takes the microphone from the production voice service, hands it to
a candidate and gives it back.  Orchestrator, control server, resource guard,
timer and restore services share files and systemd units only; each may die at
any point.

### 1.6 How they interact

One process is the production system: `interface/cli.py` builds a single
`ComputerAgencyLedger`, one runner and the voice service, and the API routes
of `interface/api.py` use the same objects from a thread pool.  Qualification
scripts may open the same database from a second process, so the ledger's
`execution_guard` is an `RLock` within the process and a `flock` between
processes.  A stop is durable as soon as `request_cancel` commits; it never
waits for the guard.  Only the transaction that finalizes a cancel does.

## 2. Plan

The order was that of the harm a wrong order does, and it is carried out:

1. the desktop agency: `ComputerAgencyLedger`, `ComputerAgency` (which extends
   it and implements `ComputerTaskContract`), then `GoalPlan` and
   `DesktopRunner`, from the owner's words to the end of a run;
2. the engineering side: `TaskRollback`, `TaskLifecycle`, then
   `RepositoryAdmission`, `ExecutionLoop`, `PatchScope`, `GitTransaction`,
   `Publication`, the stages of one task;
3. the voice: `WakeMicrophone`, `WakeDetector`, `VoiceTurn`, `PiperSynthesis`,
   `VoiceComputerActions`;
4. the owner's learning: `CareerAssessment`, `CareerMastery`,
   `CareerPublication`, `LearningPath`, `VoiceLearning`;
5. the owner's stores: `DocumentIndex`, `CodeIndex`, `OwnerProjects`,
   `OwnerMemory`, `Objectives`, `ProactiveEvents`;
6. qualification: `QualificationSession`, `PhysicalGates`.

Modules that share state extend one another.  Modules that hand on one value
(a plan, a diff, a commit, a verdict) stay apart, and the MC module of their
group runs them on one instance: its variable `part` chooses which of them a
behaviour is about and the others rest in their initial state, so that one run
asks the questions of a group without the product of independent state
spaces.

What is left: the properties that the provers cannot reach (section 5.3) and the
parts listed in section 6.

## 3. The modules

### 3.1 `ComputerAgencyLedger` (desktop/agency_ledger.py)

State: `tasks` (the columns `state`, `cancel_requested`, `action_count` and
whether the 30 minutes of validity are over), `actions` and `clars` (rows in
the order they were inserted) and `calls`, what each calling thread has read
and has left to do.  A method that is one `BEGIN IMMEDIATE` transaction is one
action.  Three are not and run statement by statement: `task()` selects in
autocommit and updates what it saw (`ReadTask`, `ExpireTask`,
`ReadClarification`, `ExpireClarification`); `cancel()` reads, commits the
stop intent and finalizes under the guard (`Cancel` ... `FinalizeCancel`);
stop-all commits every intent and then finalizes (`StopAll`,
`CancelActiveTasks`, `FinalizeStop`).

Whether the desktop changed since an observation, whether a recovered result
is still visible and what verification found are free choices.  Timestamps
become flags that time sets once (`aged`, `lapsed`).

`MaxActions` and `MaxClarifications` bound the rows of a task; nothing else in
the module is bounded.

Properties of the run: `UncertaintyIsVisible` (an effect of unknown outcome
holds its task), `NotExecutedMeansNotStarted` (recovery never denies an action
that may have run), `NoReplay` (a row moves along one life and only evidence
settles an uncertain one), `StopIsBinding` (after a stop nothing is claimed or
started, and the stop is never withdrawn), `OutcomeIsNotRevised`.

The bounds suffice for what the properties tell apart: two action rows are one
whose outcome is unknown and one that precedes or follows it (and one verified
location read with its dismissal); one question is asked, answered or
dismissed; two callers are one between the statements of the other.  The
proofs of section 5 have no such bounds.

The module also shows that `task()`, which reads the task and its open question
in two statements, expires a task whose question is answered in between
although no time has run out (`ExpireClarification`).

### 3.2 `ComputerAgency` (desktop/agency.py, desktop/runner.py)

Extends the ledger with processes (`up`), the owner of `execution_guard`
(`guard`), the program counter of each run (`run`) and two history variables:
how often the effect of a row happened (`effects`) and how many effects of a
task followed its stop or end (`late`).  `Enter` takes the guard as
`ledger.execution_guard()` does; `PrepareRow`, `ClaimRow`, `StartRow`,
`PhysicalEffect`, `Refrain` and `Verify` are the phases of
`ComputerAgencyController.act`, each able to raise.  A crash releases the
guard (the kernel drops a `flock`), forgets the threads and leaves the rows;
`Start` is the constructor of the next ledger with its recovery.

`ImplementsContract` is the refinement of `ComputerTaskContract`: an owner task
is open, may have effects up to its budget, at most one more after it was
stopped (the action that had passed the durable start boundary), ends once and
stays ended.

Fairness: weak for the steps of a running thread, strong for a call that may
wait for the guard (`Continue`).  The guard is an `RLock` and a `flock`;
neither promises order, but a waiter that finds it free again and again gets
it, and a run always ends.  `CancelIsNotStarved` needs no more.

Two processes and two runners are what the guard keeps apart; the third caller
is the owner's stop.

### 3.3 `GoalPlan` and `DesktopRunner` (desktop/goal_planner.py, runner.py, terminal.py)

`GoalPlan` has no state.  It says what contract the owner's words make (the
results that are required, `Required`), what steps the local model may propose
(`RawSteps`), how the runner completes a proposal and when the two validations
accept the result.  Words are abstracted to the fields of the contract, an
operand to a member of a small set with one value the owner never named.

`DesktopRunner` runs one task along its plan: `Propose`, `CompletePlan`,
`ValidatePlan`, then for every step the observation, `Prepare`, `Claim`,
`Start`, `Dispatch` and a poll that ends with a verified effect, a failure, a
stop or its deadline; `FinishRun` judges the required results.  The ledger's
rows, the state of the task and its stop flag are durable; `Restart` loses the
rest.  What a screen shows is a free choice.  Bounds: 2 proposed steps, 2
required results, completed plans of at most 3 steps (8 in the code), 6 rows.

`SuccessIsEarned`: a task that succeeded has every required result, a verified
row for every effect its plan dispatches and nothing claimed or in doubt.
`NothingStartsAfterDoubtOrStop`: after an effect of unknown outcome, or the
owner's stop, the run starts no further effect.

### 3.4 The voice pipeline (voice/, interface/wake_bootstrap.py, voice_conversation.py, voice_actions.py)

Five modules, one step per lock acquisition or per access to what threads
share; `MCVoice` runs them on one instance.

`WakeMicrophone`: who holds the raw microphone.  State: the pause and stop
events, the generation of the open stream, what the segmenter holds, the
interaction lease, the program counters of the capture loop, the voice
session, a presentation request and `close()`.  Audio is the generation of
the stream it was read from.

`WakeDetector`: the cascade of two detectors, each a resident worker process
behind pipes.  Answers carry no request identifiers; noise in the pipe may
leave a message in the reader's buffer, unseen by `select`.  A worker may die,
be late, or be released at any step.

`VoiceTurn`: one session with its turns.  Session thread, speech worker of each
turn, monitor of the whole turn, monitor of a playback; the runtime's
transition table, the two cancellation flags, the bounded sentence queue and
the player.  Every call to the model, the microphone or the player may raise.

`PiperSynthesis`: the client of the speech worker: requests in one pipe,
acknowledgements, audio and ends in the other through a reader thread and a
bounded queue; time-outs, abandoned sentences, recycling, close.

`VoiceComputerActions`: the owner's turn over a computer task: create, arm the
Stop listener, acknowledge, run, speak a result or a question, and record it when
the turn's voice was joined.  The words count as handed over (`completed`,
voice_conversation.py:848) one step before that; the playback that follows may
end, be interrupted by the owner or fail, and only a failure is told to the
ledger as one.  `cancel_active` is two steps, the read under the lock and the
write after it.  What the runner did is a free choice of its outcomes.

Properties: `VerdictIsOfTheUtterance` (no answer is taken for a later
utterance's), `SilentAfterTurn` (a turn that returns has silenced its voice and
monitor first), `ChannelIsClean` (no request leaves frames behind for the
next), `OnlyTheSaidIsRecorded` (what the ledger says was said was handed to
the voice whole, and no playback of it failed), `TurnsGiveBackTheMicrophone`
(`MicrophoneReturns` of the microphone and `ActionTurnEnds` of the actions: the
wake capture gets the microphone back from session, presentation and task, and a
turn about a task ends).  That a result was heard to its end before its task
succeeds, `SuccessIsHeardToTheEnd`, the architecture promises and the code does not
keep (section 4).

Fairness: weak for `CaptureStep`, `SessionStep`, `PresentationStep`,
`CloseStep`, `TurnStep` and for a Stop that was begun.  Each is an operating
system thread that is not suspended: its waits have time limits in the code, or
are for a lock whose holder is itself such a thread.  What the owner does
(speaking, asking for a presentation, closing) has no fairness.

Bounds: 3 microphone streams (the first, one after a failure, one after a
session), 2 turns and 2 utterances (one for the other to leave something to),
2 workers and 3 requests, 2 tasks with 2 questions each (a callback can meet the
wrong task, an answer can lead to a second question).

### 3.5 `TaskRollback` (isolation/)

State: the persisted metadata state, the content of the worktree, the per-task
lock, the checkpoints, the status of the task in the history, the rows of
`rollback_operations`, the restore events of the timeline, and where each
calling thread (`call`) and the code agent (`agent`) stand.  Contents are
values; `Partial` is what a worktree holds between `git reset --hard` and the
end of a restore.  Hashes, archives and patches are abstracted to the content
they reproduce; `verify` decides between the two outcomes of a restore.  The
statements of `restore` are steps of their own, and `CallDies` ends a call
between any two of them: a process that dies, or a statement that raises.

The agent is the code agent as far as it shares the worktree: create, transition to
executing, baseline checkpoint, edits without the lock, clean-up.  Its later
states (validating, reviewing) are `executing` here.

Properties: `AgentAndRestoreExclude` (the agent, which edits without the lock,
and a restore never have the worktree together), `OneRestorePerReview` (a
review is executed at most once, under any key, from any thread, over any
death), `NoContentIsLost` (what a restore is about to destroy is in a
checkpoint).

A worktree that requires recovery may be restored again by the CLI:
`_ALLOWED_WORKTREE_STATES` admits it, although docs/architecture/isolation.md:36
names the state among the rejected ones; the model follows the code.

Three checkpoints are a target, a safety checkpoint and a third that meets the
limit; two threads are what `execute` defends against with its conditional
`UPDATE`.  The reconciliation of a failed validation
(`reconcile_validation_failure`), which composes the same restore with the
task history, is in `TaskLifecycle`.

### 3.6 `TaskLifecycle` (history/, gateway/, agent/, the owner's reconciliation)

One coding task.  State: its row (`task`), its plans and approvals, the
planning and the execution claim, the attempts with the reports imported for
them, the worktree, the executor's futures (`jobs`, `latest`), the code agent
that runs the oldest one (`worker`), the rollback of a failed validation under
each idempotency key, and the requests under way (`callers`).

Each SQLite transaction is one action, named after the function that commits
it; what a request read before is kept in its caller's record.  A request's
reads before its first write are one step (`InspectInterruption`,
`InspectRollback`, `InspectFailedValidation`): between it and the transaction
any other actor may act, which is where stale reads bite.  The worker's steps
follow `code_agent.main` on the apply path: load the plan, set the worktree up,
mark the start, edit, validate (once more when the first loop ran out of
budget), import each report, decide, record, clean.  `ProcessRestarts` loses
callers, futures and worker and keeps the database and the worktree;
`LeaseLapses` lets a claim run out.

Properties of the run: `LiveWorkerHoldsClaim` (until the day of a lease runs
out, one live future, and the claim is held by the attempt it reports to),
`OnlyApprovedPlansAreEdited`, `RolledBackIsRestored` (whoever set ROLLED_BACK,
the worktree holds none of the task's edits), `RetryStartsFromRollback` (a
retry is admitted with no live worker and no edit left).

The instance has two callers, two plans (one of which its policy continues
automatically), two keys, three attempts, one restart and one lapsed lease,
with six requests, restarts and lapses in all.  Six requests are the longest
chain that each ends in its own way: plan, review, execute, reconcile a failed
validation, retry, reconcile the failed retry.  Three attempts are one, its
retry or recovery, and one more that follows it; that one key admits one
attempt is the schema's own UNIQUE constraint and no property.  No property is
about progress, so no fairness is assumed.

Two properties say what they say for a reason.  With three plans the planner's
late `require_reapproval` can make the importer overwrite the approval of a
plan that is being carried out by `historical_execution_evidence`, so
`OnlyApprovedPlansAreEdited` admits that value once the report of the attempt is
in.  After a lease ran out a second worker may start while the first still
runs, so `LiveWorkerHoldsClaim` speaks of the histories without one.

What the model shows and the properties make room for: two reconciliations
under one key, or one that overlaps a retry or a recovery, act on what each
read, so that the worktree may be restored and cleaned under the other
(`spent.overlapped` remembers it, and `RolledBackIsRestored` and
`RetryStartsFromRollback` except those histories); a retry whose dispatch was
refused is undone by a plain transition to ROLLED_BACK, in a statement of its
own, so that a planner that was late with `require_reapproval` can have had
another plan approved and a worker editing under it by then (four plans and ten
events, beyond the bounds of the run; `spent.overlapped` remembers this too); a
claim that outlives its day may be taken while the first worker still runs
(`spent.expired`).  A cancel heeded in REVIEWING leaves the task there, because
CANCELLED is not a transition of that status; an execution claim whose attempt
row is refused stays for its day; a cancel flag is never cleared.

Abstracted: the objective's link and the scope rules for the tool events of a
report hold; the fingerprint that refuses a retry after the same failure is
left out (the model allows more); the importer's transactions for one report,
`_finalize_execution_history`, and the creation of the worktree with its
transition are one step each; `attach_plan`'s second update of a stale approval
goes with its transition.  The restore itself is that of `TaskRollback`.  Not
modelled: the attempt synthesized for a task without one, branches kept after
failure, automatic commits, generated tests, the direct command line apply,
database errors and the executor's close.

### 3.7 The stages of an engineering task

`MCExecution` runs five modules on one instance.  A stage hands one value to the
next, which the next chooses freely within its bounds.

`RepositoryAdmission` (onboarding.py, planning/service.py, the checks at the
start of agent/code_agent.py): the registry file that every process reads when
it starts and writes back whole through one temporary file of a fixed name; the
plan and the commit it is bound to; the reads of HEAD before a run makes its
worktree, each at its own time while the owner commits, checks out, edits or
replaces the repository.  `RunStartsFromOneCommit`.

`ExecutionLoop` (execution/, validation/): the bounded tool loop, the registry
that takes back what left the scope, the validation with its cache, repairs,
review, and the continuation around them.  The worktree is the set of edits in
it; a command may pass, fail, time out and change the worktree.
`PassIsOfTheTree`: a validation that passes, from the cache or not, is of
exactly this worktree.

`PatchScope` (planning/patch_scope.py): how a diff's lines are attributed to
symbols before and after the index is refreshed, and what the policy accepts;
one step, `JudgePatch`, over all small patches.  The symbol and file tools
refresh the index before the second judgement (execution/registry.py 815-843);
`apply_patch` judges with the index it found (490-562), by the line numbers of
the file as it was indexed.  `InsertedLinesAreApproved`: a line that is inserted
and accepted lies in an approved function, always when a symbol or file tool
inserts it, and when `apply_patch` does so where the old index still has the line
in place (`InPlace`).  Of every other `apply_patch` it is not so: a line appended
to one function is taken for a line of the function that the old index has
there.  `EveryInsertedLineIsApproved` states it without the exception; TLC finds
it violated, and no run expects it.

`GitTransaction` (agent/code_agent.py): the comparison with the reviewed diff,
stage, commit and its verification, or the rollback to the starting commit; each
command of git may time out before or after its effect and be overtaken by
another writer.  `CommittedIsReviewed`.

`Publication` (gateway/promotion.py, gateway/publication.py): the reviewed commit,
its record, the push, the pull request and the row that side-by-side
publications of a task share; a call is answered, refused or lost before or
after its effect; a process may die anywhere.  GitHub is modelled from how the
transport is used.  `PublishedIsReal`.

Bounds: two processes and two commits (the one the plan was made for and the
one that replaced it), two edits of which one is a test and one an untracked
file, four loop steps with two mutations, repairs and one replan (each limit
is met), functions of at most two lines, three contents (start, the work,
somebody else's), two writes and one time-out, two publishers with three
requests and one lost call.

### 3.8 `QualificationSession` and `PhysicalGates` (scripts/qualification/)

`QualificationSession`: production is stopped, the candidate started, watched
and stopped, production restored.  Orchestrator, control server, resource
guard, timer, restore services (one works, the others wait for the file lock),
each with its program counter; `status.json` is read and written back without
a lock; every process may be killed and the machine rebooted at any step.  A
wait with a deadline is a choice between its outcome and the failure.

`HandoffIsAnswered`: production that was stopped is answered for; a restore
service runs to its end and leaves a report, or the machine is booted again.
Fairness: weak for the timer of systemd, for the restore service (started by
systemd and not killed forever), for the reconciliation at start and for the
ending of an orchestrator that lives.  Nothing is assumed of the owner, of the
guard or of the candidate.

`PhysicalGates`: the orchestrator's main loop over the sequenced events of the
candidate, batch by batch, against the gate that is shown: confirmation,
health, the events since the cursor, the windows of quiet.  The candidate, the
owner and time go on between any two of its steps.  `StopWasHeededFirst`: when
the stop gate has passed, no response was published between the interruption of
the playback and the accepted stop.

Bounds: 2 gates of the session (a first that is not the last, and a last), one
waiting restore service beside the one that works, 2 voice turns and one event
beside those a gate expects: a second turn is what a stale event belongs to.
The measurements of the resource guard are a free choice.

### 3.9 The owner's learning (career_forge/, learning_paths/, interface/voice_learning.py)

`MCLearning` runs five modules on one instance; an assessment is split once
more, by what the owner is asked (interview and code questions, or transfer
and review).

`CareerAssessment`: an answer becomes a verdict and evidence, over interviews,
interleavings, retention reviews and code questions of one mission.
Transactions are steps, handlers are workers: `async def` handlers keep the
event loop while the model answers, `def` handlers run on threads; a crash loses
workers and the interaction lease.  `AnswersAndVerdictsStand`.

`CareerMastery`: which missions are active and how evidence moves a competency
up the ladder.  Opening a session takes several transactions on a thread;
verdict with evidence and climb are two transactions and the process may end
between them.  `OneRungPerResult`.

`CareerPublication`: candidate, review, approval for one exact commit, publication;
coroutines give up the loop where they await while the commit moves.  The handler
compares the task's commit with the approved one and then awaits the gateway,
which reads the task once more and compares only the blob of the artifact
(gateway/publication.py 96-101) and the commit of an earlier claim of the row
(history/store.py 714-730).  `PublishedArtifactIsApproved`: what is published holds
the artifact the owner approved, and there is a pull request before the
candidate says so.  That it is the approved commit, `PublishedCommitIsApproved`,
is not so when the task moves between the two to a commit with the same blob.
The gateway's own endpoint, which publishes a task without a candidate, is left
out here; `Publication` models what both call.

`LearningPath`: immutable versions of a path, edits, replacement, replanning from
evidence and the hand-over of a topic to a lesson; a handler reads path,
version, evidence and lesson one after another and writes in one transaction.
`ReplanKeepsOrder`.

`VoiceLearning`: a spoken answer is a draft until confirmed, then recorded,
reviewed and judged; another thread hears Stop, the browser works on the same
rows.  `StoppedReviewDecidesNothing`.

Bounds: two answers, two threads beside the loop, two dynamic subjects above
one of the graph, four rungs, three commits (two share the artifact), three objectives, three topics in
three versions, two missions with two questions and two texts.  Two of each are
the one that was read and the one that replaced it.

### 3.10 The owner's stores (rag/, code_index/, projects/, memory/, autonomy/, proactive/)

`MCOwner` runs six modules on one instance.

`DocumentIndex`: the indexer that the command line starts and the reader in the
web service share three files that are rewritten in place; documents change
while they are hashed and read; the indexer may die anywhere.  A document is
its version, a chunk the window of words it holds, a vector the chunk it was
computed from.  An edit makes a new version or puts an earlier one back (an undo,
a checkout, a synchronization).  `ReusedIndexIsCurrent`: an index that is loaded
because nothing changed is the index of the documents just hashed, all of each,
but for a document in `restored`: one of which an indexer read another version
than it had hashed and whose hashed version came back.  The manifest holds only
hashes (rag/documents.py 1022-1026), so the code reuses the index of the other
text for such a document; without the exception TLC finds the property violated.

`CodeIndex`: the incremental refresh, the artifacts it writes one after another
and the manifest that commits a generation; a refresh may die between any two.
`LoadedGenerationIsWhole`.

`OwnerProjects`: assignment, one mission for each competency, the delegated
objective, artifacts, review submissions and completion, each handler in
several transactions over three stores.  `CompletedProvesEveryCompetency`.

`OwnerMemory`: remember, supersede, conflict, resolve, forget, expire, search and
preference projection.  `OneTextPerCorrection`: of a record and all that
was written to replace it, at most one is ever retrieved.

`Objectives`: one objective and the tasks reserved for it; handlers read it, work
on the canonical task and write it only if it is still what was read; the
process may die.  A plan that was not approved may be revised elsewhere and bound
again (`rebind_unapproved_plan`, which no route calls yet: read the objective, read
the task, write the objective), and a task that was rolled back may be retried, which approves
nothing and runs the plan that is bound.  `CancelledLeavesNothingRunnable`.

`ProactiveEvents`: polls claim due watches, observe and ingest them one by one.
`ToldOnce`: one notification for one thing, and never more than the hourly
bound.

Bounds: two handlers of projects and of objectives; of the memory one search in
several transactions, among operations that are one each; one refresh of the
symbol index at a time, as the code has it; one indexer and one reader with three
writes of the documents; two documents in three versions (old, new, and
the edit while it is read), two files that define and call one name, two
competencies, two records for a correction, two tasks of an
objective with two plans, one watch of each sort and two polls in two processes.

## 4. What the runs check

| run | module | instance | properties |
|---|---|---|---|
| `Ledger` | `MCComputerAgencyLedger` | 1 task, 2 interchangeable callers, budget 2, 2 action rows of two sorts, 1 question | `UncertaintyIsVisible`, `NotExecutedMeansNotStarted`, `NoReplay`, `StopIsBinding`, `OutcomeIsNotRevised` |
| `Agency` | `MCComputerAgency` | 2 processes, 2 runners and a stop, 1 action, 1 question | `EffectAtMostOnce`, `ImplementsContract`, `CancelIsNotStarved` |
| `Rollback` | `TaskRollback` | 1 reviewed operation, 2 keys, 2 callers, 2 contents, 3 checkpoints, the agent | `AgentAndRestoreExclude`, `OneRestorePerReview`, `NoContentIsLost` |
| `Lifecycle` | `MCTaskLifecycle` | 2 callers, 2 plans (1 automatic), 2 keys, 3 attempts, 6 events | `LiveWorkerHoldsClaim`, `OnlyApprovedPlansAreEdited`, `RolledBackIsRestored`, `RetryStartsFromRollback` |
| `Voice` | `MCVoice` | section 3.4 | `SilentAfterTurn`, `ChannelIsClean`, `VerdictIsOfTheUtterance`, `OnlyTheSaidIsRecorded`, `TurnsGiveBackTheMicrophone` |
| `Desktop` | `DesktopRunner` | section 3.3 | `SuccessIsEarned`, `NothingStartsAfterDoubtOrStop` |
| `Execution` | `MCExecution` | section 3.7 | `RunStartsFromOneCommit`, `PassIsOfTheTree`, `InsertedLinesAreApproved`, `CommittedIsReviewed`, `PublishedIsReal` |
| `Qualification` | `MCQualification` | section 3.8 | `StopWasHeededFirst`, `HandoffIsAnswered` |
| `Learning` | `MCLearning` | section 3.9 | `OneRungPerResult`, `PublishedArtifactIsApproved`, `ReplanKeepsOrder`, `StoppedReviewDecidesNothing`, `AnswersAndVerdictsStand` |
| `Owner` | `MCOwner` | section 3.10 | `ReusedIndexIsCurrent`, `LoadedGenerationIsWhole`, `CompletedProvesEveryCompetency`, `OneTextPerCorrection`, `CancelledLeavesNothingRunnable`, `ToldOnce` |
| `GitTransactionReadyFinding` | `GitTransaction` | 2 contents, nobody else writes, no time-out | violates `ReadyIsTheReviewedWork` |
| `VoiceInterruptedFinding` | `VoiceComputerActions` | 1 task, 1 question | violates `SuccessIsHeardToTheEnd` |

Deadlock is not checked: every part may stop (the owner says nothing more, the
bounds are used up, a run has returned).  Symmetry is declared only for
callers, keys, handlers and submissions, which no module orders or names, and
only in runs without liveness properties.

The two violated properties state what the repository says and the code does
not do.  With `--auto-commit`, a reviewed change whose new file sorts before a
changed one has another diff once it is staged, so the commit is refused and
the work rolled back, but the task is recorded as succeeded and its worktree,
back at the starting commit, as ready for promotion
(`agent/code_agent.py` 2419-2490 against docs/architecture/isolation.md:12-15).
And a turn counts its answer as said when the last words were handed to the speech
worker, before the playback ends; an interruption of that playback raises
nothing, so a task whose result was cut off is recorded as succeeded
(`interface/voice_conversation.py` 848, 866, 887-888 against
docs/architecture/voice-and-wake.md:272-277).

The modules state more than the runs check.  Some definitions say what a doc or
a comment says and the code does not keep in every history; they are left in
the modules with the line they quote, and no run expects them to hold:
`StopLeavesNothingPending`, `StopIsHeardWhileRunning`, `NoCompetingReaders`,
`CaptureFailureClosesListening`, `PublishedStays`, `AdvancesOnVerifiedEffects`,
`ReturnLeavesNothingClaimed`, `SilentReportIsSilent`, `QuietWindowWasQuiet`,
`ConfirmedEdgesExist`, `IdentityIsRemembered`, `SiblingsAreRejected`,
`RecoveredReservationIsCancellable`, `EditKeepsLifecycle`, `RetryIsCrashSafe`,
`VerdictIsOfTheAnswer`, `EvidenceIsOfTheSelected`,
`EveryInsertedLineIsApproved`, `PublishedCommitIsApproved`.  Others hold and are of less
consequence (the type invariants, `BudgetAccounted`, `WaitingIsQuiescent`,
`TerminalIsFinal` and their like); of these the proofs establish `TypeOK` of
the ledger, `LiveActionKeepsItsClaim`, `NoEffectIsDenied`, `CommitStaysInScope`,
`OnlyReviewedStateIsReplaced`, `AnswersAreTrue` and `BindingAndCancelStand`.

## 5. What is proved

Eight modules hold the theorems, one for each group of components.  A theorem is
about the specification of its component for every value of its constants that
satisfies the component's ASSUME, so for any number of tasks, callers, rows,
contents, frames, versions or requests; none has an assumption of its own.  Each
module is laid out alike: the shape of records and functions (their DOMAINs) and
the inductive invariant as named conjuncts, lemmas about what a group of actions
leaves alone, a lemma for the step with one step per action, and the theorem,
which combines them.

### 5.1 The theorems and their invariants

`ComputerAgency_proofs` (from `LedgerAssumption` and `AgencyAssumption`).

* `TypeCorrect`: `TypeOK` with `CallsNameTasks`.  Types alone are not inductive:
  a call that is about to write must name a task, and a question, that exist.
* `NeverExecuted`, `NothingIsReplayed`: one lemma (`NextRows`) says that every
  step moves each row along the life of an action (`RowStep`).
* `UncertaintyNeverHidden`: needs `UncertaintyHolds`, that a row in flight belongs
  to a task that is active, held or closed; without it recovery would put a row
  in doubt under a task that succeeded.
* `StopsBind`, `OutcomesStand`: need `SignalledStop`: a stop-all in progress has
  committed the intent of every task it is about to finalize, none of which has
  succeeded or failed, and only what was created was told to stop.
* `AgencyKeepsToTheLedger`: each step of processes, runners and controllers is a
  transaction of the ledger or leaves it alone (`UsesTheLedger`), so all of the
  above holds of the agency too.
* `OneEffectPerAction`, `TheActorKeepsItsRow`, `NoEffectGoesUntold`: from
  `AgencyInvariant` = `Manned` (a run under way holds the guard and works on a row
  that exists) /\ `RowIsHeld` (between claim and record that row is in flight,
  started exactly when it should be) /\ `EffectsOnRecord` (an effect has a started
  row, and a row just started has none yet).
* `BudgetIsKept`: `CountHolds`: what a task was charged is the number of its rows
  that were ever claimed, and within its budget.  `Claimed` is read off the rows,
  so each step is asked which rows it takes into the claimed states or out of them.
* `AgencyImplementsContract`: the refinement of `ComputerTaskContract`, from the
  above and `ContractInvariant` = `SignalledStop` /\ `NamedAreCreated` (what a call
  or a run is about was created) /\ `LateHolds` (a task with a late effect is
  stopped or over, and no run on it is past its start) /\ `CountHolds`.  Every step
  of the ledger moves the phase of one task, or stops several open ones
  (`PhaseStep`), which are the contract's `Open`, `Stop` and `End`, or a stutter;
  `PhysicalEffect` is its `Effect` or `LateEffect` (`ContractActs`).  The mapping adds
  up the effects of a task; `SumCounts` shows that this is how many rows have one,
  and `RoomForTheEffect` that a row which is started and has none yet leaves room
  in the budget, because started rows are claimed.

`Desktop_proofs`.

* `SuccessNeedsItsEffects`: `DRInvariant` with `AlongThePlan`: of the plan's steps
  behind the run each has its verified row, the row of the claim is the step's own,
  and no row is in doubt before the run returned.
* `DoubtAndStopEndStarts`: on the same invariant, action by action.
* `AcceptedStopsWereHeeded`: `GatesInvariant`: a recorded stop has its evidence in
  the log (`StopHeeded`), which only grows, and leaves gate 5 behind, so that
  nothing moves `halt` any more.

`Execution_proofs`: `CommitIsReviewed` (`ReviewedHolds`: from the comparison on, the
index, then the commit, then HEAD hold the reviewed content; another writer
reaches the files only), `PublishedTaskIsReal` (`PublicationHolds`: a request past
its first read has a committed task, one past the base branch a base that stays),
`RunsStartFromOneCommit` (`OneCommit`: the commit a run expects was HEAD at its
admission and again at its verification, its plan's commit was HEAD in between,
and HEAD only grows while the owner does not go back), `PassesAreOfTheTree` and
`CommitsStayInScope` (`ValidationHolds`: the cache answers only for a diff a command
passed on, and each phase and the verdict are about the tree as it is then),
`InsertedIsApproved` (what lines a patch may insert, whom they belong to, and that
new and old index agree on a line that is `InPlace`).

`TaskRollback_proofs` (from `RollbackAssumption`): `ExecutionAndRestoreExclude`
(`LockHolds`: who holds the lock at which place), `ReviewRestoresOnce`
(`ReviewHolds`: one call at most is past the consumption of a review),
`NothingIsDestroyedUnsaved` (`SafetyHolds`: from the safety checkpoint to the
reset its content is the worktree's), `ReviewedIsReplaced` (`ReviewedHolds`: what
was checked under the lock is still there when the restore begins),
`AnswersTellWhatHappened` (`AnswersHold`: the events of the timeline against what
was reached).

`TaskLifecycle_proofs` (from `BoundsAssumption`): `OneFutureHoldsTheClaim`
(`ClaimInvariant`: rows and futures name attempts; while no lease ran out the
claim's attempt is running, at most one caller dispatches and only when no
future is live, and a live future reports to the claim's holder),
`EditsAreUnderApproval` (`ApprovalInvariant`: from the moment the worker loaded its
plan, the approval's row is explicit or the one its own report left),
`RolledBackHasNoEdits` and `RetriesStartRestored`, both from `RollbackInvariant`,
the longest of the project, in four layers:

* `Runs`: futures run in the order of their attempts, every attempt that reports to
  one is running, and the request that dispatches owns the claim of the newest;
* `Ended`: an attempt that has reported, was reconciled, or is under a rollback is
  `Settled`: no future and no dispatch is left of it *or of one before it*, which
  lasts; so what an inspection read of an ended attempt is still so at the
  transaction, however late that comes;
* `TreeHolds`, of the worktree and its worker: a bare worktree has no edit, a
  report that says rolled back is about one without, and no worker of a
  rolled-back task edits;
* `RequestsClean` and `RestedClean`, of the owner's requests: one that is on its
  way to a restore is alone, its attempt is the newest as long as the task is
  under validation or recovery, no worker edits beside it, and what it (or an
  earlier call under its key) recorded as restored has no edit until an attempt
  follows.  This layer holds while no reconciliation was overlapped
  (`CleanStays`), which is exactly what the two theorems except.

Every step is then an owner's, the worker's, a restart, or moves the status at
most (`Bystanders`), with one lemma each (`OwnersClean`, `WorkerClean`,
`RestartClean`, `BystandsClean`).

`Voice_proofs`: `TheSaidIsRecorded` (what was handed over and not failed is `said` before
it is recorded), `TurnsEndInSilence` (per turn, which of its
threads can still be speaking), `VerdictsAreOfTheirUtterance` (`InExchange`,
`AtRest`: an exchange is in the worker's input, in the worker, or among the lines,
and outside of one there is no trace of any), `RequestsLeaveNothing` (`Pending`: the
frames in queue and pipe are the rest of the one request in progress, in order).

`Learning_proofs`: `EvidenceIsApproved` (from `NoCommitAssumption`; a request that
goes on to publish carries the approved commit, so what the gateway compares with
is the approved blob; the pull request is for the commit of the claim), `StoppedReviewIsSilent`
(`ReviewHolds`: whose review the marker names, and which turn a verdict bears),
`OneRungForOneResult` (from `SubjectsAreNew`; `MasteryInvariant`: a subject's rung is
the cardinality of its evidence that climbed, which maps one to one to right
answers), `WhatWasAnsweredStands` (`WordsAreBound`: a review that waits for its
verdict, and the handler that was sent to judge it, have words),
`ReplannedTopicsStayInOrder` and `CurriculumStaysValid` (from `LPAssumption`), in
three steps:

* what the recursions compute: `Before` is the least set that holds the direct
  prerequisites and is closed under them (`ReachUnfolded`, `BeforeIsLeast`), and the
  bridging of removed topics takes them out one by one (`BridgesUnfolded`);
* what one removal does: joining what led to a topic with what it led to keeps
  the order of all the others (`BridgeKeepsOrder`), hence so does any number of
  removals (`WithoutKeepsOrder`), and leaving out a direct edge that a longer way
  makes redundant (`RedundantLeavesTheRest`); together `ReplanIsSound`;
* `PathInvariant`, of the interleaved handlers: every version is sound, the current
  one keeps the order of the one before it if it was replanned, and what a
  request carries to its commit is sound and keeps the order of the version it
  was *made from*, which the commit checks to be the current one still.

`Owner_proofs`: `CancelledIsQuiet` and `BindingStands` (what a handler read of the
objective still holds where its conditional write succeeds; the plans of a task
only grow, so a plan that is bound again is a later one), `CompletionIsProved`
(how far each request has attached the milestone's missions), `OwnerIsToldOnce`,
`CorrectionIsTheLastWord` (`Lineage(n)` is the least set closed under correction;
of what a chain replaces all is settled).  `ReusedIsCurrent`: `IndexInvariant`
(what a manifest says of a document is so, or the document was read
in another version than it was hashed in (`misread`) and is not as it was hashed,
or was put back and is `restored`; `WindowsCover` says that the
windows of `chunk_text` leave no word out, for every size and overlap).

`LoadedIndexIsOneGeneration` (from `CIAssumption`: finitely many files and names):
`GenerationInvariant`.  `ManifestHolds`: what a manifest says the artifacts must be is
one generation, though the files beside it may already be those of the next;
`RefreshHolds`: what a refresh has in memory at each place, and which of the files
it has written.  `ExtractChanged` is the step that matters: the rows kept of the
generation that was loaded and those extracted now are the symbols of exactly
the recorded files, with the vectors in the same places (`WhatStays`,
`SymbolsAfter`, from `AscendingIsAll`: listing a finite set of numbers in ascending
order leaves none out), and resolving the calls changes no caller (`ResolveKeeps`).

### 5.2 How far the provers reach

Where an argument is by induction on numbers (the least position with a property,
the last element of a chain) it goes by the least-element lemma that
WellFoundedInduction gives for `Nat`; the library's induction schemes take an
operator as a parameter, which the provers cannot instantiate.

What a recursive function computes is found the same way, where the recursion
goes down in a natural number: the function is a choice, so it must be shown
that something satisfies its equation.  `RankRecursion` (learning paths) shows it
once for every such recursion over data with a rank, from the values below each
rank; the reachability of topics and the fold over the topics removed are
instances.  `SumCounts` does so for the sum over the rows of a task.

Facts about sets of functions, which SMT rewrites before it can match a lemma, are
named (`GoesDown`, `TakesOut`, `IsList`) and established in steps of their own.

`SelectSeq` and `SortSeq` are beyond the prover (it has no definition it can expand
for them).  `CodeIndex` therefore takes the values at the positions it keeps,
listed by `Ascending`: the choice of an increasing enumeration, which exists.

### 5.3 What is only model-checked

* Liveness: `CancelIsNotStarved`, `TurnsGiveBackTheMicrophone`, `HandoffIsAnswered`.
  The provers have no rules for fairness and ENABLED here.

Every safety invariant, every action property and the refinement that the passing
runs check have their theorem.  The two findings are runs that TLC finds violated,
so there is nothing to prove of them.

The proofs shaped two properties (section 3.6): the attempts to prove their first
forms led to the histories that break them.

## 6. What is not modelled

`PROJECT.json` lists every component with its reason.  In short: pure functions of
one observation, prompt or source file (targets, parsers, scoring), signal
processing and inference, rendering, the D-Bus and worker I/O whose effect is a
free choice of the component that calls it, and single transactions without a
second actor (roles, enrollment, the qualification gate's permit file).  Of the
code agent, the direct `--apply` patch path without the tool loop, which
`validate_cli_options` refuses, and the modes that only report or propose a patch
are left out.
