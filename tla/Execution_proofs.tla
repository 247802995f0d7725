-------------------------- MODULE Execution_proofs --------------------------
(***************************************************************************)
(* Theorems about the way of an engineering task, for every value of the   *)
(* constants: GitTransaction, Publication, RepositoryAdmission,            *)
(* ExecutionLoop and PatchScope.                                           *)
(***************************************************************************)
EXTENDS RepositoryAdmission, ExecutionLoop, PatchScope, GitTransaction, Publication,
        FiniteSetTheorems, TLAPS

-----------------------------------------------------------------------------
(* GitTransaction: what is committed is what was reviewed.                 *)

\* The fields of the two records a run carries.
RunShape ==
  /\ DOMAIN final = {"pc", "success", "cancelled", "reviewed", "commit", "outcome"}
  /\ DOMAIN told = {"task", "final", "worktree"}

\* From the comparison of the index with the reviewed diff on, the index, then
\* the commit, then HEAD hold the reviewed content; the writer beside reaches
\* the files only.  A final commit is told only after a verified commit.
ReviewedHolds ==
  /\ final.pc = "commit" => staged = final.reviewed
  /\ final.pc = "verify" => final.commit = final.reviewed /\ head = final.reviewed
  /\ final.outcome = "committed" =>
       /\ final.pc \in {"record", "leave", "done"}
       /\ final.commit = final.reviewed /\ head = final.reviewed
  /\ told.final # NoContent =>
       final.outcome = "committed" /\ told.final = final.commit

LEMMA ReviewedNext ==
  ASSUME RunShape, ReviewedHolds, [GTNext]_gtVars
  PROVE  RunShape' /\ ReviewedHolds'
<1> USE DEF RunShape, ReviewedHolds, NoContent, FinalAt, Git, Surroundings
<1>1. CASE PrepareGeneratedTest BY <1>1 DEF PrepareGeneratedTest
<1>2. CASE ExecuteAndValidate BY <1>2 DEF ExecuteAndValidate
<1>3. CASE DecideCommit BY <1>3 DEF DecideCommit
<1>4. CASE CompareWithReviewed BY <1>4 DEF CompareWithReviewed
<1>5. CASE Stage BY <1>5 DEF Stage
<1>6. CASE CompareStaged
  <2>1. StagedDiff = ReviewedDiff => staged = final.reviewed
    BY DEF StagedDiff, ReviewedDiff
  <2> QED BY <1>6, <2>1 DEF CompareStaged
<1>7. CASE Commit BY <1>7 DEF Commit
<1>8. CASE VerifyCommit BY <1>8 DEF VerifyCommit
<1>9. CASE ResetToStart BY <1>9 DEF ResetToStart
<1>10. CASE CleanWorktree BY <1>10 DEF CleanWorktree
<1>11. CASE PreserveFailed BY <1>11 DEF PreserveFailed
<1>12. CASE GitTimesOut BY <1>12 DEF GitTimesOut
<1>13. CASE FinalizeRecord BY <1>13 DEF FinalizeRecord
<1>14. CASE FinishWorktree BY <1>14 DEF FinishWorktree
<1>15. CASE WriteBeside BY <1>15 DEF WriteBeside
<1>16. CASE AskToCancel BY <1>16 DEF AskToCancel
<1>17. CASE UNCHANGED gtVars BY <1>17 DEF gtVars
<1> QED BY <1>1, <1>2, <1>3, <1>4, <1>5, <1>6, <1>7, <1>8, <1>9, <1>10, <1>11, <1>12,
           <1>13, <1>14, <1>15, <1>16, <1>17 DEF GTNext

\* The commit the history names for a task holds the content that was
\* reviewed, whoever wrote to the worktree meanwhile (commit_agent_changes).
THEOREM CommitIsReviewed == GTSpec => []CommittedIsReviewed
<1>1. GTInit => RunShape /\ ReviewedHolds
  BY DEF GTInit, RunShape, ReviewedHolds, NoContent
<1>2. RunShape /\ ReviewedHolds /\ [GTNext]_gtVars => RunShape' /\ ReviewedHolds'
  BY ReviewedNext
<1>3. ReviewedHolds => CommittedIsReviewed
  BY DEF ReviewedHolds, CommittedIsReviewed
<1> QED BY <1>1, <1>2, <1>3, PTL DEF GTSpec
-----------------------------------------------------------------------------
(* Publication: what is recorded as published is on GitHub.                *)

Publishing == {"push", "confirm", "find", "create", "match"}

\* A request that got past its first read has a committed task; one that got
\* past the base branch has a base that stays; the branch shows another commit
\* only after somebody else pushed to it.
PublicationHolds ==
  /\ DOMAIN publisher = Publishers /\ DOMAIN remote = {"branch", "base", "pr"}
  /\ \A p \in Publishers : DOMAIN publisher[p] = {"pc", "seen"}
  /\ \A p \in Publishers : publisher[p].pc # "idle" => commit = "task"
  /\ \A p \in Publishers : publisher[p].pc \in Publishing => remote.base # None
  /\ remote.branch = "foreign" => foreign
  /\ commit \in {None, "task"} /\ remote.pr \in {None, "open"}
  /\ PublishedIsReal

LEMMA PublisherNext ==
  ASSUME PublicationHolds, NEW p \in Publishers, Publish(p) \/ PublisherStep(p)
  PROVE  PublicationHolds'
<1> USE DEF PublicationHolds, Publishing, PublishedIsReal, None, At, Goto, End, Fail, Idle
<1>1. CASE Publish(p) BY <1>1 DEF Publish
<1>2. CASE Claim(p) BY <1>2 DEF Claim, Claimable, Resumable
<1>3. CASE ReadBranch(p) BY <1>3 DEF ReadBranch
<1>4. CASE ReadBase(p) BY <1>4 DEF ReadBase
<1>5. CASE BootstrapBase(p) BY <1>5 DEF BootstrapBase
<1>6. CASE Push(p) BY <1>6 DEF Push
<1>7. CASE ConfirmBranch(p) BY <1>7 DEF ConfirmBranch
<1>8. CASE FindPullRequest(p) BY <1>8 DEF FindPullRequest
<1>9. CASE CreatePullRequest(p) BY <1>9 DEF CreatePullRequest
<1>10. CASE CallLost(p) BY <1>10 DEF CallLost
<1>11. CASE RecordPublished(p) BY <1>11 DEF RecordPublished, MatchesPullRequest
<1> QED BY <1>1, <1>2, <1>3, <1>4, <1>5, <1>6, <1>7, <1>8, <1>9, <1>10, <1>11 DEF PublisherStep

LEMMA PublicationHoldsNext ==
  ASSUME PublicationHolds, [PublicationNext]_publicationVars
  PROVE  PublicationHolds'
<1> USE DEF PublicationHolds, Publishing, PublishedIsReal, None, Idle
<1>1. CASE CommitReviewed BY <1>1 DEF CommitReviewed
<1>2. CASE RecordCommit BY <1>2 DEF RecordCommit
<1>3. CASE Crash BY <1>3 DEF Crash
<1>4. CASE ForeignPush BY <1>4 DEF ForeignPush
<1>5. CASE \E p \in Publishers : Publish(p) \/ PublisherStep(p)
  BY <1>5, PublisherNext
<1>6. CASE UNCHANGED publicationVars BY <1>6 DEF publicationVars
<1> QED BY <1>1, <1>2, <1>3, <1>4, <1>5, <1>6 DEF PublicationNext

\* A published task has its pull request, against a base that exists, and its
\* branch shows the reviewed commit unless somebody else pushed to it, however
\* many publications ran side by side, were lost or were resumed (publish).
THEOREM PublishedTaskIsReal == PublicationSpec => []PublishedIsReal
<1>1. PublicationInit => PublicationHolds
  BY DEF PublicationInit, PublicationHolds, PublishedIsReal, Publishing, None, Idle
<1>2. PublicationHolds /\ [PublicationNext]_publicationVars => PublicationHolds'
  BY PublicationHoldsNext
<1>3. PublicationHolds => PublishedIsReal
  BY DEF PublicationHolds
<1> QED BY <1>1, <1>2, <1>3, PTL DEF PublicationSpec
-----------------------------------------------------------------------------
(* RepositoryAdmission: a run starts from one commit.                      *)

Owners == {"stopped", "up", "scan"}
Runs == {"admit", "dirty", "index", "plan", "head", "verify", "worktree"}

\* A process writes the registry on behalf of what comes next.
At1(p) == \/ process[p].pc \in {"dirty", "index", "plan", "head"}
          \/ process[p].pc \in {"write", "replace"} /\ process[p].next = "dirty"
At2(p) == \/ process[p].pc = "worktree"
          \/ process[p].pc \in {"write", "replace"} /\ process[p].next = "worktree"
InRun(p) == process[p].pc \in {"admit", "verify"} \/ At1(p) \/ At2(p)

ProcessFields == {"pc", "memory", "id", "scan", "expected", "bound", "plan", "next"}

AdmissionShape ==
  /\ DOMAIN process = Processes /\ DOMAIN registry = RepositoryIds
  /\ \A m \in temporary : DOMAIN m = RepositoryIds
  /\ DOMAIN checkout = {"identity", "head", "dirty"} /\ DOMAIN plan = {"commit", "basis"}
  /\ DOMAIN used = {"commits", "swaps", "edits", "loads", "back"}
  /\ checkout.head \in Nat /\ used.commits \in Nat /\ plan.commit \in Nat
  /\ ~ used.back => checkout.head = used.commits

ProcessShape(p) ==
  /\ DOMAIN process[p] = ProcessFields
  /\ DOMAIN process[p].memory = RepositoryIds
  /\ DOMAIN process[p].scan = {"identity", "head"}
  /\ process[p].pc \in Owners \cup Runs \cup {"write", "replace"}
  /\ process[p].pc \in {"write", "replace"} => process[p].next \in {"up", "dirty", "worktree"}
  /\ process[p].scan.head \in Nat /\ process[p].plan.commit \in Nat

\* The commit a run expects was HEAD when the run was admitted, and HEAD again
\* when it was verified; its plan's commit was HEAD in between.  While the
\* owner never goes back HEAD only grows, so these three are one.
OneCommit(p) ==
  /\ InRun(p) => process[p].id = Target
  /\ InRun(p) /\ process[p].bound => process[p].plan.commit = process[p].expected
  /\ process[p].pc = "admit" /\ ~ used.back => process[p].scan.head <= checkout.head
  /\ At1(p) => /\ process[p].scan.head = process[p].expected
               /\ ~ used.back => process[p].expected <= checkout.head
  /\ process[p].pc = "head" /\ ~ used.back =>
       process[p].expected <= process[p].plan.commit /\ process[p].plan.commit <= checkout.head
  /\ process[p].pc = "verify" /\ ~ used.back =>
       /\ process[p].expected \in Nat /\ process[p].expected <= process[p].plan.commit
       /\ process[p].plan.commit <= process[p].scan.head
  /\ At2(p) => /\ process[p].memory[Target].head = process[p].expected
               /\ ~ used.back => process[p].plan.commit = process[p].expected

AdmissionHolds ==
  AdmissionShape /\ \A p \in Processes : ProcessShape(p) /\ OneCommit(p)

ProcessSteps(p) ==
  \/ Load(p) \/ Quit(p) \/ \E id \in RepositoryIds : ReadHead(p, id)
  \/ RegisterOrRefresh(p) \/ WriteTemporary(p) \/ ReplaceRegistry(p)
  \/ BeginRun(p) \/ Admit(p) \/ RefuseDirty(p) \/ Reindex(p) \/ LoadApprovedPlan(p)
  \/ ReadHeadAgain(p) \/ Verify(p) \/ EndRun(p)

\* A process leaves the checkout, the plan and the other processes alone.
LEMMA OwnStep ==
  ASSUME AdmissionShape, NEW p \in Processes, ProcessSteps(p)
  PROVE  /\ checkout' = checkout /\ plan' = plan /\ DOMAIN process' = Processes
         /\ used'.back = used.back /\ used'.commits = used.commits /\ DOMAIN used' = DOMAIN used
         /\ \A q \in Processes \ {p} : process'[q] = process[q]
BY DEF AdmissionShape, ProcessSteps, ProcessAt, Proceeds, Quits, Stay, Load, Quit, ReadHead,
       RegisterOrRefresh, WriteTemporary, ReplaceRegistry, BeginRun, Admit, RefuseDirty, Reindex,
       LoadApprovedPlan, ReadHeadAgain, Verify, EndRun

LEMMA OwnFields ==
  ASSUME AdmissionShape, NEW p \in Processes, ProcessShape(p), OneCommit(p), RAAssumption,
         ProcessSteps(p)
  PROVE  /\ ProcessShape(p)' /\ OneCommit(p)' /\ DOMAIN registry' = RepositoryIds
         /\ \A m \in temporary' : DOMAIN m = RepositoryIds
<1> USE RAAssumption DEF AdmissionShape, ProcessShape, OneCommit, InRun, At1, At2, Owners, Runs,
        ProcessFields, Stopped, NoMemory, NoProfile, NoPlan, NoFile, ProcessAt, Proceeds, Quits,
        RAAssumption, Stay
<1>1. CASE Load(p) BY <1>1 DEF Load
<1>2. CASE Quit(p) BY <1>2 DEF Quit
<1>3. ASSUME NEW id \in RepositoryIds, ReadHead(p, id)
      PROVE  /\ ProcessShape(p)' /\ OneCommit(p)' /\ DOMAIN registry' = RepositoryIds
             /\ \A m \in temporary' : DOMAIN m = RepositoryIds
  BY <1>3 DEF ReadHead, ProfileOf
<1>4. CASE RegisterOrRefresh(p) BY <1>4 DEF RegisterOrRefresh, Scanned
<1>5. CASE WriteTemporary(p) BY <1>5 DEF WriteTemporary
<1>6. CASE ReplaceRegistry(p)
  <2>1. CASE temporary = NoFile BY <2>1, <1>6 DEF ReplaceRegistry
  <2>2. CASE ~ (temporary = NoFile) BY <2>2, <1>6 DEF ReplaceRegistry
  <2> QED BY <2>1, <2>2
<1>7. CASE BeginRun(p)
  <2>1. PICK bound \in BOOLEAN :
           process' = [process EXCEPT ![p].pc = "admit", ![p].id = Target, ![p].plan = plan,
                         ![p].bound = bound, ![p].scan.head = checkout.head,
                         ![p].expected = IF bound THEN plan.commit
                                         ELSE process[p].memory[Target].head]
    BY <1>7 DEF BeginRun
  <2>2. /\ process[p].pc = "up" /\ process[p].memory[Target] # NoProfile
        /\ UNCHANGED <<checkout, plan, registry, temporary, used>>
    BY ONLY <1>7 DEF BeginRun, ProcessAt, Stay
  <2>3. DOMAIN process'[p] = ProcessFields /\ process'[p].pc = "admit" /\ process'[p].id = Target
    BY <2>1
  <2>4. process'[p].plan = plan /\ process'[p].bound = bound
    BY <2>1
  <2>5. bound => process'[p].expected = plan.commit
    BY <2>1
  <2>6. process'[p].scan = [process[p].scan EXCEPT !.head = checkout.head]
        /\ process'[p].memory = process[p].memory
    BY <2>1
  <2> HIDE <2>1
  <2>7. ProcessShape(p)' BY <2>2, <2>3, <2>4, <2>6
  <2>8. OneCommit(p)' BY <2>2, <2>3, <2>4, <2>5, <2>6
  <2> QED BY <2>2, <2>7, <2>8
<1>8. CASE Admit(p)
  <2>1. CASE Ready(p) BY <2>1, <1>8 DEF Admit, Ready, Scanned
  <2>2. CASE ~ (Ready(p)) BY <2>2, <1>8 DEF Admit
  <2> QED BY <2>1, <2>2
<1>9. CASE RefuseDirty(p)
  <2>1. CASE checkout.dirty BY <2>1, <1>9 DEF RefuseDirty
  <2>2. CASE ~ (checkout.dirty) BY <2>2, <1>9 DEF RefuseDirty
  <2> QED BY <2>1, <2>2
<1>10. CASE Reindex(p) BY <1>10 DEF Reindex
<1>11. CASE LoadApprovedPlan(p)
  <2>1. CASE plan = process[p].plan /\ ~ IdentityIssues BY <2>1, <1>11 DEF LoadApprovedPlan, IdentityIssues
  <2>2. CASE ~ (plan = process[p].plan /\ ~ IdentityIssues)
    <3>1. process' = [process EXCEPT ![p] = Stopped] BY <2>2, <1>11 DEF LoadApprovedPlan
    <3> QED BY <3>1, <1>11 DEF LoadApprovedPlan
  <2> QED BY <2>1, <2>2
<1>12. CASE ReadHeadAgain(p) BY <1>12 DEF ReadHeadAgain
<1>13. CASE Verify(p)
  <2>1. CASE Ready(p) /\ codeIndex = Content BY <2>1, <1>13 DEF Verify, Ready, Scanned
  <2>2. CASE ~ (Ready(p) /\ codeIndex = Content)
    <3>1. process' = [process EXCEPT ![p] = Stopped] BY <2>2, <1>13 DEF Verify
    <3> QED BY <3>1, <1>13 DEF Verify
  <2> QED BY <2>1, <2>2
<1>14. CASE EndRun(p) BY <1>14 DEF EndRun
<1> QED BY <1>1, <1>2, <1>3, <1>4, <1>5, <1>6, <1>7, <1>8, <1>9, <1>10, <1>11, <1>12, <1>13, <1>14
        DEF ProcessSteps

LEMMA ProcessNext ==
  ASSUME AdmissionHolds, RAAssumption, NEW p \in Processes, ProcessSteps(p)
  PROVE  AdmissionHolds'
<1>1. AdmissionShape' BY OwnStep, OwnFields DEF AdmissionHolds, AdmissionShape
<1>2. ASSUME NEW q \in Processes \ {p} PROVE ProcessShape(q)' /\ OneCommit(q)'
  BY OwnStep DEF AdmissionHolds, ProcessShape, OneCommit, InRun, At1, At2
<1> QED BY <1>1, <1>2, OwnFields DEF AdmissionHolds

LEMMA AdmissionNext ==
  ASSUME AdmissionHolds, RAAssumption, [RANext]_raVars
  PROVE  AdmissionHolds'
<1> USE RAAssumption DEF AdmissionHolds, AdmissionShape, ProcessShape, OneCommit, InRun, At1, At2,
        RAAssumption
<1>1. CASE AnalyseScope BY <1>1 DEF AnalyseScope, NoPlan
<1>2. CASE BindStartingCommit BY <1>2 DEF BindStartingCommit
<1>3. CASE DiscardPlan BY <1>3 DEF DiscardPlan, NoPlan
<1>4. CASE OwnerCommits BY <1>4 DEF OwnerCommits
<1>5. CASE OwnerChecksOut BY <1>5 DEF OwnerChecksOut
<1>6. CASE OwnerEdits BY <1>6 DEF OwnerEdits
<1>7. CASE SwapRepository BY <1>7 DEF SwapRepository
<1>8. CASE UNCHANGED raVars BY <1>8 DEF raVars
<1> QED BY <1>1, <1>2, <1>3, <1>4, <1>5, <1>6, <1>7, <1>8, ProcessNext
        DEF RANext, ProcessSteps

\* A run that makes its worktree makes it at the commit its plan was made for
\* and HEAD last showed (assert_ready_for_mutation, load_approved_plan).
THEOREM RunsStartFromOneCommit == RASpec => []RunStartsFromOneCommit
<1>1. RAInit => AdmissionHolds
  BY RAAssumption DEF RAInit, AdmissionHolds, AdmissionShape, ProcessShape, OneCommit, InRun, At1, At2, Owners,
     Runs, ProcessFields, Stopped, NoMemory, NoProfile, NoPlan, NoFile
<1>2. AdmissionHolds /\ [RANext]_raVars => AdmissionHolds'
  BY AdmissionNext, RAAssumption
<1>3. AdmissionHolds => RunStartsFromOneCommit
  BY DEF AdmissionHolds, OneCommit, InRun, At2, RunStartsFromOneCommit, ProcessAt
<1> QED BY <1>1, <1>2, <1>3, PTL DEF RASpec
-----------------------------------------------------------------------------
(* ExecutionLoop: a validation that passes is one of the worktree as it is. *)

LoopFields == {"pc", "round", "limit", "steps", "mutations", "repairs", "replans", "replanLimit",
               "tool", "edit", "before", "inspected", "failed", "status", "told"}

\* What is between the loop's steps, and what none of them touches.
LoopPlaces == {"model", "chosen", "written", "ended", "raised"}

\* The cache only ever answers for a diff a command passed on; a phase that is
\* reached, and the verdict, are about the tree as it is at that moment.
ValidationHolds ==
  /\ DOMAIN loop = LoopFields
  /\ DOMAIN check = {"attempts", "prints", "retry", "ok", "diff"}
  /\ cache \subseteq passedOn
  /\ loop.pc \in {"targeted", "required", "repair", "review"} => ~ check.ok
  /\ loop.pc \in {"required", "review"} => <<"targeted", tree>> \in passedOn
  /\ loop.pc = "review" => <<"required", tree>> \in passedOn
  /\ loop.pc = "decide" /\ check.ok =>
       /\ check.diff = tree /\ tree \subseteq Edits
       /\ <<"targeted", tree>> \in passedOn /\ <<"required", tree>> \in passedOn
  /\ loop.pc = "committed" => tree \subseteq Edits

LEMMA LoopStepPlace ==
  ASSUME DOMAIN loop = LoopFields, LoopStep
  PROVE  /\ loop'.pc \in LoopPlaces /\ DOMAIN loop' = LoopFields
         /\ UNCHANGED <<check, cache, passedOn>>
<1>0. CASE RevertCurrentChanges
  <2>1. /\ UNCHANGED <<check, cache, passedOn>>
        /\ \/ loop' = Observed(Counted, FALSE, FALSE)
           \/ loop' = Observed([Counted EXCEPT !.failed = FALSE], TRUE, FALSE)
    BY <1>0 DEF RevertCurrentChanges
  <2> QED BY <2>1 DEF LoopPlaces, LoopFields, Observed, CountRepair, CountReplan, Continue, LoopEnd, Counted
<1> USE DEF LoopPlaces, LoopFields, Observed, CountRepair, CountReplan, Continue, LoopEnd, Counted
<1>1. CASE CancelBeforeStep \/ OutOfSteps \/ AskAgain \/ Finish
  BY <1>1 DEF CancelBeforeStep, OutOfSteps, AskAgain, Finish
<1>2. CASE NextRequest BY <1>2 DEF NextRequest
<1>3. CASE Read BY <1>3 DEF Read
<1>4. CASE MutationsSpent BY <1>4 DEF MutationsSpent
<1>5. CASE MutationRaises BY <1>5 DEF MutationRaises
<1>6. CASE RejectBeforeWriting BY <1>6 DEF RejectBeforeWriting
<1>7. CASE CreatePatch BY <1>7 DEF CreatePatch
<1>8. CASE WriteEdit BY <1>8 DEF WriteEdit
<1>9. CASE EnforceScope BY <1>9 DEF EnforceScope
<1>10. CASE CommandStillFails BY <1>10 DEF CommandStillFails
<1>11. CASE CommandFails BY <1>11 DEF CommandFails
<1>12. CASE CommandDirties BY <1>12 DEF CommandDirties
<1>13. CASE CommandPasses BY <1>13 DEF CommandPasses
<1> QED BY <1>0, <1>1, <1>2, <1>3, <1>4, <1>5, <1>6, <1>7, <1>8, <1>9, <1>10, <1>11,
           <1>12, <1>13 DEF LoopStep

LEMMA ValidationStepHolds ==
  ASSUME ValidationHolds, ValidationStep
  PROVE  ValidationHolds'
<1> USE DEF ValidationHolds, LoopFields
<1>1. CASE StartValidation BY <1>1 DEF StartValidation, FreshCheck
<1>2. CASE Review BY <1>2 DEF Review, ScopeReviewed
<1>3. ASSUME NEW phase \in Phases, StepCached(phase) PROVE ValidationHolds'
  BY <1>3 DEF Phases, StepCached, CacheHolds, AfterSuccess
<1>4. ASSUME NEW phase \in Phases, StepPasses(phase) PROVE ValidationHolds'
  BY <1>4 DEF Phases, StepPasses, AfterSuccess
<1>5. ASSUME NEW phase \in Phases, StepFails(phase) PROVE ValidationHolds'
  BY <1>5 DEF Phases, StepFails, AfterFailure
<1>6. CASE RepairStops BY <1>6 DEF RepairStops
<1>7. CASE RepairApplied BY <1>7 DEF RepairApplied, Proposed
<1>8. CASE RepairNotApplied BY <1>8 DEF RepairNotApplied, Proposed
<1>9. CASE RepairRejected BY <1>9 DEF RepairRejected, Proposed
<1> QED BY <1>1, <1>2, <1>3, <1>4, <1>5, <1>6, <1>7, <1>8, <1>9 DEF ValidationStep

LEMMA ExecHolds ==
  ASSUME ValidationHolds, [ExecNext]_execVars
  PROVE  ValidationHolds'
<1>1. CASE LoopStep BY <1>1, LoopStepPlace DEF ValidationHolds, LoopPlaces
<1>2. CASE ValidationStep BY <1>2, ValidationStepHolds
<1>3. CASE ContinuePlan BY <1>3 DEF ContinuePlan, ValidationHolds, FreshLoop, LoopFields
<1>4. CASE Decide BY <1>4 DEF Decide, ValidationHolds, LoopFields
<1>5. CASE AskCancel BY <1>5 DEF AskCancel, ValidationHolds
<1>6. CASE UNCHANGED execVars BY <1>6 DEF execVars, ValidationHolds
<1> QED BY <1>1, <1>2, <1>3, <1>4, <1>5, <1>6 DEF ExecNext

LEMMA ExecStarts == ExecInit => ValidationHolds
BY DEF ExecInit, ValidationHolds, FreshLoop, FreshCheck, LoopFields

\* A passing report is one of the diff the worktree holds: every phase's
\* command passed on it, in this run or in the one the cache remembers, for
\* any edits, repairs, rollbacks and commands in between.
THEOREM PassesAreOfTheTree == ExecSpec => []PassIsOfTheTree
<1>1. ValidationHolds => PassIsOfTheTree
  BY DEF ValidationHolds, PassIsOfTheTree, Phases
<1> QED BY ExecStarts, ExecHolds, <1>1, PTL DEF ExecSpec

\* What is committed stays in the approved scope, although the rollback of the
\* registry may stop half-way and a command may leave anything behind.
THEOREM CommitsStayInScope == ExecSpec => []CommitStaysInScope
<1>1. ValidationHolds => CommitStaysInScope
  BY DEF ValidationHolds, CommitStaysInScope
<1> QED BY ExecStarts, ExecHolds, <1>1, PTL DEF ExecSpec
-----------------------------------------------------------------------------
(* PatchScope: a line that passes the gate was approved.                   *)

\* What Insertable lets a patch insert: a line of A or B, one outside of every
\* function, or the first line of C.  None of them is blank.
InsertableLine(line) ==
  /\ ~ line.blank
  /\ line.owner \in {"A", "B", "top"} \/ (line.owner = "C" /\ line.def)

FileLines == {Line(owner, def) : owner \in {"A", "B", "gap"}, def \in {TRUE, FALSE}}

LEMMA FileForm ==
  \A x \in Files :
    \E a \in 1..MaxLines, b \in 1..MaxLines, gap \in {<<>>, <<Line("gap", FALSE)>>} :
      x = Function("A", a) \o gap \o Function("B", b)
BY DEF Files, Line

LEMMA InsertableForms ==
  ASSUME NEW x
  PROVE  /\ x = Line("C", TRUE) => InsertableLine(x)
         /\ x = [Line("top", FALSE) EXCEPT !.blank = FALSE] => InsertableLine(x)
         /\ \A o \in {"A", "B"} : x = Line(o, FALSE) => InsertableLine(x)
<1>1. CASE x = Line("C", TRUE) BY <1>1 DEF Line, InsertableLine
<1>2. CASE x = [Line("top", FALSE) EXCEPT !.blank = FALSE] BY <1>2 DEF Line, InsertableLine
<1>3. ASSUME NEW o \in {"A", "B"}, x = Line(o, FALSE) PROVE InsertableLine(x)
  BY <1>3 DEF Line, InsertableLine
<1> QED BY <1>1, <1>2, <1>3

LEMMA ModifiedSymbol ==
  ASSUME NEW c, NEW y \in Changed(c), NEW s \in SymbolsAt(c, y.number), s \notin Added(c)
  PROVE  s \in ExistingModified(c)
BY DEF ExistingModified

LEMMA OwnersOfFile ==
  ASSUME NEW file \in Files, NEW i \in DOMAIN file
  PROVE  file[i].owner \in {"A", "B", "gap"} /\ file[i].blank = (file[i].owner = "gap")
         /\ i \in Nat \ {0}
<1>1. PICK a \in 1..MaxLines, b \in 1..MaxLines, gap \in {<<>>, <<Line("gap", FALSE)>>} :
        file = Function("A", a) \o gap \o Function("B", b)
  BY FileForm
<1>2. /\ Line("A", TRUE) \in FileLines /\ Line("A", FALSE) \in FileLines
      /\ Line("B", TRUE) \in FileLines /\ Line("B", FALSE) \in FileLines
      /\ Line("gap", FALSE) \in FileLines
  BY DEF FileLines
<1>3. ASSUME NEW n \in 1..MaxLines, NEW name \in {"A", "B"}
      PROVE  Function(name, n) \in Seq(FileLines)
  <2>1. n \in Nat BY PSAssumption DEF PSAssumption
  <2>2. \A k \in 1..n : Line(name, k = 1) \in FileLines
    <3>1. ASSUME NEW k \in 1..n PROVE Line(name, k = 1) \in FileLines
      <4>1. CASE k = 1 BY <4>1, <1>2
      <4>2. CASE k # 1 BY <4>2, <1>2
      <4> QED BY <4>1, <4>2
    <3> QED BY <3>1
  <2> HIDE DEF FileLines
  <2>3. Function(name, n) \in [1..n -> FileLines] BY <2>2 DEF Function
  <2> QED BY <2>1, <2>3
<1> HIDE DEF FileLines
<1>4. gap \in Seq(FileLines)
  <2>1. CASE gap = <<>> BY <2>1
  <2>2. CASE gap = <<Line("gap", FALSE)>> BY <2>2, <1>2 DEF Line
  <2> QED BY <2>1, <2>2
<1>5. file \in Seq(FileLines) BY <1>1, <1>3, <1>4
<1>6. file[i] \in FileLines /\ i \in Nat \ {0} BY <1>5
<1> QED BY <1>6 DEF FileLines, Line

LEMMA InsertedLine ==
  ASSUME NEW file \in Files, NEW patch \in Patches(file), patch.inserted # NoLine
  PROVE  InsertableLine(patch.inserted.line) /\ patch.inserted.slot \in Nat \ {0}
<1>1. patch.inserted.slot \in DOMAIN file
  BY DEF Patches
<1>2. patch.inserted.line \in Insertable(file, patch.inserted.slot)
  BY DEF Patches
<1>3. /\ file[patch.inserted.slot].owner \in {"A", "B", "gap"} /\ patch.inserted.slot \in Nat \ {0}
      /\ file[patch.inserted.slot].blank = (file[patch.inserted.slot].owner = "gap")
  BY <1>1, OwnersOfFile
<1>4. \/ /\ ~ file[patch.inserted.slot].blank
         /\ patch.inserted.line = Line(file[patch.inserted.slot].owner, FALSE)
      \/ patch.inserted.line = [Line("top", FALSE) EXCEPT !.blank = FALSE]
      \/ patch.inserted.line = Line("C", TRUE)
  BY <1>2 DEF Insertable
<1>5. ~ file[patch.inserted.slot].blank => file[patch.inserted.slot].owner \in {"A", "B"}
  BY <1>3
<1> QED BY <1>3, <1>4, <1>5, InsertableForms

ScopeHolds ==
  /\ scopeCase.patch.inserted # NoLine =>
       /\ InsertableLine(scopeCase.patch.inserted.line)
       /\ scopeCase.patch.inserted.slot \in Nat \ {0}
  /\ verdict = "accepted" => Accepts(scopeCase)

\* With nothing deleted above it, the line gets the number after its slot.
LEMMA InPlaceNumber ==
  ASSUME NEW c, InPlace(c), c.patch.inserted.slot \in Nat \ {0}
  PROVE  NumberOfInserted(c) = c.patch.inserted.slot + 1
<1> DEFINE slot == c.patch.inserted.slot
<1>0. slot \in Nat \ {0} OBVIOUS
<1>1. {j \in 1..slot - 1 : Kept(c, j)} = 1..slot - 1 BY DEF InPlace
<1>2. {j \in 1..slot - 1 : Inserts(c, j)} = {} BY DEF Inserts
<1>3. Cardinality(1..slot - 1) = slot - 1 /\ Cardinality({}) = 0
  <2> HIDE DEF slot
  <2>1. slot - 1 \in Int /\ 1 \in Int BY <1>0
  <2> QED BY <1>0, <2>1, FS_Interval, FS_EmptySet
<1>4. NewNumber(c, slot) = slot
  <2>1. NewNumber(c, slot) = 1 + (slot - 1) + 0 BY <1>1, <1>2, <1>3 DEF NewNumber
  <2> HIDE DEF slot
  <2> QED BY <1>0, <2>1
<1>5. Kept(c, slot) BY <1>0 DEF InPlace
<1>6. NumberOfInserted(c) = NewNumber(c, slot) + 1 BY <1>5 DEF NumberOfInserted
<1> QED BY <1>4, <1>6

LEMMA AcceptedLine ==
  ASSUME NEW c, Accepts(c), Refreshes(c) \/ InPlace(c), c.patch.inserted # NoLine,
         InsertableLine(c.patch.inserted.line), c.patch.inserted.slot \in Nat \ {0}
  PROVE  c.patch.inserted.line.owner \in c.symbols \cup c.newSymbols
<1> DEFINE n == NumberOfInserted(c)
           line == c.patch.inserted.line
<1>1. [number |-> n, line |-> line] \in Changed(c)
  BY DEF Changed
<1>3. n \in DOMAIN IndexUsed(c) => IndexUsed(c)[n].owner = line.owner
  <2>1. CASE Refreshes(c)
    <3>1. IndexUsed(c) = NewFile(c) BY <2>1 DEF IndexUsed
    <3> QED BY <3>1 DEF NewFile
  <2>2. CASE ~ Refreshes(c)
    <3>1. IndexUsed(c) = c.file /\ InPlace(c) BY <2>2 DEF IndexUsed
    <3>2. n = c.patch.inserted.slot + 1 BY <3>1, InPlaceNumber
    <3> QED BY <3>1, <3>2 DEF InPlace
  <2> QED BY <2>1, <2>2
<1>4. SymbolsAt(c, n) # {}
  <2>1. ~ line.blank /\ [number |-> n, line |-> line].line = line
        /\ [number |-> n, line |-> line].number = n
    BY DEF InsertableLine
  <2> QED BY <1>1, <2>1 DEF Accepts, UnknownEffects
<1>5. SymbolsAt(c, n) = {line.owner} /\ line.owner # "top"
  BY <1>3, <1>4 DEF SymbolsAt
<1>6. line.owner \in SymbolsAt(c, [number |-> n, line |-> line].number)
  BY <1>5
<1>7. line.owner \in ExistingModified(c) \cup Added(c)
  <2> DEFINE r == [number |-> n, line |-> line]
  <2>1. r \in Changed(c) /\ line.owner \in SymbolsAt(c, r.number) BY <1>1, <1>6
  <2> HIDE DEF r
  <2> QED BY <2>1, ModifiedSymbol
<1> QED BY <1>7 DEF Accepts

LEMMA ScopeStarts == PSInit => ScopeHolds
<1> SUFFICES ASSUME PSInit PROVE ScopeHolds OBVIOUS
<1>1. PICK file \in Files : \E patch \in Patches(file) :
        scopeCase \in [file : {file}, patch : {patch}, tool : {"apply_patch", "symbol or file"},
                       symbols : {{"A"}, {"B"}, {"A", "B"}}, newSymbols : {{}, {"C"}},
                       other : {"nothing", "modified", "created", "deleted", "renamed"},
                       allowed : SUBSET {"modified", "created", "deleted"}]
  BY DEF PSInit
<1>2. scopeCase.patch \in Patches(file) BY <1>1
<1> QED BY <1>2, InsertedLine DEF PSInit, ScopeHolds

\* A line that a symbol or file tool inserts and that passes the gate lies in a
\* function the plan approved, or in one it may create, whatever lines the same
\* mutation removes, for files of any length (registry._enforce_worktree_scope);
\* a line of apply_patch does where the index of the old file has it in place.
THEOREM InsertedIsApproved == PSSpec => []InsertedLinesAreApproved
<1>1. ScopeHolds /\ [PSNext]_psVars => ScopeHolds'
  BY DEF ScopeHolds, PSNext, JudgePatch, psVars
<1>2. ScopeHolds => InsertedLinesAreApproved
  BY AcceptedLine DEF ScopeHolds, InsertedLinesAreApproved, Accepted
<1> QED BY ScopeStarts, <1>1, <1>2, PTL DEF PSSpec
=============================================================================
