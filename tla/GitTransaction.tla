--------------------------- MODULE GitTransaction ---------------------------
(***************************************************************************)
(* How one run of the code agent in its isolated worktree ends             *)
(* (agent/code_agent.py): the test it may have to write first, the check   *)
(* that the worktree still holds the reviewed diff, the commit, or the     *)
(* rollback to the starting commit, and what the task history and the      *)
(* worktree's record are then told.                                        *)
(*                                                                         *)
(* A content is what the tracked and the untracked files hold together.    *)
(* Every command of git is a step of its own, may time out before or after *)
(* it took effect, and may be overtaken by another writer: a process that  *)
(* a command of the validation left behind, or the owner.                  *)
(* The tool loop and the validation are ExecutionLoop's; here they leave   *)
(* a content, and the diff they reviewed.  A direct apply without the tool *)
(* loop is refused by validate_cli_options, so its branch switch and merge *)
(* are never reached.                                                      *)
(***************************************************************************)
EXTENDS Naturals

CONSTANTS Contents,    \* what a worktree may hold, the starting commit's included
          Start,       \* what the starting commit holds
          MaxWrites,   \* bound: writes by somebody else
          MaxTimeouts  \* bound: commands of git that time out

ASSUME GTAssumption == Start \in Contents /\ MaxWrites \in Nat /\ MaxTimeouts \in Nat

VARIABLES
  files,    \* what the worktree holds
  staged,   \* what the index holds
  head,     \* what HEAD of the task branch holds
  final,    \* the locals of main and finalize_agent_run
  told,     \* [task, final, worktree]: the history, and the worktree's record
  option,   \* [auto, keep, tests, tdd]: the command line
  inOrder,  \* the contents whose new files sort after the changed ones
  cancelled,\* cancel_requested of the task
  spent     \* [writes, timeouts]

gtVars == <<files, staged, head, final, told, option, inOrder, cancelled, spent>>

NoContent == "none"
Outcomes == {"none", "review_required", "no_changes", "committed", "rolled_back",
             "failed_preserved"}

\* The gateway's worker passes neither --auto-commit nor --keep-failed-branch.
GTInit ==
  /\ files = Start /\ staged = Start /\ head = Start
  /\ final = [pc |-> "tests", success |-> FALSE, cancelled |-> FALSE,
              reviewed |-> NoContent, commit |-> NoContent, outcome |-> "none"]
  /\ told = [task |-> "executing", final |-> NoContent, worktree |-> "executing"]
  /\ option \in [auto : BOOLEAN, keep : BOOLEAN, tests : BOOLEAN, tdd : BOOLEAN]
  /\ option.tdd => option.tests
  /\ inOrder \in SUBSET (Contents \ {Start})
  /\ cancelled = FALSE /\ spent = [writes |-> 0, timeouts |-> 0]

FinalAt(pc) == final.pc = pc
Git == <<files, staged, head>>
Surroundings == <<option, inOrder, cancelled, spent>>

Dirty == files # head \/ staged # head

\* worktree_diff puts the new files after the changed ones; git diff --cached
\* sorts them all by path.
WorktreeDiff == <<"changed, then new", files>>
StagedDiff == <<IF staged \in inOrder THEN "changed, then new" ELSE "by path", staged>>
ReviewedDiff == <<"changed, then new", final.reviewed>>

-----------------------------------------------------------------------------
(* The run                                                                  *)

\* prepare_generated_test: the generated test is applied, and under --tdd it
\* must fail before anything is implemented.  A rejected patch leaves the
\* worktree as it was, a test that fails to fail does not.
PrepareGeneratedTest ==
  /\ FinalAt("tests")
  /\ IF ~ option.tests THEN files' = files /\ final' = [final EXCEPT !.pc = "execute"]
     ELSE \E written \in Contents, ok \in BOOLEAN :
            /\ files' = written
            /\ ~ ok /\ ~ option.tdd => written = Start
            /\ final' = [final EXCEPT !.pc = IF ok THEN "execute" ELSE "rollback"]
  /\ UNCHANGED <<staged, head, told, Surroundings>>

\* The loop and the validation: they leave a content, and when they passed,
\* the hash of the diff that was reviewed.  A tool may raise instead.
ExecuteAndValidate ==
  /\ FinalAt("execute")
  /\ \E content \in Contents :
       /\ files' = content
       /\ final' \in {[final EXCEPT !.pc = "decide", !.success = TRUE, !.reviewed = content],
                      [final EXCEPT !.pc = "decide"], [final EXCEPT !.pc = "rollback"]}
  /\ UNCHANGED <<staged, head, told, Surroundings>>

DecideCommit ==
        /\ FinalAt("decide")
        /\ final' = [final EXCEPT !.pc = IF final.success /\ ~ cancelled THEN "compare" ELSE "rollback",
                                  !.cancelled = cancelled, !.success = @ /\ ~ cancelled]
        /\ UNCHANGED <<Git, told, Surroundings>>

-----------------------------------------------------------------------------
(* finalize_agent_run                                                       *)

\* A worktree that no longer holds the reviewed diff is rolled back; what
\* main knows of the run's success stays.
CompareWithReviewed ==
  /\ FinalAt("compare")
  /\ final' =
       IF WorktreeDiff # ReviewedDiff THEN [final EXCEPT !.pc = "rollback"]
       ELSE IF ~ option.auto THEN [final EXCEPT !.pc = "record", !.outcome = "review_required"]
       ELSE IF ~ Dirty THEN [final EXCEPT !.pc = "record", !.outcome = "no_changes"]
       ELSE [final EXCEPT !.pc = "stage"]
  /\ UNCHANGED <<Git, told, Surroundings>>

Stage ==
  /\ FinalAt("stage")
  /\ staged' = files /\ final' = [final EXCEPT !.pc = "staged"]
  /\ UNCHANGED <<files, head, told, Surroundings>>

\* The mutants' form: what was staged is what was compared.
TakeStaged ==
  /\ FinalAt("staged")
  /\ staged' = staged /\ final' = [final EXCEPT !.pc = "commit"]
  /\ UNCHANGED <<files, head, told, Surroundings>>

CompareStaged ==
  /\ FinalAt("staged")
  /\ IF StagedDiff = ReviewedDiff
     THEN staged' = staged /\ final' = [final EXCEPT !.pc = "commit"]
     ELSE staged' = head /\ final' = [final EXCEPT !.pc = "rollback"]
  /\ UNCHANGED <<files, head, told, Surroundings>>

\* commit_agent_changes: git commit, without hooks; a refusal rolls back.
Commit ==
  /\ FinalAt("commit")
  /\ \/ head' = staged /\ final' = [final EXCEPT !.pc = "verify", !.commit = staged]
     \/ head' = head /\ final' = [final EXCEPT !.pc = "rollback"]
  /\ UNCHANGED <<files, staged, told, Surroundings>>

\* A commit that somebody wrote beside is not reported: main raises.
VerifyCommit ==
  /\ FinalAt("verify")
  /\ final' = IF head = final.commit /\ ~ Dirty
              THEN [final EXCEPT !.pc = "record", !.outcome = "committed"]
              ELSE [final EXCEPT !.pc = "raised"]
  /\ UNCHANGED <<Git, told, Surroundings>>

\* rollback_agent_changes: reset --hard takes the tracked files back.
ResetToStart ==
  /\ FinalAt("rollback") /\ ~ option.keep
  /\ head' = Start /\ staged' = Start
  /\ \/ files' = Start                  \* nothing new was written
     \/ files' = files /\ files # Start \* new files stay
  /\ final' = [final EXCEPT !.pc = "clean"]
  /\ UNCHANGED <<told, Surroundings>>

CleanWorktree ==
  /\ FinalAt("clean")
  /\ files' = head /\ final' = [final EXCEPT !.pc = "record", !.outcome = "rolled_back"]
  /\ UNCHANGED <<staged, head, told, Surroundings>>

\* --keep-failed-branch commits everything instead.
PreserveFailed ==
  /\ FinalAt("rollback") /\ option.keep
  /\ staged' = files /\ head' = files /\ files' = files
  /\ final' = [final EXCEPT !.pc = "record", !.outcome = "failed_preserved"]
  /\ UNCHANGED <<told, Surroundings>>

\* A command of git times out (run_command), before or after it took effect.
\* While it commits that leads to the rollback; anywhere else main raises,
\* and the task stays as the history has it.
GitTimesOut ==
  /\ final.pc \in {"compare", "stage", "staged", "commit", "verify", "rollback", "clean"}
  /\ spent.timeouts < MaxTimeouts /\ spent' = [spent EXCEPT !.timeouts = @ + 1]
  /\ head' \in IF FinalAt("commit") THEN {head, staged} ELSE {head}
  /\ final' = [final EXCEPT !.pc = IF final.pc \in {"stage", "staged", "commit"}
                                   THEN "rollback" ELSE "raised"]
  /\ UNCHANGED <<files, staged, told, option, inOrder, cancelled>>

-----------------------------------------------------------------------------
(* What main tells                                                          *)

\* The history's terminal record follows main's own `success`.
FinalizeRecord ==
  /\ FinalAt("record")
  /\ told' = [told EXCEPT !.task = IF final.success THEN "succeeded"
                                   ELSE IF final.cancelled THEN "cancelled" ELSE "rolled_back",
                          !.final = IF final.outcome = "committed" THEN final.commit ELSE NoContent]
  /\ final' = [final EXCEPT !.pc = "leave"]
  /\ UNCHANGED <<Git, Surroundings>>

\* The worktree becomes ready for promotion, or is removed with its branch.
\* A failed one that was asked to be kept stays.
FinishWorktree ==
  /\ FinalAt("leave")
  /\ told' = [told EXCEPT !.worktree = IF final.success THEN "promotion_ready"
                                       ELSE IF option.keep THEN "executing" ELSE "removed"]
  /\ final' = [final EXCEPT !.pc = "done"]
  /\ UNCHANGED <<Git, Surroundings>>

-----------------------------------------------------------------------------
(* The others                                                               *)

WriteBeside ==
  /\ final.pc \notin {"tests", "execute", "done"} /\ spent.writes < MaxWrites
  /\ spent' = [spent EXCEPT !.writes = @ + 1]
  /\ files' \in Contents \ {files}
  /\ UNCHANGED <<staged, head, final, told, option, inOrder, cancelled>>

AskToCancel ==
  /\ ~ cancelled /\ told.task = "executing" /\ cancelled' = TRUE
  /\ UNCHANGED <<Git, final, told, option, inOrder, spent>>

GTNext ==
  \/ PrepareGeneratedTest \/ ExecuteAndValidate \/ DecideCommit
  \/ CompareWithReviewed \/ Stage \/ CompareStaged \/ Commit \/ VerifyCommit
  \/ ResetToStart \/ CleanWorktree \/ PreserveFailed \/ GitTimesOut
  \/ FinalizeRecord \/ FinishWorktree \/ WriteBeside \/ AskToCancel

GTSpec == GTInit /\ [][GTNext]_gtVars

-----------------------------------------------------------------------------
GTTypeOK ==
  /\ {files, staged, head} \subseteq Contents
  /\ {final.reviewed, final.commit, told.final} \subseteq Contents \cup {NoContent}
  /\ final.outcome \in Outcomes
  /\ told.task \in {"executing", "succeeded", "cancelled", "rolled_back"}
  /\ told.worktree \in {"executing", "promotion_ready", "removed"}

\* What the history names as the final commit of a task holds exactly the
\* content that was reviewed, whoever wrote to the worktree between the
\* review, the staging and the commit (expected_diff_hash).
CommittedIsReviewed == told.final # NoContent => told.final = final.reviewed /\ head = told.final

\* A run that was rolled back leaves the task branch at the starting commit,
\* even when the commit it gave up had taken effect.
RolledBackIsAtStart == final.outcome = "rolled_back" => head = Start /\ told.final = NoContent

\* "exact state identity -> hook-free task-branch commit -> promotion ready":
\* a worktree nobody else wrote to is offered for promotion with the work that
\* was reviewed.
ReadyIsTheReviewedWork ==
  told.worktree = "promotion_ready" /\ spent.writes = 0 => files = final.reviewed
=============================================================================
