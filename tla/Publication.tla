----------------------------- MODULE Publication -----------------------------
(***************************************************************************)
(* A reviewed task becomes a commit of its isolated branch                  *)
(* (gateway/promotion.py) and then a branch and a pull request on GitHub    *)
(* (gateway/publication.py).  The gateway serves publish from its thread    *)
(* pool, so publications of one task run side by side; the row of           *)
(* external_publications is what they share, and a process may die between  *)
(* any two of its calls.  GitHub is modelled from how the transport is used: *)
(* the task branch, the base branch and the pull request of that branch.    *)
(* A call answers, is refused, or fails in transit before or after it took  *)
(* effect; a push is never forced, and GitHub refuses a second pull request *)
(* for the same head.  Someone else may push to the task branch.            *)
(***************************************************************************)
EXTENDS Integers, FiniteSets

CONSTANTS Publishers,   \* the requests to publish that may run side by side
          MaxFaults,    \* bound: calls lost in transit
          MaxPublish    \* bound: requests to publish, retries of the owner included

ASSUME PublicationAssumption == MaxFaults \in Nat /\ MaxPublish \in Nat

VARIABLES
  worktree,   \* the reviewed worktree: "reviewed" | "committed" | "strayed"
  commit,     \* tasks.final_commit: "none" | "task"
  record,     \* the row of external_publications: its state
  remote,     \* [branch, base, pr]: what GitHub holds
  publisher,  \* each request: [pc, seen]
  faults,     \* calls lost so far
  asked,      \* requests made so far
  foreign     \* someone else pushed to the task branch

publicationVars == <<worktree, commit, record, remote, publisher, faults, asked, foreign>>

None == "none"
Resumable == {"pushing", "pr_creating"}
Claimable == {None, "retryable_failure", "reconciliation_required"}

Idle == [pc |-> "idle", seen |-> None]

PublicationInit ==
  /\ worktree = "reviewed" /\ commit = None /\ record = None
  /\ remote \in [branch : {None}, base : {None, "start", "foreign"}, pr : {None}]
  /\ publisher = [p \in Publishers |-> Idle]
  /\ faults = 0 /\ asked = 0 /\ foreign = FALSE

-----------------------------------------------------------------------------
(* Promotion                                                                *)

\* Every check of promote_reviewed_task holds on a reviewed worktree: the
\* diff is the executed, validated and reviewed one.  Then it commits.
CommitReviewed ==
  /\ worktree = "reviewed" /\ commit = None
  /\ worktree' = "committed"
  /\ UNCHANGED <<commit, record, remote, publisher, faults, asked, foreign>>

\* record_reviewed_task_commit binds the commit to the task, once.  A process
\* that died before it leaves a worktree whose HEAD is no longer the starting
\* commit, which the next promotion refuses.
RecordCommit ==
  /\ worktree = "committed" /\ commit = None
  /\ \/ commit' = "task" /\ worktree' = worktree
     \/ commit' = commit /\ worktree' = "strayed"
  /\ UNCHANGED <<record, remote, publisher, faults, asked, foreign>>

-----------------------------------------------------------------------------
(* One publication                                                          *)

At(p, pc) == publisher[p].pc = pc
Goto(p, pc) == publisher' = [publisher EXCEPT ![p].pc = pc]
End(p) == publisher' = [publisher EXCEPT ![p] = Idle]

Publish(p) ==
  /\ At(p, "idle") /\ asked < MaxPublish
  /\ asked' = asked + 1
  /\ IF commit = None
     THEN record' = "blocked" /\ publisher' = publisher
     ELSE record' = record /\ Goto(p, "claim")
  /\ UNCHANGED <<worktree, commit, remote, faults, foreign>>

\* claim_publication takes a row that waits.  One that is pushing or creating
\* the pull request is taken for an interrupted publication and resumed.
Claim(p) ==
  /\ At(p, "claim")
  /\ \/ record \in Claimable /\ record' = "pushing" /\ Goto(p, "read")
     \/ record \in Resumable /\ record' = record /\ Goto(p, "read")
     \/ record \notin Claimable \cup Resumable /\ record' = record /\ End(p)
  /\ UNCHANGED <<worktree, commit, remote, faults, asked, foreign>>

\* The retry policy is spent, or the refusal is not one to retry: the row
\* says so, whatever it said before.
Fail(p, state) == record' = state /\ End(p)

ReadBranch(p) ==
  /\ At(p, "read")
  /\ IF remote.branch \notin {None, "task"}
     THEN Fail(p, "reconciliation_required")
     ELSE /\ publisher' = [publisher EXCEPT ![p] = [pc |-> "base", seen |-> remote.branch]]
          /\ record' = record
  /\ UNCHANGED <<worktree, commit, remote, faults, asked, foreign>>

\* The mutants' form: a missing base is left to GitHub.
ReadBaseOnly(p) ==
  /\ At(p, "base")
  /\ Goto(p, IF publisher[p].seen = "task" THEN "confirm" ELSE "push")
  /\ UNCHANGED <<worktree, commit, record, remote, faults, asked, foreign>>

\* A missing base is made only for an empty repository, from the task's
\* starting commit.
ReadBase(p) ==
  /\ At(p, "base")
  /\ IF remote.base # None
     THEN Goto(p, IF publisher[p].seen = "task" THEN "confirm" ELSE "push") /\ record' = record
     ELSE IF publisher[p].seen # None
          THEN End(p) /\ record' = record
          ELSE Goto(p, "bootstrap") /\ record' = record
  /\ UNCHANGED <<worktree, commit, remote, faults, asked, foreign>>

BootstrapBase(p) ==
  /\ At(p, "bootstrap")
  /\ IF remote.base = None /\ remote.branch = None
     THEN remote' = [remote EXCEPT !.base = "start"] /\ Goto(p, "push") /\ record' = record
     ELSE remote' = remote /\ Fail(p, "reconciliation_required")
  /\ UNCHANGED <<worktree, commit, faults, asked, foreign>>

\* git push of the exact commit; a branch that has moved on refuses it.
Push(p) ==
  /\ At(p, "push")
  /\ IF remote.branch \in {None, "task"}
     THEN remote' = [remote EXCEPT !.branch = "task"] /\ Goto(p, "confirm") /\ record' = record
     ELSE remote' = remote /\ Fail(p, "retryable_failure")
  /\ UNCHANGED <<worktree, commit, faults, asked, foreign>>

ConfirmBranch(p) ==
  /\ At(p, "confirm")
  /\ IF remote.branch = "task"
     THEN record' = "pr_creating" /\ Goto(p, "find")
     ELSE Fail(p, "reconciliation_required")
  /\ UNCHANGED <<worktree, commit, remote, faults, asked, foreign>>

FindPullRequest(p) ==
  /\ At(p, "find")
  /\ publisher' = [publisher EXCEPT ![p].pc = IF remote.pr = None THEN "create" ELSE "match"]
  /\ UNCHANGED <<worktree, commit, record, remote, faults, asked, foreign>>

CreatePullRequest(p) ==
  /\ At(p, "create")
  /\ IF remote.pr = None
     THEN remote' = [remote EXCEPT !.pr = "open"] /\ Goto(p, "match") /\ record' = record
     ELSE remote' = remote /\ Fail(p, "retryable_failure")
  /\ UNCHANGED <<worktree, commit, faults, asked, foreign>>

\* A call lost in transit: a read is repeated, and what is left after the
\* retries fails; a push or a creation may have taken effect all the same.
CallLost(p) ==
  /\ publisher[p].pc \in {"read", "base", "bootstrap", "push", "confirm", "find", "create"}
  /\ faults < MaxFaults /\ faults' = faults + 1
  /\ \/ Fail(p, "retryable_failure") /\ remote' = remote
     \/ At(p, "push") /\ remote.branch = None
        /\ remote' = [remote EXCEPT !.branch = "task"] /\ Fail(p, "retryable_failure")
     \/ At(p, "create") /\ remote.pr = None       \* a creation is looked up again
        /\ remote' = [remote EXCEPT !.pr = "open"] /\ Goto(p, "match") /\ record' = record
  /\ UNCHANGED <<worktree, commit, asked, foreign>>

\* The pull request must report the exact commit of the task.
MatchesPullRequest(r) == r.pr = "open" /\ r.branch = "task"

\* The pull request was read with the head it had then; the row follows.
RecordPublished(p) ==
  /\ At(p, "match")
  /\ IF MatchesPullRequest(remote)
     THEN record' = "published" /\ End(p)
     ELSE Fail(p, "reconciliation_required")
  /\ UNCHANGED <<worktree, commit, remote, faults, asked, foreign>>

PublisherStep(p) ==
  \/ Claim(p) \/ ReadBranch(p) \/ ReadBase(p) \/ BootstrapBase(p) \/ Push(p)
  \/ ConfirmBranch(p) \/ FindPullRequest(p) \/ CreatePullRequest(p) \/ CallLost(p)
  \/ RecordPublished(p)

\* The gateway dies: its publications stop where they are, the row stays.
Crash ==
  /\ \E p \in Publishers : ~ At(p, "idle")
  /\ faults < MaxFaults /\ faults' = faults + 1
  /\ publisher' = [p \in Publishers |-> Idle]
  /\ UNCHANGED <<worktree, commit, record, remote, asked, foreign>>

\* Someone else pushes to the task branch.
ForeignPush ==
  /\ ~ foreign /\ foreign' = TRUE
  /\ remote' = [remote EXCEPT !.branch = "foreign"]
  /\ UNCHANGED <<worktree, commit, record, publisher, faults, asked>>

PublicationNext ==
  \/ CommitReviewed \/ RecordCommit \/ Crash \/ ForeignPush
  \/ \E p \in Publishers : Publish(p) \/ PublisherStep(p)

PublicationSpec == PublicationInit /\ [][PublicationNext]_publicationVars

-----------------------------------------------------------------------------
PublicationTypeOK ==
  /\ record \in Claimable \cup Resumable \cup {"blocked", "published"}
  /\ publisher \in [Publishers -> [pc : {"idle", "claim", "read", "base", "bootstrap", "push",
                                          "confirm", "find", "create", "match"},
                                   seen : {None, "task"}]]

\* A published task is on GitHub: its pull request was made against a base
\* that exists, and its branch shows the reviewed commit unless someone else
\* pushed to it, however many publications ran, were lost or were resumed.
PublishedIsReal ==
  record = "published" =>
    /\ commit = "task" /\ remote.pr = "open" /\ remote.base # None
    /\ remote.branch = "task" \/ foreign

\* What the test of concurrent publications expects of them
\* (test_gateway.py): a publication that was recorded as published stays so.
PublishedStays ==
  [][record = "published" => record' = "published"]_publicationVars
=============================================================================
