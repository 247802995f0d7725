-------------------------- MODULE CareerPublication --------------------------
(***************************************************************************)
(* A mission's objective and the public evidence made of its work: the      *)
(* candidate that is reviewed, approved for one exact commit and published  *)
(* (career_forge/service.py and the handlers of interface/api.py).          *)
(*                                                                          *)
(* The handlers are coroutines on one event loop.  They give it up where    *)
(* they await: the request's body, the check of the artifact and the        *)
(* publication; what they read before is old by then.                       *)
(***************************************************************************)
EXTENDS Integers, Sequences, FiniteSets

CONSTANTS
  Requests,       \* the HTTP requests that may be under way
  Commits,        \* the commits the task's branch may stand on
  NoCommit,
  Blob(_),        \* what a commit holds at the artifact's path
  MaxObjectives,  \* bound: objectives created
  MaxMoves        \* bound: moves of the task's commit, failed publications, crashes

ASSUME CPBoundsAssumption == MaxObjectives \in Nat /\ MaxMoves \in Nat
ASSUME NoCommitAssumption == NoCommit \notin Commits

VARIABLES
  objectives,   \* Friday's objectives, by number: their state
  link,         \* mission_objectives: the linked one, 0 for none
  history,      \* mission_objective_history: the superseded ones
  candidate,    \* the public evidence candidate
  commit,       \* the task's final commit, as the repository has it
  claimed,      \* the commit the row of the task's publication was claimed for
  pullRequest,  \* the commit of the pull request on GitHub
  handler,      \* what each request read and waits for
  approvedAs,   \* the commit the owner approved
  moves         \* how often the bounded events happened

cpVars == <<objectives, link, history, candidate, commit, claimed, pullRequest, handler, approvedAs, moves>>

NoRequest == [at |-> "idle", saw |-> 0, commit |-> NoCommit]

CPInit ==
  /\ objectives = << >> /\ link = 0 /\ history = {}
  /\ candidate = [state |-> "none", bound |-> NoCommit, publication |-> "-"]
  /\ commit \in Commits /\ approvedAs = NoCommit /\ claimed = NoCommit /\ pullRequest = NoCommit
  /\ handler = [r \in Requests |-> NoRequest] /\ moves = 0

RequestAt(r, place)    == handler[r].at = place
To(r, place)    == handler' = [handler EXCEPT ![r].at = place]
Answered(r)     == handler' = [handler EXCEPT ![r] = NoRequest]
LinkedSucceeded == link # 0 /\ objectives[link] = "succeeded"

-----------------------------------------------------------------------------
\* The objective handler reads the link, then awaits the body.
ReadLink(r) ==
  /\ RequestAt(r, "idle") /\ Len(objectives) < MaxObjectives
  /\ link # 0 => objectives[link] = "cancelled"
  /\ handler' = [handler EXCEPT ![r] = [NoRequest EXCEPT !.at = "body", !.saw = link]]
  /\ UNCHANGED <<objectives, link, history, candidate, commit, claimed, pullRequest, approvedAs, moves>>

\* It creates and resumes an objective, and links it, or replaces the link it read; what it
\* cannot link it cancels.
LinkObjective(r) ==
  /\ RequestAt(r, "body")
  /\ LET new  == Len(objectives) + 1
         open == IF handler[r].saw = 0 THEN link = 0 ELSE link = handler[r].saw
     IN /\ objectives' = Append(objectives, IF open THEN "active" ELSE "cancelled")
        /\ link' = IF open THEN new ELSE link
        /\ history' = IF open /\ handler[r].saw # 0 THEN history \cup {handler[r].saw} ELSE history
  /\ Answered(r)
  /\ UNCHANGED <<candidate, commit, claimed, pullRequest, approvedAs, moves>>

\* Friday Autonomy ends an objective, or the owner cancels it.
ObjectiveEnds ==
  /\ \E o \in DOMAIN objectives, s \in {"succeeded", "cancelled"} :
       objectives[o] = "active" /\ objectives' = [objectives EXCEPT ![o] = s]
  /\ UNCHANGED <<link, history, candidate, commit, claimed, pullRequest, handler, approvedAs, moves>>

\* create_public_evidence_candidate: qualified when every check passes and evidence exists.
CreateCandidate ==
  /\ candidate.state = "none"
  /\ \E s \in {"qualified", "blocked"} : candidate' = [candidate EXCEPT !.state = s]
  /\ UNCHANGED <<objectives, link, history, commit, claimed, pullRequest, handler, approvedAs, moves>>

\* The owner asks for the plan and sees the commit it names.
ReadPlan(r) ==
  /\ RequestAt(r, "idle") /\ candidate.state \in {"qualified", "approved"} /\ LinkedSucceeded
  /\ candidate.bound \in {NoCommit, commit}
  /\ handler' = [handler EXCEPT ![r] = [NoRequest EXCEPT !.at = "approve", !.commit = commit]]
  /\ UNCHANGED <<objectives, link, history, candidate, commit, claimed, pullRequest, approvedAs, moves>>

\* Approval carries the plan the owner saw: the plan is made again, must be the same, and the
\* candidate is bound to it and approved.
Approve(r) ==
  /\ RequestAt(r, "approve")
  /\ LET same == /\ candidate.state \in {"qualified", "approved"} /\ LinkedSucceeded
                 /\ candidate.bound \in {NoCommit, commit} /\ handler[r].commit = commit
     IN IF same /\ candidate.state = "qualified"
        THEN /\ candidate' = [state |-> "approved", bound |-> commit, publication |-> "ready"]
             /\ approvedAs' = commit
        ELSE UNCHANGED <<candidate, approvedAs>>
  /\ Answered(r)
  /\ UNCHANGED <<objectives, link, history, commit, claimed, pullRequest, moves>>

\* The publish handler: approved for this task, then it awaits the artifact's identity,
AskToPublish(r) ==
  /\ RequestAt(r, "idle") /\ candidate.state = "approved" /\ LinkedSucceeded
  /\ handler' = [handler EXCEPT ![r] = [NoRequest EXCEPT !.at = "identity",
                                                         !.commit = candidate.bound]]
  /\ UNCHANGED <<objectives, link, history, candidate, commit, claimed, pullRequest, approvedAs, moves>>

\* which must be the approved one,
CheckIdentity(r) ==
  /\ RequestAt(r, "identity")
  /\ IF handler[r].commit = commit THEN To(r, "publish") ELSE Answered(r)
  /\ UNCHANGED <<objectives, link, history, candidate, commit, claimed, pullRequest, approvedAs, moves>>

\* Mutant: the gateway is not told which blob to expect.
ExpectedCommit(r) == claimed \in {NoCommit, commit}

\* The gateway reads the task once more.  It compares the blob it was told to expect, and the
\* commit with that of an earlier claim of the task's publication; not with the approved one.
Expected(r) == Blob(commit) = Blob(handler[r].commit) /\ claimed \in {NoCommit, commit}

\* What it does not expect it refuses, and the handler answers without a record.  Otherwise it
\* claims the publication for the commit and the pull request is made, or is there already.
\* git or GitHub may also fail, before the claim, after it, or with the pull request made: then
\* a candidate not published by another request says so.
PublishArtifact(r) ==
  /\ RequestAt(r, "publish")
  /\ \/ /\ ~Expected(r)
        /\ Answered(r) /\ UNCHANGED <<candidate, claimed, pullRequest, moves>>
     \/ /\ Expected(r) /\ claimed' = commit /\ pullRequest' = commit
        /\ To(r, "record") /\ UNCHANGED <<candidate, moves>>
     \/ /\ moves < MaxMoves /\ moves' = moves + 1
        /\ claimed' \in {claimed} \cup {c \in {commit} : Expected(r)}
        /\ pullRequest' \in {pullRequest, claimed'}
        /\ candidate' = (IF candidate.state = "approved"
                         THEN [candidate EXCEPT !.publication = "failed"] ELSE candidate)
        /\ Answered(r)
  /\ UNCHANGED <<objectives, link, history, commit, approvedAs>>

\* record_public_evidence_publication.
RecordPublication(r) ==
  /\ RequestAt(r, "record")
  /\ candidate' = IF candidate.state \in {"approved", "published"}
                  THEN [candidate EXCEPT !.state = "published", !.publication = "published"]
                  ELSE candidate
  /\ Answered(r)
  /\ UNCHANGED <<objectives, link, history, commit, claimed, pullRequest, approvedAs, moves>>

\* The task's commit moves under the candidate.
CommitMoves ==
  /\ moves < MaxMoves /\ moves' = moves + 1
  /\ commit' \in Commits \ {commit}
  /\ UNCHANGED <<objectives, link, history, candidate, claimed, pullRequest, handler, approvedAs>>

\* The process ends with its requests.
ServerEnds ==
  /\ moves < MaxMoves /\ moves' = moves + 1
  /\ handler' = [r \in Requests |-> NoRequest]
  /\ UNCHANGED <<objectives, link, history, candidate, commit, claimed, pullRequest, approvedAs>>

CPNext ==
  \/ ObjectiveEnds \/ CreateCandidate \/ CommitMoves \/ ServerEnds
  \/ \E r \in Requests : \/ ReadLink(r) \/ LinkObjective(r) \/ ReadPlan(r) \/ Approve(r)
                         \/ AskToPublish(r) \/ CheckIdentity(r) \/ PublishArtifact(r)
                         \/ RecordPublication(r)

CPSpec == CPInit /\ [][CPNext]_cpVars
-----------------------------------------------------------------------------
\* Every variable keeps its type: states, commits and objectives that exist.
CPTypeOK ==
  /\ link \in 0..Len(objectives) /\ history \subseteq DOMAIN objectives
  /\ candidate.state \in {"none", "qualified", "blocked", "approved", "published"}
  /\ candidate.bound \in Commits \cup {NoCommit}
  /\ claimed \in Commits \cup {NoCommit} /\ pullRequest \in {NoCommit, claimed}

\* ADR 0041: the artifact that is published is the blob the owner approved, for a mission whose
\* linked objective succeeded, whatever moved while the handlers awaited, and there is a pull
\* request for it before the candidate says so.
PublishedArtifactIsApproved ==
  /\ candidate.state = "published" => pullRequest # NoCommit /\ candidate.bound = approvedAs
  /\ pullRequest # NoCommit => approvedAs # NoCommit /\ Blob(pullRequest) = Blob(approvedAs)

\* Stronger, and not so: that it is the commit the owner approved.  The publish handler compares
\* the commit before it awaits the gateway, and the gateway compares only the blob.
PublishedCommitIsApproved == pullRequest # NoCommit => pullRequest = approvedAs

\* A mission has one running objective: a request that lost the race for the link cancels
\* the objective it made, and a link is only replaced once its objective was cancelled.
OneRunningObjective ==
  /\ \A o \in DOMAIN objectives : objectives[o] # "cancelled" => o = link
  /\ \A o \in history : objectives[o] = "cancelled"
=============================================================================
