---------------------------- MODULE Learning_proofs ----------------------------
(***************************************************************************)
(* What holds of the owner's learning for every number of requests, commits, *)
(* questions, answers and turns: the evidence that is published, the review *)
(* a Stop cancels, the rungs a subject climbs, the answers and verdicts     *)
(* that stand, and the curriculum a replan leaves.                          *)
(***************************************************************************)
EXTENDS CareerAssessment, CareerMastery, CareerPublication, LearningPath, VoiceLearning,
        FiniteSetTheorems, SequenceTheorems, WellFoundedInduction, TLAPS

-----------------------------------------------------------------------------
(* Public evidence.                                                         *)

\* A request that goes on to publish carries the commit the owner approved, and the candidate
\* never gives up its approval: that is what the gateway's comparison of the blobs rests on.  The
\* publication is claimed for one commit, the commit of the pull request.
Publishing(r) == handler[r].at \in {"identity", "publish", "record"}
Reviewed      == candidate.state \in {"approved", "published"}
Holds(c)      == approvedAs # NoCommit /\ Blob(c) = Blob(approvedAs)

EvidenceShape ==
  /\ DOMAIN candidate = {"state", "bound", "publication"}
  /\ DOMAIN handler = Requests
  /\ \A r \in Requests : DOMAIN handler[r] = {"at", "saw", "commit"}

EvidenceHolds ==
  /\ commit \in Commits
  /\ candidate.bound = approvedAs
  /\ Reviewed <=> approvedAs # NoCommit
  /\ \A r \in Requests : Publishing(r) => Reviewed /\ handler[r].commit = approvedAs
  /\ claimed # NoCommit => Holds(claimed)
  /\ pullRequest \in {NoCommit, claimed}
  /\ \A r \in Requests : RequestAt(r, "record") => pullRequest # NoCommit
  /\ candidate.state = "published" => pullRequest # NoCommit

EvidenceInvariant == EvidenceShape /\ EvidenceHolds

\* The handlers preserve what publication relies on: one step per handler.
LEMMA EvidenceStep == EvidenceInvariant /\ [CPNext]_cpVars => EvidenceInvariant'
<1> SUFFICES ASSUME EvidenceInvariant, [CPNext]_cpVars PROVE EvidenceInvariant'
  OBVIOUS
<1> USE NoCommitAssumption DEF EvidenceInvariant, EvidenceShape, EvidenceHolds, Publishing,
        Reviewed, Holds, RequestAt, To, Answered, NoRequest
<1>1. CASE UNCHANGED cpVars
  BY <1>1 DEF cpVars
<1>2. ASSUME ObjectiveEnds PROVE EvidenceInvariant'
  BY <1>2 DEF ObjectiveEnds
<1>3. ASSUME CreateCandidate PROVE EvidenceInvariant'
  BY <1>3 DEF CreateCandidate
<1>4. ASSUME CommitMoves PROVE EvidenceInvariant'
  BY <1>4 DEF CommitMoves
<1>5. ASSUME ServerEnds PROVE EvidenceInvariant'
  BY <1>5 DEF ServerEnds
<1>6. ASSUME NEW r \in Requests, ReadLink(r) PROVE EvidenceInvariant'
  BY <1>6 DEF ReadLink
<1>7. ASSUME NEW r \in Requests, LinkObjective(r) PROVE EvidenceInvariant'
  BY <1>7 DEF LinkObjective
<1>8. ASSUME NEW r \in Requests, ReadPlan(r) PROVE EvidenceInvariant'
  BY <1>8 DEF ReadPlan
<1>9. ASSUME NEW r \in Requests, Approve(r) PROVE EvidenceInvariant'
  <2>1. CASE candidate' = [state |-> "approved", bound |-> commit, publication |-> "ready"]
             /\ approvedAs' = commit /\ candidate.state = "qualified"
    BY <1>9, <2>1 DEF Approve
  <2>2. CASE UNCHANGED <<candidate, approvedAs>>
    BY <1>9, <2>2 DEF Approve
  <2> QED BY <1>9, <2>1, <2>2 DEF Approve
<1>10. ASSUME NEW r \in Requests, AskToPublish(r) PROVE EvidenceInvariant'
  BY <1>10 DEF AskToPublish
<1>11. ASSUME NEW r \in Requests, CheckIdentity(r) PROVE EvidenceInvariant'
  BY <1>11 DEF CheckIdentity
<1>12. ASSUME NEW r \in Requests, PublishArtifact(r) PROVE EvidenceInvariant'
  <2>1. Expected(r) => Holds(commit)
    BY <1>12 DEF Expected, PublishArtifact
  <2>2. CASE ~Expected(r) /\ Answered(r) /\ UNCHANGED <<candidate, claimed, pullRequest, moves>>
    BY <1>12, <2>2 DEF PublishArtifact
  <2>3. CASE /\ Expected(r) /\ claimed' = commit /\ pullRequest' = commit
             /\ To(r, "record") /\ UNCHANGED <<candidate, moves>>
    BY <1>12, <2>1, <2>3 DEF PublishArtifact, Expected
  <2>4. CASE /\ claimed' \in {claimed} \cup {c \in {commit} : Expected(r)}
             /\ pullRequest' \in {pullRequest, claimed'}
             /\ candidate' = (IF candidate.state = "approved"
                              THEN [candidate EXCEPT !.publication = "failed"] ELSE candidate)
             /\ Answered(r)
    <3>1. claimed' # NoCommit => Holds(claimed')
      BY <2>1, <2>4
    <3>2. pullRequest' \in {NoCommit, claimed'} /\ (pullRequest # NoCommit => pullRequest' # NoCommit)
      BY <2>4 DEF Expected
    <3> QED BY <1>12, <2>4, <3>1, <3>2 DEF PublishArtifact
  <2> QED BY <1>12, <2>2, <2>3, <2>4 DEF PublishArtifact
<1>13. ASSUME NEW r \in Requests, RecordPublication(r) PROVE EvidenceInvariant'
  BY <1>13 DEF RecordPublication
<1> QED BY <1>1, <1>2, <1>3, <1>4, <1>5, <1>6, <1>7, <1>8, <1>9, <1>10, <1>11, <1>12, <1>13
        DEF CPNext

\* What is published holds the artifact the owner approved, however the task's commit moved,
\* requests overlapped or the server ended while the publish handler awaited, and there is a
\* pull request before the candidate says so (api.py, gateway/publication.py publish,
\* career_forge/service.py record_public_evidence_publication).
THEOREM EvidenceIsApproved == CPSpec => []PublishedArtifactIsApproved
<1>1. CPInit => EvidenceInvariant
  BY NoCommitAssumption DEF CPInit, EvidenceInvariant, EvidenceShape, EvidenceHolds,
     Publishing, Reviewed, RequestAt, NoRequest
<1>2. EvidenceInvariant => PublishedArtifactIsApproved
  BY DEF EvidenceInvariant, EvidenceHolds, Holds, PublishedArtifactIsApproved
<1> QED BY <1>1, <1>2, EvidenceStep, PTL DEF CPSpec
-----------------------------------------------------------------------------
(* The review that a Stop cancels.                                          *)

AttemptShape(a) == /\ DOMAIN a = {"id", "mission", "question", "text", "verdict", "by"}
                   /\ a.by \in Nat
TurnShape == /\ DOMAIN learningTurn = {"at", "n", "cancelled", "draft", "attempt"}
             /\ learningTurn.n \in Nat /\ stopping \in Nat
             /\ \A a \in lessonAttempts : AttemptShape(a)

\* The marker of a review names the turn that holds it; a Stop that was heard, or has
\* answered, has set the event of that turn; and a verdict bears the number of a turn that
\* was not stopped when it was written, after which the turn has no review to cancel.
ReviewHolds ==
  /\ In("quiet") \/ learningTurn.n # 0
  /\ reviewing = (IF In("review") \/ In("commit") THEN learningTurn.n ELSE 0)
  /\ stopping <= learningTurn.n
  /\ stopping = learningTurn.n => In("quiet") \/ learningTurn.cancelled
  /\ \A s \in stopped : s \in Nat /\ s # 0 /\ s <= learningTurn.n
  /\ learningTurn.n \in stopped => In("quiet") \/ learningTurn.cancelled
  /\ \A a \in lessonAttempts : a.by <= learningTurn.n
  /\ \A a \in lessonAttempts : a.by = learningTurn.n => In("quiet") \/ In("advance") \/ a.by = 0

ReviewInvariant == TurnShape /\ ReviewHolds /\ StoppedReviewDecidesNothing

\* Every turn, Stop and step of the browser preserves it.
LEMMA ReviewStep == ReviewInvariant /\ [VLNext]_vlVars => ReviewInvariant'
<1> SUFFICES ASSUME ReviewInvariant, [VLNext]_vlVars PROVE ReviewInvariant'
  OBVIOUS
<1> USE DEF ReviewInvariant, TurnShape, AttemptShape, ReviewHolds, StoppedReviewDecidesNothing,
            In, Moves, LearningTurnEnds, KeepStops, Quiet
<1>1. CASE UNCHANGED vlVars
  BY <1>1 DEF vlVars
<1>2. ASSUME BeginTurn PROVE ReviewInvariant'
  BY <1>2 DEF BeginTurn, Actions
<1>3. ASSUME CancelledEarly PROVE ReviewInvariant'
  BY <1>3 DEF CancelledEarly, Actions
<1>4. ASSUME Continue PROVE ReviewInvariant'
  BY <1>4 DEF Continue
<1>5. ASSUME SaveSpokenDraft PROVE ReviewInvariant'
  BY <1>5 DEF SaveSpokenDraft
<1>6. ASSUME ReplaceDraft PROVE ReviewInvariant'
  BY <1>6 DEF ReplaceDraft
<1>7. ASSUME DiscardDraft PROVE ReviewInvariant'
  BY <1>7 DEF DiscardDraft
<1>8. ASSUME Confirm PROVE ReviewInvariant'
  BY <1>8 DEF Confirm
<1>9. ASSUME RecordLessonAttempt PROVE ReviewInvariant'
  <2>1. CASE UNCHANGED lessonAttempts
    BY <1>9, <2>1 DEF RecordLessonAttempt
  <2>2. ASSUME NEW d \in learningTurn.draft, lessonAttempts' = lessonAttempts \cup {Inserted(d)},
               learningTurn' = [learningTurn EXCEPT !.at = "resume point", !.attempt = d.id]
        PROVE  ReviewInvariant'
    <3>1. /\ DOMAIN Inserted(d) = {"id", "mission", "question", "text", "verdict", "by"}
          /\ Inserted(d).by = 0
      BY DEF Inserted
    <3>2. \A a \in lessonAttempts' : AttemptShape(a) /\ (a \in lessonAttempts \/ a.by = 0)
      BY <2>2, <3>1
    <3>3. In("record")
      BY <1>9 DEF RecordLessonAttempt
    <3>4. stopping' = stopping /\ stopped' = stopped /\ reviewing' = reviewing
      BY <1>9 DEF RecordLessonAttempt
    <3>5. /\ DOMAIN learningTurn' = {"at", "n", "cancelled", "draft", "attempt"}
          /\ learningTurn'.n = learningTurn.n /\ learningTurn'.cancelled = learningTurn.cancelled
          /\ learningTurn'.at = "resume point"
      BY <2>2
    <3>6. 0 \notin stopped
      OBVIOUS
    <3>7. \A a \in lessonAttempts' : AttemptShape(a)
      BY <3>2
    <3>8. \A a \in lessonAttempts' : a.by \notin stopped
      BY <3>2, <3>6
    <3>9. \A a \in lessonAttempts' : a.by = learningTurn.n => a.by = 0
      BY <3>2, <3>3
    <3>10. \A a \in lessonAttempts' : a.by <= learningTurn.n
      BY <3>2
    <3> QED BY <3>3, <3>4, <3>5, <3>7, <3>8, <3>9, <3>10
  <2> QED BY <1>9, <2>1, <2>2 DEF RecordLessonAttempt
<1>10. ASSUME PointAtQuestion PROVE ReviewInvariant'
  BY <1>10 DEF PointAtQuestion
<1>11. ASSUME ClearDraft PROVE ReviewInvariant'
  BY <1>11 DEF ClearDraft
<1>12. ASSUME Check PROVE ReviewInvariant'
  BY <1>12 DEF Check
<1>13. ASSUME BeginReview PROVE ReviewInvariant'
  BY <1>13 DEF BeginReview
<1>14. ASSUME ReviewEnds PROVE ReviewInvariant'
  BY <1>14 DEF ReviewEnds
<1>15. ASSUME ReviewFails PROVE ReviewInvariant'
  BY <1>15 DEF ReviewFails
<1>16. ASSUME CommitVerdict PROVE ReviewInvariant'
  <2>1. CASE ~NotStopped
    BY <1>16, <2>1 DEF CommitVerdict, NotStopped
  <2>2. CASE NotStopped
    <3>1. PICK verdict \in {"correct", "incorrect"} :
             lessonAttempts' = {IF a.id = learningTurn.attempt /\ a.verdict = "pending"
                                THEN [a EXCEPT !.verdict = verdict, !.by = learningTurn.n] ELSE a :
                                a \in lessonAttempts}
      BY <1>16, <2>2 DEF CommitVerdict
    <3>2. \A a \in lessonAttempts' : /\ AttemptShape(a)
                                      /\ (a.by = learningTurn.n \/ a \in lessonAttempts)
      BY <3>1
    <3>3. /\ In("commit") /\ reviewing' = 0 /\ ~learningTurn.cancelled
          /\ learningTurn' = [learningTurn EXCEPT !.at = "advance"]
          /\ UNCHANGED <<stopping, stopped>>
      BY <1>16, <2>2 DEF CommitVerdict, NotStopped
    <3>4. learningTurn.n \notin stopped /\ stopping # learningTurn.n
      BY <3>3
    <3>5. /\ DOMAIN learningTurn' = {"at", "n", "cancelled", "draft", "attempt"}
          /\ learningTurn'.n = learningTurn.n /\ learningTurn'.at = "advance"
      BY <3>3
    <3> QED BY <3>2, <3>3, <3>4, <3>5
  <2> QED BY <2>1, <2>2
<1>17. ASSUME AdvanceQuestion PROVE ReviewInvariant'
  BY <1>17 DEF AdvanceQuestion
<1>18. ASSUME HearLearningStop PROVE ReviewInvariant'
  BY <1>18 DEF HearLearningStop
<1>19. ASSUME CancelReview PROVE ReviewInvariant'
  BY <1>19 DEF CancelReview
<1>20. ASSUME FinishMission \/ OpenLesson PROVE ReviewInvariant'
  BY <1>20 DEF FinishMission, OpenLesson
<1>21. ASSUME ReviewInBrowser PROVE ReviewInvariant'
  BY <1>21 DEF ReviewInBrowser
<1> QED BY <1>1, <1>2, <1>3, <1>4, <1>5, <1>6, <1>7, <1>8, <1>9, <1>10, <1>11, <1>12, <1>13,
           <1>14, <1>15, <1>16, <1>17, <1>18, <1>19, <1>20, <1>21 DEF VLNext

\* No verdict is ever written by a turn whose review a Stop cancelled, at whichever step of
\* the turn the other thread heard it (voice_learning.py _evaluate_attempt).
THEOREM StoppedReviewIsSilent == VLSpec => []StoppedReviewDecidesNothing
<1>1. VLInit => ReviewInvariant
  BY DEF VLInit, ReviewInvariant, TurnShape, ReviewHolds, StoppedReviewDecidesNothing, In, Quiet
<1>2. ReviewInvariant => StoppedReviewDecidesNothing
  BY DEF ReviewInvariant
<1> QED BY <1>1, <1>2, ReviewStep, PTL DEF VLSpec
-----------------------------------------------------------------------------
(* One rung for one result.                                                 *)

AnswerRow   == [of : Dynamic, question : Questions, helped : BOOLEAN,
                verdict : {"pending", "correct", "incorrect"}]
ClimbRow == [of : Competencies, answer : Nat, climbs : Nat]

\* The evidence of a subject that has climbed, and the answers it may come from.
Climbed(d) == {e \in DOMAIN earned : earned[e].of = d /\ earned[e].climbs = 1}
Right(d)   == {a \in DOMAIN answers : answers[a].of = d /\ answers[a].verdict = "correct"}

MasteryShape ==
  /\ answers \in Seq(AnswerRow) /\ earned \in Seq(ClimbRow)
  /\ DOMAIN mastery = Competencies

\* Evidence of a subject comes from an answer to it that was judged right, and no two
\* pieces from the same one: the replay that is refused.
EvidenceIsOfAnswers ==
  /\ \A e \in DOMAIN earned, d \in Dynamic :
        earned[e].of = d => earned[e].answer \in Right(d)
  /\ \A e, f \in DOMAIN earned :
        earned[e].of \in Dynamic /\ earned[f].of \in Dynamic =>
          (earned[e].answer = earned[f].answer => e = f)

ClimbsOnce == \A e \in DOMAIN earned : earned[e].of \in Dynamic => earned[e].climbs <= 1
RungsAreClimbs == \A d \in Dynamic : mastery[d] = Cardinality(Climbed(d))

MasteryInvariant ==
  /\ MasteryShape /\ EvidenceIsOfAnswers /\ ClimbsOnce /\ RungsAreClimbs
  /\ judging \subseteq DOMAIN earned

LEMMA OneMore ==
  ASSUME NEW S, NEW s \in Seq(S), NEW e \in S
  PROVE  /\ Append(s, e) \in Seq(S) /\ DOMAIN Append(s, e) = DOMAIN s \cup {Len(s) + 1}
         /\ Len(s) + 1 \notin DOMAIN s
         /\ \A i \in DOMAIN s : Append(s, e)[i] = s[i]
         /\ Append(s, e)[Len(s) + 1] = e
BY LenProperties

LEMMA ClimbedIsFinite ==
  ASSUME MasteryShape, NEW d
  PROVE  IsFiniteSet(Climbed(d)) /\ Cardinality(Climbed(d)) \in Nat
<1>1. DOMAIN earned = 1..Len(earned) /\ Len(earned) \in Int BY LenProperties DEF MasteryShape
<1>2. IsFiniteSet(DOMAIN earned) BY <1>1, FS_Interval
<1>3. Climbed(d) \in SUBSET DOMAIN earned BY DEF Climbed
<1> QED BY <1>2, <1>3, FS_Subset, FS_CardinalityType

\* The rungs of a subject are no more than the answers that were right: each piece of
\* evidence that climbed has an answer of its own.
LEMMA ClimbsHaveAnswers ==
  ASSUME MasteryInvariant, NEW d \in Dynamic
  PROVE  Cardinality(Climbed(d)) <= Cardinality(Right(d))
<1> DEFINE f == [e \in Climbed(d) |-> earned[e].answer]
<1>1. \A e \in Climbed(d) : e \in DOMAIN earned /\ earned[e].of = d BY DEF Climbed
<1>2. f \in [Climbed(d) -> Right(d)]
  BY <1>1 DEF MasteryInvariant, EvidenceIsOfAnswers
<1>3. \A e, g \in Climbed(d) : f[e] = f[g] => e = g
  BY <1>1 DEF MasteryInvariant, EvidenceIsOfAnswers
<1>4. f \in Injection(Climbed(d), Right(d)) BY <1>2, <1>3 DEF Injection, IsInjective
<1>5. IsFiniteSet(Right(d))
  <2>1. DOMAIN answers = 1..Len(answers) /\ Len(answers) \in Int
    BY LenProperties DEF MasteryInvariant, MasteryShape
  <2>2. IsFiniteSet(DOMAIN answers) BY <2>1, FS_Interval
  <2>3. Right(d) \in SUBSET DOMAIN answers BY DEF Right
  <2> QED BY <2>2, <2>3, FS_Subset
<1> HIDE DEF f
<1> QED BY <1>4, <1>5, FS_Injection
-----------------------------------------------------------------------------
(* The steps of answers, evidence and rungs.                                *)

\* Nothing but the answers moves, and none that was right is taken back.
LEMMA AnswersMove ==
  ASSUME MasteryInvariant, answers' \in Seq(AnswerRow), \A d \in Dynamic : Right(d) \subseteq Right(d)',
         mastery' = mastery, earned' = earned, judging' \subseteq judging
  PROVE  MasteryInvariant'
<1> USE DEF MasteryInvariant
<1>1. MasteryShape' BY DEF MasteryShape
<1>2. EvidenceIsOfAnswers' BY DEF EvidenceIsOfAnswers
<1>3. ClimbsOnce' BY DEF ClimbsOnce
<1>4. RungsAreClimbs' BY DEF RungsAreClimbs, Climbed
<1> QED BY <1>1, <1>2, <1>3, <1>4

\* New evidence has not climbed, and that of a subject brings an answer of its own.
LEMMA EvidenceAdded ==
  ASSUME MasteryInvariant, answers' \in Seq(AnswerRow), \A d \in Dynamic : Right(d) \subseteq Right(d)',
         NEW row \in ClimbRow, row.climbs = 0, earned' = Append(earned, row),
         row.of \in Dynamic => row.answer \in Right(row.of)',
         row.of \in Dynamic => \A d \in Dynamic : row.answer \notin Right(d),
         mastery' = mastery, judging' \subseteq judging \cup {Len(earned) + 1}
  PROVE  MasteryInvariant'
<1> DEFINE new == Len(earned) + 1
<1> USE DEF MasteryInvariant
<1>1. /\ earned' \in Seq(ClimbRow) /\ DOMAIN earned' = DOMAIN earned \cup {new}
      /\ new \notin DOMAIN earned
      /\ \A e \in DOMAIN earned : earned'[e] = earned[e]
      /\ earned'[new] = row
  BY OneMore DEF MasteryShape
<1> HIDE DEF new
<1>2. MasteryShape' BY <1>1 DEF MasteryShape
<1>3. EvidenceIsOfAnswers'
  <2>1. ASSUME NEW e \in DOMAIN earned', NEW d \in Dynamic, earned'[e].of = d
        PROVE  earned'[e].answer \in Right(d)'
    BY <1>1, <2>1 DEF EvidenceIsOfAnswers
  <2>2. ASSUME NEW e \in DOMAIN earned', NEW f \in DOMAIN earned', earned'[e].of \in Dynamic,
               earned'[f].of \in Dynamic, earned'[e].answer = earned'[f].answer
        PROVE  e = f
    <3>1. CASE e \in DOMAIN earned /\ f \in DOMAIN earned
      BY <1>1, <2>2, <3>1 DEF EvidenceIsOfAnswers
    <3>2. CASE e = new /\ f = new
      BY <3>2
    <3>3. CASE e = new /\ f \in DOMAIN earned
      <4>1. earned[f].answer \in Right(earned[f].of)
        BY <1>1, <2>2, <3>3 DEF EvidenceIsOfAnswers
      <4> QED BY <1>1, <2>2, <3>3, <4>1
    <3>4. CASE f = new /\ e \in DOMAIN earned
      <4>1. earned[e].answer \in Right(earned[e].of)
        BY <1>1, <2>2, <3>4 DEF EvidenceIsOfAnswers
      <4> QED BY <1>1, <2>2, <3>4, <4>1
    <3> QED BY <1>1, <3>1, <3>2, <3>3, <3>4
  <2> QED BY <2>1, <2>2 DEF EvidenceIsOfAnswers
<1>4. ClimbsOnce' BY <1>1 DEF ClimbsOnce
<1>5. \A d \in Dynamic : Climbed(d)' = Climbed(d) BY <1>1 DEF Climbed
<1>6. RungsAreClimbs' BY <1>5 DEF RungsAreClimbs
<1>7. judging' \subseteq DOMAIN earned' BY <1>1 DEF new
<1> QED BY <1>2, <1>3, <1>4, <1>6, <1>7

\* One rung for one climb: evidence of a subject that climbs had not climbed before.
LEMMA EvidenceClimbs ==
  ASSUME MasteryInvariant, NEW e \in DOMAIN earned,
         earned' = [earned EXCEPT ![e].climbs = @ + 1],
         mastery' = [mastery EXCEPT ![earned[e].of] = @ + 1],
         earned[e].of \in Dynamic => earned[e].climbs = 0,
         answers' = answers, judging' \subseteq judging
  PROVE  MasteryInvariant'
<1> DEFINE row == [earned[e] EXCEPT !.climbs = @ + 1]
           c == earned[e].of
<1> USE DEF MasteryInvariant
<1>1. earned \in Seq(ClimbRow) /\ DOMAIN earned = 1..Len(earned) BY LenProperties DEF MasteryShape
<1>2. earned[e] \in ClimbRow BY <1>1, ElementOfSeq
<1>3. row \in ClimbRow /\ row.of = c /\ row.answer = earned[e].answer
      /\ row.climbs = earned[e].climbs + 1
  BY <1>2 DEF ClimbRow
<1>4. earned' = [earned EXCEPT ![e] = row] OBVIOUS
<1>5. c \in Competencies BY <1>2 DEF ClimbRow
<1> HIDE DEF row
<1>6. /\ earned' \in Seq(ClimbRow) /\ DOMAIN earned' = DOMAIN earned
      /\ earned'[e] = row /\ \A f \in DOMAIN earned : f # e => earned'[f] = earned[f]
  <2>1. earned' \in Seq(ClimbRow) BY <1>1, <1>3, <1>4, ExceptSeq
  <2> QED BY <1>4, <2>1
<1>7. \A f \in DOMAIN earned : earned'[f].of = earned[f].of /\ earned'[f].answer = earned[f].answer
  BY <1>3, <1>6
<1>8. MasteryShape' BY <1>6 DEF MasteryShape
<1>9. EvidenceIsOfAnswers' 
  <2>1. \A d : Right(d)' = Right(d) BY DEF Right
  <2> QED BY <1>6, <1>7, <2>1 DEF EvidenceIsOfAnswers
<1>10. ClimbsOnce' BY <1>3, <1>6 DEF ClimbsOnce
<1>11. ASSUME NEW d \in Dynamic PROVE mastery'[d] = Cardinality(Climbed(d)')
  <2>1. CASE d = c
    <3>1. Climbed(d)' = Climbed(d) \cup {e} /\ e \notin Climbed(d)
      BY <1>3, <1>6, <2>1 DEF Climbed
    <3>2. IsFiniteSet(Climbed(d)) BY ClimbedIsFinite
    <3>3. Cardinality(Climbed(d)') = Cardinality(Climbed(d)) + 1
      BY ONLY <3>1, <3>2, FS_AddElement
    <3>4. mastery'[d] = mastery[d] + 1 BY <1>5, <2>1 DEF MasteryShape
    <3> QED BY <3>3, <3>4 DEF RungsAreClimbs
  <2>2. CASE d # c
    <3>1. Climbed(d)' = Climbed(d) BY <1>3, <1>6, <2>2 DEF Climbed
    <3> QED BY <2>2, <3>1 DEF RungsAreClimbs, MasteryShape, Competencies
  <2> QED BY <2>1, <2>2
<1>12. RungsAreClimbs' BY <1>11 DEF RungsAreClimbs
<1> QED BY <1>6, <1>8, <1>9, <1>10, <1>12

LEMMA MasteryStep == MasteryInvariant /\ [CMNext]_cmVars => MasteryInvariant'
<1> SUFFICES ASSUME MasteryInvariant, [CMNext]_cmVars PROVE MasteryInvariant'
  OBVIOUS
<1>0. answers \in Seq(AnswerRow) /\ DOMAIN answers = 1..Len(answers) /\ earned \in Seq(ClimbRow)
  BY LenProperties DEF MasteryInvariant, MasteryShape
<1>1. ASSUME UNCHANGED <<mastery, answers, earned>>, judging' \subseteq judging
      PROVE  MasteryInvariant'
  <2>1. \A d \in Dynamic : Right(d) \subseteq Right(d)' BY <1>1 DEF Right
  <2> QED BY <1>0, <1>1, <2>1, AnswersMove
<1>2. CASE UNCHANGED cmVars
  BY <1>1, <1>2 DEF cmVars
<1>3. ASSUME StartMission \/ StartReinforcement \/ StartProjectMission \/ TouchMission
      PROVE  MasteryInvariant'
  BY <1>1, <1>3 DEF StartMission, StartReinforcement, StartProjectMission, TouchMission
<1>4. ASSUME NEW o \in Openers,
             CloseFinished(o) \/ OpenSession(o) \/ \E d \in Dynamic : LookForSessions(o, d)
      PROVE  MasteryInvariant'
  BY <1>1, <1>4 DEF CloseFinished, OpenSession, LookForSessions
<1>5. ASSUME AnswerQuestion PROVE MasteryInvariant'
  <2>1. PICK q \in Questions, helped \in BOOLEAN :
          answers' = Append(answers, [of |-> Resumed, question |-> q, helped |-> helped,
                                      verdict |-> "pending"])
    BY <1>5 DEF AnswerQuestion
  <2> DEFINE row == [of |-> Resumed, question |-> q, helped |-> helped, verdict |-> "pending"]
  <2>2. row \in AnswerRow BY <1>5 DEF AnswerQuestion, AnswerRow
  <2> HIDE DEF row
  <2>3. /\ answers' \in Seq(AnswerRow) /\ DOMAIN answers \subseteq DOMAIN answers'
        /\ \A i \in DOMAIN answers : answers'[i] = answers[i]
    BY <1>0, <2>1, <2>2, OneMore DEF row
  <2>4. \A d \in Dynamic : Right(d) \subseteq Right(d)' BY <2>3 DEF Right
  <2> QED BY <1>5, <2>3, <2>4, AnswersMove DEF AnswerQuestion
<1>6. ASSUME AssessAnswer PROVE MasteryInvariant'
  <2>1. PICK a \in DOMAIN answers, v \in {"correct", "incorrect"} :
          /\ answers[a].verdict = "pending" /\ answers' = [answers EXCEPT ![a].verdict = v]
          /\ IF v = "correct"
             THEN /\ earned' = Append(earned, [of |-> answers[a].of, answer |-> a, climbs |-> 0])
                  /\ judging' = judging \cup {Len(earned) + 1}
             ELSE UNCHANGED <<earned, judging>>
    BY <1>6 DEF AssessAnswer
  <2> DEFINE row == [answers[a] EXCEPT !.verdict = v]
  <2>2. answers[a] \in AnswerRow BY <1>0, ElementOfSeq
  <2>3. row \in AnswerRow /\ row.of = answers[a].of /\ row.verdict = v BY <2>2 DEF AnswerRow
  <2>4. answers' = [answers EXCEPT ![a] = row] BY <2>1
  <2> HIDE DEF row
  <2>5. /\ answers' \in Seq(AnswerRow) /\ DOMAIN answers' = DOMAIN answers
        /\ answers'[a] = row /\ \A i \in DOMAIN answers : i # a => answers'[i] = answers[i]
    <3>1. answers' \in Seq(AnswerRow) BY <1>0, <2>3, <2>4, ExceptSeq
    <3> QED BY <2>4, <3>1
  <2>6. \A d \in Dynamic : a \notin Right(d) /\ Right(d) \subseteq Right(d)'
    BY <2>1, <2>5 DEF Right
  <2>7. mastery' = mastery BY <1>6 DEF AssessAnswer
  <2>8. CASE v = "correct"
    <3>1. PICK d \in Dynamic : answers[a].of = d BY <2>2 DEF AnswerRow
    <3> DEFINE ev == [of |-> d, answer |-> a, climbs |-> 0]
    <3>2. ev \in ClimbRow /\ ev.climbs = 0 /\ ev.answer = a /\ ev.of = d
      BY <1>0, LenProperties DEF ClimbRow, Competencies
    <3>3. a \in Right(d)' BY <2>3, <2>5, <2>8, <3>1 DEF Right
    <3>4. earned' = Append(earned, ev) /\ judging' = judging \cup {Len(earned) + 1}
      BY <2>1, <2>8, <3>1
    <3> HIDE DEF ev
    <3> QED BY <2>5, <2>6, <2>7, <3>2, <3>3, <3>4, EvidenceAdded
  <2>9. CASE v # "correct"
    BY <2>1, <2>5, <2>6, <2>7, <2>9, AnswersMove
  <2> QED BY <2>8, <2>9
<1>7. ASSUME RecordEvidence PROVE MasteryInvariant'
  <2>1. PICK c \in ActiveSet \cap Graph : earned' = Append(earned, [of |-> c, answer |-> 0, climbs |-> 0])
    BY <1>7 DEF RecordEvidence
  <2> DEFINE ev == [of |-> c, answer |-> 0, climbs |-> 0]
  <2>2. ev \in ClimbRow /\ ev.climbs = 0 /\ ev.of \notin Dynamic
    BY SubjectsAreNew DEF ClimbRow, Competencies, Graph
  <2>3. earned' = Append(earned, ev) BY <2>1
  <2> HIDE DEF ev
  <2>4. \A d \in Dynamic : Right(d) \subseteq Right(d)' BY <1>7 DEF Right, RecordEvidence
  <2>5. answers' = answers /\ mastery' = mastery /\ judging' = judging BY <1>7 DEF RecordEvidence
  <2> QED BY <1>0, <2>2, <2>3, <2>4, <2>5, EvidenceAdded
<1>8. ASSUME AdvanceSubject PROVE MasteryInvariant'
  <2>1. PICK e \in judging :
          /\ IF Climbs(e)
             THEN /\ mastery' = [mastery EXCEPT ![earned[e].of] = @ + 1]
                  /\ earned' = [earned EXCEPT ![e].climbs = @ + 1]
             ELSE UNCHANGED <<mastery, earned>>
          /\ judging' = judging \ {e}
    BY <1>8 DEF AdvanceSubject
  <2>2. e \in DOMAIN earned /\ answers' = answers BY <1>8 DEF MasteryInvariant, AdvanceSubject
  <2>3. CASE Climbs(e)
    <3>1. earned[e].climbs = 0 BY <2>3 DEF Climbs
    <3> QED BY <2>1, <2>2, <2>3, <3>1, EvidenceClimbs
  <2>4. CASE ~Climbs(e)
    BY <1>1, <2>1, <2>2, <2>4
  <2> QED BY <2>3, <2>4
<1>9. ASSUME AdvanceFixed PROVE MasteryInvariant'
  <2>1. PICK e \in DOMAIN earned :
          /\ earned[e].of \in Graph
          /\ mastery' = [mastery EXCEPT ![earned[e].of] = @ + 1]
          /\ earned' = [earned EXCEPT ![e].climbs = @ + 1]
    BY <1>9 DEF AdvanceFixed
  <2>2. earned[e].of \notin Dynamic BY <2>1, SubjectsAreNew DEF Graph
  <2>3. answers' = answers /\ judging' = judging BY <1>9 DEF AdvanceFixed
  <2>4. earned[e].of \in Dynamic => earned[e].climbs = 0 BY <2>2
  <2> QED BY <2>1, <2>3, <2>4, EvidenceClimbs
<1>10. ASSUME ProcessEnds PROVE MasteryInvariant'
  BY <1>1, <1>10 DEF ProcessEnds
<1> QED BY <1>2, <1>3, <1>4, <1>5, <1>6, <1>7, <1>8, <1>9, <1>10 DEF CMNext

\* One result climbs at most one rung, and a subject stands no higher than the answers that
\* were judged right, whatever else opens, closes or climbs meanwhile and wherever the process
\* ends (generalized.py evaluate_attempt and advance_mastery).
THEOREM OneRungForOneResult == CMSpec => []OneRungPerResult
<1>1. CMInit => MasteryInvariant
  <2> SUFFICES ASSUME CMInit PROVE MasteryInvariant
    OBVIOUS
  <2>1. MasteryShape BY EmptySeq DEF CMInit, MasteryShape
  <2>2. DOMAIN earned = {} /\ judging = {} BY DEF CMInit
  <2>3. EvidenceIsOfAnswers /\ ClimbsOnce BY <2>2 DEF EvidenceIsOfAnswers, ClimbsOnce
  <2>4. \A d \in Dynamic : Climbed(d) = {} BY <2>2 DEF Climbed
  <2>5. RungsAreClimbs BY <2>4, FS_EmptySet DEF RungsAreClimbs, CMInit, Competencies
  <2> QED BY <2>1, <2>2, <2>3, <2>5 DEF MasteryInvariant
<1>2. MasteryInvariant => OneRungPerResult
  <2> SUFFICES ASSUME MasteryInvariant PROVE OneRungPerResult
    OBVIOUS
  <2>1. \A d \in Dynamic : mastery[d] <= Cardinality(Right(d))
    BY ClimbsHaveAnswers DEF MasteryInvariant, RungsAreClimbs
  <2> QED BY <2>1 DEF MasteryInvariant, ClimbsOnce, RungsAreClimbs, Climbed, Right, OneRungPerResult
<1> QED BY <1>1, <1>2, MasteryStep, PTL DEF CMSpec

-----------------------------------------------------------------------------
(* Answers and the verdicts about them.                                     *)

IsRows(s) == \E S : s \in Seq(S)

AssessmentShape ==
  /\ IsRows(attempts)
  /\ DOMAIN review = {"state", "answer", "evaluation"}
  /\ DOMAIN work = Workers
  /\ \A w \in Workers : DOMAIN work[w] = {"op", "at", "saw", "fresh", "verdict"}

\* The words of a review that waits for its verdict are there, and so are those that its
\* handler was sent: a verdict cannot take a review without words for its own.
WordsAreBound ==
  /\ review.state = "awaiting_evaluation" => review.answer # 0
  /\ \A w \in Workers : work[w].op = "review" => work[w].saw # 0

AssessmentInvariant == AssessmentShape /\ WordsAreBound

\* What a step may do to the rows of lesson_attempts: add one, or judge what is pending.
VerdictsKept ==
  \A a \in DOMAIN attempts :
    attempts[a].verdict # "pending" => attempts'[a].verdict = attempts[a].verdict

WordsKept ==
  review.state \in {"awaiting_evaluation", "completed"} /\ review'.state # "scheduled"
    => review'.answer = review.answer

LEMMA AnswerIsAdded ==
  ASSUME IsRows(attempts), NEW question, NEW kind, RecordAttempt(question, kind)
  PROVE  IsRows(attempts') /\ VerdictsKept
<1> DEFINE e == [question |-> question, kind |-> kind, verdict |-> "pending",
                 criterion |-> "-", judged |-> 0]
<1>1. PICK S : attempts \in Seq(S) BY DEF IsRows
<1>2. attempts \in Seq(S \cup {e}) BY <1>1, SeqMonotonic
<1>3. attempts' = Append(attempts, e) BY DEF RecordAttempt
<1> HIDE DEF e
<1>4. IsRows(attempts') BY <1>2, <1>3, AppendProperties DEF IsRows
<1>5. \A a \in DOMAIN attempts : attempts'[a] = attempts[a] BY <1>2, <1>3, AppendProperties
<1> QED BY <1>4, <1>5 DEF VerdictsKept

\* Rows that are replaced where they stand.
LEMMA RowsReplaced ==
  ASSUME IsRows(attempts), attempts' = [a \in DOMAIN attempts |-> attempts'[a]]
  PROVE  IsRows(attempts')
<1>1. Len(attempts) \in Nat /\ DOMAIN attempts = 1..Len(attempts) BY DEF IsRows
<1> DEFINE T == {attempts'[a] : a \in 1..Len(attempts)}
<1>2. attempts' \in [1..Len(attempts) -> T] BY <1>1
<1>3. attempts' \in Seq(T) BY <1>1, <1>2
<1> QED BY <1>3 DEF IsRows

LEMMA AnswerIsJudged ==
  ASSUME IsRows(attempts), NEW a, NEW verdict, NEW type, NEW criterion, NEW judged,
         EvaluateAttempt(a, verdict, type, criterion, judged)
  PROVE  IsRows(attempts') /\ VerdictsKept
<1> DEFINE row == [attempts[a] EXCEPT !.verdict = verdict, !.criterion = criterion,
                                      !.judged = judged]
<1>1. /\ attempts' = [attempts EXCEPT ![a] = row]
      /\ attempts[a].verdict = "pending"
  BY DEF EvaluateAttempt, Judgeable
<1> HIDE DEF row
<1>2. PICK S : attempts \in Seq(S) BY DEF IsRows
<1>3. Len(attempts) \in Nat /\ DOMAIN attempts = 1..Len(attempts) BY <1>2
<1>4. attempts' \in [1..Len(attempts) -> S \cup {row}]
  <2>1. attempts \in [1..Len(attempts) -> S] BY <1>2
  <2>2. \A i \in 1..Len(attempts) : attempts'[i] \in S \cup {row} BY <1>1, <2>1
  <2>3. attempts' = [i \in 1..Len(attempts) |-> attempts'[i]] BY <1>1, <2>1
  <2> HIDE DEF row
  <2> QED BY <2>2, <2>3
<1>5. attempts' \in Seq(S \cup {row}) BY <1>3, <1>4
<1>6. \A b \in DOMAIN attempts : b # a => attempts'[b] = attempts[b] BY <1>1
<1> QED BY <1>1, <1>5, <1>6 DEF IsRows, VerdictsKept

LEMMA AnswersRest ==
  ASSUME IsRows(attempts), UNCHANGED attempts
  PROVE  IsRows(attempts') /\ VerdictsKept
BY DEF IsRows, VerdictsKept

LEMMA AssessmentStep ==
  ASSUME AssessmentInvariant, [CANext]_caVars
  PROVE  AssessmentInvariant' /\ VerdictsKept /\ WordsKept
<1> USE DEF AssessmentInvariant, AssessmentShape
<1>0. Loop \in Workers /\ Threads \subseteq Workers BY DEF Workers
\* A handler that moves on, starts with words or leaves.
<1>a. ASSUME NEW w \in Workers, UNCHANGED review, IsRows(attempts'), VerdictsKept,
             NEW r, work' = [work EXCEPT ![w] = r],
             DOMAIN r = {"op", "at", "saw", "fresh", "verdict"}, r.op = "review" => r.saw # 0
      PROVE  AssessmentInvariant' /\ VerdictsKept /\ WordsKept
  BY <1>a DEF WordsAreBound, WordsKept
<1>b. ASSUME UNCHANGED work, UNCHANGED review, IsRows(attempts'), VerdictsKept
      PROVE  AssessmentInvariant' /\ VerdictsKept /\ WordsKept
  BY <1>b DEF WordsAreBound, WordsKept
<1>c. DOMAIN Idle = {"op", "at", "saw", "fresh", "verdict"} /\ Idle.op # "review" BY DEF Idle
<1>d. UNCHANGED attempts => IsRows(attempts') /\ VerdictsKept BY AnswersRest
<1>e. \A w \in Workers : Leaves(w) => work' = [work EXCEPT ![w] = Idle] BY DEF Leaves
<1>f. ASSUME NEW w \in Workers, NEW at, Goto(w, at)
      PROVE  \E r : /\ work' = [work EXCEPT ![w] = r]
                    /\ DOMAIN r = {"op", "at", "saw", "fresh", "verdict"}
                    /\ r.op = work[w].op /\ r.saw = work[w].saw
  <2>1. work' = [work EXCEPT ![w] = [work[w] EXCEPT !.at = at]] BY <1>f DEF Goto
  <2>2. /\ DOMAIN [work[w] EXCEPT !.at = at] = {"op", "at", "saw", "fresh", "verdict"}
        /\ [work[w] EXCEPT !.at = at].op = work[w].op
        /\ [work[w] EXCEPT !.at = at].saw = work[w].saw
    OBVIOUS
  <2> QED BY <2>1, <2>2
\* Steps that leave or go on, with the answers as they are or judged.
<1>g. ASSUME NEW w \in Workers, UNCHANGED review, IsRows(attempts'), VerdictsKept,
             Leaves(w) \/ \E at : Goto(w, at)
      PROVE  AssessmentInvariant' /\ VerdictsKept /\ WordsKept
  <2>1. CASE Leaves(w) BY <1>a, <1>c, <1>e, <1>g, <2>1
  <2>2. CASE \E at : Goto(w, at)
    <3>1. PICK r : /\ work' = [work EXCEPT ![w] = r]
                   /\ DOMAIN r = {"op", "at", "saw", "fresh", "verdict"}
                   /\ r.op = work[w].op /\ r.saw = work[w].saw
      BY <1>f, <2>2
    <3>2. r.op = "review" => r.saw # 0 BY <3>1 DEF WordsAreBound
    <3> QED BY <1>a, <1>g, <3>1, <3>2
  <2> QED BY <1>g, <2>1, <2>2
<1>1. CASE UNCHANGED caVars BY <1>1, <1>b, <1>d DEF caVars
<1>2. CASE OnLoop
  <2>1. CASE RecordInterviewAnswer
    <3> DEFINE r == [Idle EXCEPT !.op = "answer", !.at = "phase", !.saw = Len(attempts) + 1]
    <3>1. /\ work' = [work EXCEPT ![Loop] = r] /\ UNCHANGED review
          /\ RecordAttempt(<<"interview", interview.turn>>, "interview")
      BY <2>1 DEF RecordInterviewAnswer, Start
    <3>2. DOMAIN r = {"op", "at", "saw", "fresh", "verdict"} /\ r.op # "review" BY DEF Idle
    <3> HIDE DEF r
    <3> QED BY <1>0, <1>a, <3>1, <3>2, AnswerIsAdded
  <2>2. CASE MoveResumePoint
    <3>1. UNCHANGED <<attempts, review>> /\ (Leaves(Loop) \/ \E at : Goto(Loop, at))
      BY <2>2 DEF MoveResumePoint
    <3> QED BY <1>0, <1>d, <1>g, <3>1
  <2>3. CASE BindInterviewAnswer
    BY <1>0, <1>d, <1>g, <2>3 DEF BindInterviewAnswer
  <2>4. CASE RecordItemAnswer
    <3> DEFINE r == [Idle EXCEPT !.op = "item", !.at = "phase", !.saw = Len(attempts) + 1]
    <3>1. /\ work' = [work EXCEPT ![Loop] = r] /\ UNCHANGED review
          /\ RecordAttempt(<<"interleave", subjects.items>>, "interleave")
      BY <2>4 DEF RecordItemAnswer, Start
    <3>2. DOMAIN r = {"op", "at", "saw", "fresh", "verdict"} /\ r.op # "review" BY DEF Idle
    <3> HIDE DEF r
    <3> QED BY <1>0, <1>a, <3>1, <3>2, AnswerIsAdded
  <2>5. CASE BindItemAnswer BY <1>0, <1>d, <1>g, <2>5 DEF BindItemAnswer
  <2>6. CASE ReadReview
    <3>1. PICK words \in {1, 2} :
            work' = [work EXCEPT ![Loop] = [Idle EXCEPT !.op = "review", !.at = "lease",
                                                        !.saw = words]]
      BY <2>6 DEF ReadReview, Start
    <3> DEFINE r == [Idle EXCEPT !.op = "review", !.at = "lease", !.saw = words]
    <3>2. DOMAIN r = {"op", "at", "saw", "fresh", "verdict"} /\ r.saw # 0 BY DEF Idle
    <3>3. work' = [work EXCEPT ![Loop] = r] BY <3>1
    <3>4. UNCHANGED <<attempts, review>> BY <2>6 DEF ReadReview
    <3> HIDE DEF r
    <3> QED BY <1>0, <1>a, <1>d, <3>2, <3>3, <3>4
  <2>7. CASE BindReviewAnswer
    <3> DEFINE same == review.state = "awaiting_evaluation" /\ review.answer = work[Loop].saw
    <3>1. Is(Loop, "review", "submit") /\ UNCHANGED attempts BY <2>7 DEF BindReviewAnswer
    <3>2. work[Loop].saw # 0 BY <1>0, <3>1 DEF Is, WordsAreBound
    <3>3. CASE same \/ review.state = "delivered"
      <4>1. /\ review' = [review EXCEPT !.state = "awaiting_evaluation",
                                        !.answer = work[Loop].saw]
            /\ Goto(Loop, "model")
        BY <2>7, <3>3 DEF BindReviewAnswer
      <4>2. /\ DOMAIN review' = {"state", "answer", "evaluation"}
            /\ review'.state = "awaiting_evaluation" /\ review'.answer = work[Loop].saw
        BY <4>1
      <4>3. PICK r : /\ work' = [work EXCEPT ![Loop] = r]
                     /\ DOMAIN r = {"op", "at", "saw", "fresh", "verdict"}
                     /\ r.op = work[Loop].op /\ r.saw = work[Loop].saw
        BY <1>0, <1>f, <4>1
      <4>4. AssessmentShape' BY <1>d, <3>1, <4>2, <4>3
      <4>5. WordsAreBound' BY <3>2, <4>2, <4>3 DEF WordsAreBound
      <4>6. WordsKept BY <3>3, <4>2 DEF WordsKept
      <4> QED BY <1>d, <3>1, <4>4, <4>5, <4>6
    <3>4. CASE ~(same \/ review.state = "delivered")
      <4>1. Leaves(Loop) /\ UNCHANGED review BY <2>7, <3>4 DEF BindReviewAnswer
      <4> QED BY <1>0, <1>d, <1>g, <3>1, <4>1
    <3> QED BY <3>3, <3>4
  <2>8. CASE StoreReviewVerdict
    <3> DEFINE judged == [state |-> "completed", answer |-> work[Loop].saw,
                          evaluation |-> work[Loop].verdict]
    <3>1. Leaves(Loop) /\ UNCHANGED attempts BY <2>8 DEF StoreReviewVerdict
    <3>2. \/ UNCHANGED review
          \/ /\ review' = judged /\ review.state \in {"delivered", "awaiting_evaluation"}
             /\ review.answer \in {0, work[Loop].saw}
      BY <2>8 DEF StoreReviewVerdict
    <3>3. CASE UNCHANGED review BY <1>0, <1>d, <1>g, <3>1, <3>3
    <3>4. CASE /\ review' = judged /\ review.state \in {"delivered", "awaiting_evaluation"}
               /\ review.answer \in {0, work[Loop].saw}
      <4>1. AssessmentShape'
        <5>1. DOMAIN review' = {"state", "answer", "evaluation"} BY <3>4
        <5>2. work' = [work EXCEPT ![Loop] = Idle] BY <1>0, <1>e, <3>1
        <5> QED BY <1>c, <1>d, <3>1, <5>1, <5>2
      <4>2. WordsAreBound'
        <5>1. work' = [work EXCEPT ![Loop] = Idle] BY <1>0, <1>e, <3>1
        <5> QED BY <1>c, <3>4, <5>1 DEF WordsAreBound
      <4>3. WordsKept BY <3>4 DEF WordsKept, WordsAreBound
      <4> QED BY <1>d, <3>1, <4>1, <4>2, <4>3
    <3> QED BY <3>2, <3>3, <3>4
  <2>9. CASE SaveDraft BY <1>b, <1>d, <2>9 DEF SaveDraft
  <2>10. CASE ReadCodeQuestion
    <3> DEFINE r == [Idle EXCEPT !.op = "code", !.at = "lease"]
    <3>1. work' = [work EXCEPT ![Loop] = r] /\ UNCHANGED <<attempts, review>>
      BY <2>10 DEF ReadCodeQuestion, Start
    <3>2. DOMAIN r = {"op", "at", "saw", "fresh", "verdict"} /\ r.op # "review" BY DEF Idle
    <3> HIDE DEF r
    <3> QED BY <1>0, <1>a, <1>d, <3>1, <3>2
  <2>11. CASE TakeCodeAnswer
    <3>1. Is(Loop, "code", "look") /\ UNCHANGED review BY <2>11 DEF TakeCodeAnswer
    <3>2. \E at, saw : work' = [work EXCEPT ![Loop] = [work[Loop] EXCEPT !.at = at, !.saw = saw]]
      <4>1. \/ \E a \in PendingTo(resumeQuestion) :
                  work' = [work EXCEPT ![Loop] = [work[Loop] EXCEPT !.at = "ask", !.saw = a]]
            \/ work' = [work EXCEPT ![Loop] = [work[Loop] EXCEPT !.at = "phase",
                                                                !.saw = Len(attempts) + 1]]
        BY <2>11 DEF TakeCodeAnswer
      <4> QED BY <4>1
    <3>3. PICK at, saw : work' = [work EXCEPT ![Loop] = [work[Loop] EXCEPT !.at = at, !.saw = saw]]
      BY <3>2
    <3> DEFINE r == [work[Loop] EXCEPT !.at = at, !.saw = saw]
    <3>4. DOMAIN r = {"op", "at", "saw", "fresh", "verdict"} /\ r.op # "review"
      BY <1>0, <3>1 DEF Is
    <3>5. IsRows(attempts') /\ VerdictsKept
      BY <2>11, AnswerIsAdded, AnswersRest DEF TakeCodeAnswer
    <3>6. work' = [work EXCEPT ![Loop] = r] BY <3>3
    <3> HIDE DEF r
    <3> QED BY <1>0, <1>a, <3>1, <3>4, <3>5, <3>6
  <2>12. CASE StoreCodeVerdict
    <3>1. UNCHANGED review /\ Leaves(Loop) BY <2>12 DEF StoreCodeVerdict
    <3>2. IsRows(attempts') /\ VerdictsKept
      BY <2>12, AnswerIsJudged, AnswersRest DEF StoreCodeVerdict
    <3> QED BY <1>0, <1>g, <3>1, <3>2
  <2>13. CASE CompleteMission BY <1>b, <1>d, <2>13 DEF CompleteMission
  <2> QED BY <1>2, <2>1, <2>2, <2>3, <2>4, <2>5, <2>6, <2>7, <2>8, <2>9, <2>10, <2>11, <2>12,
          <2>13 DEF OnLoop
<1>3. CASE OnThreads
  <2>1. CASE StartInterview BY <1>b, <1>d, <2>1 DEF StartInterview
  <2>2. CASE PrepareItem BY <1>b, <1>d, <2>2 DEF PrepareItem
  <2>3. CASE DeliverReview
    <3>1. /\ review' = [review EXCEPT !.state = "delivered"] /\ review.state = "scheduled"
          /\ UNCHANGED <<work, attempts>>
      BY <2>3 DEF DeliverReview
    <3>2. DOMAIN review' = {"state", "answer", "evaluation"} /\ review'.state = "delivered"
      BY <3>1
    <3> QED BY <1>d, <3>1, <3>2 DEF WordsAreBound, WordsKept
  <2>4. CASE AskAboutCode
    <3> DEFINE old == IF resumeQuestion[1] = "code" THEN PendingTo(resumeQuestion) ELSE {}
    <3>1. /\ attempts' = [a \in DOMAIN attempts |->
                            IF a \in old
                            THEN [attempts[a] EXCEPT !.verdict = "uncertain", !.criterion = "code",
                                                     !.judged = a]
                            ELSE attempts[a]]
          /\ UNCHANGED <<work, review>>
      BY <2>4 DEF AskAboutCode
    <3>2. \A a \in old : attempts[a].verdict = "pending" BY DEF PendingTo
    <3> HIDE DEF old
    <3>3. \A a \in DOMAIN attempts : a \notin old => attempts'[a] = attempts[a] BY <3>1
    <3>4. VerdictsKept BY <3>2, <3>3 DEF VerdictsKept
    <3>5. IsRows(attempts') BY <3>1, RowsReplaced
    <3> QED BY <1>b, <3>1, <3>4, <3>5
  <2>5. ASSUME NEW t \in Threads,
               \/ ReadInterview(t) \/ LookAtInterview(t) \/ StoreInterviewVerdict(t)
               \/ AdvanceInterview(t) \/ ReadItem(t) \/ StoreItemVerdict(t) \/ RecordTransfer(t)
               \/ RenewReview(t) \/ CompleteItem(t)
        PROVE  AssessmentInvariant' /\ VerdictsKept /\ WordsKept
    <3>0. t \in Workers BY <1>0
    <3>1. CASE ReadInterview(t)
      <4> DEFINE r == [Idle EXCEPT !.op = "interview", !.at = "lease", !.saw = interview.current,
                                   !.fresh = attempts[interview.current].verdict = "pending",
                                   !.verdict = attempts[interview.current].verdict]
      <4>1. work' = [work EXCEPT ![t] = r] /\ UNCHANGED <<attempts, review>>
        BY <3>1 DEF ReadInterview, Start
      <4>2. DOMAIN r = {"op", "at", "saw", "fresh", "verdict"} /\ r.op # "review" BY DEF Idle
      <4> HIDE DEF r
      <4> QED BY <1>a, <1>d, <3>0, <4>1, <4>2
    <3>2. CASE LookAtInterview(t)
      <4>1. Is(t, "interview", "look") /\ UNCHANGED <<attempts, review>>
        BY <3>2 DEF LookAtInterview
      <4>2. CASE Leaves(t) \/ \E at : Goto(t, at) BY <1>d, <1>g, <3>0, <4>1, <4>2
      <4>3. CASE work' = [work EXCEPT ![t] = [work[t] EXCEPT !.at = "store",
                                                             !.verdict = "uncertain"]]
        <5> DEFINE r == [work[t] EXCEPT !.at = "store", !.verdict = "uncertain"]
        <5>1. DOMAIN r = {"op", "at", "saw", "fresh", "verdict"} /\ r.op # "review"
          BY <3>0, <4>1 DEF Is
        <5>2. work' = [work EXCEPT ![t] = r] BY <4>3
        <5> HIDE DEF r
        <5> QED BY <1>a, <1>d, <3>0, <4>1, <5>1, <5>2
      <4> QED BY <3>2, <4>2, <4>3 DEF LookAtInterview
    <3>3. CASE StoreInterviewVerdict(t)
      <4>1. UNCHANGED review /\ (Leaves(t) \/ \E at : Goto(t, at))
        BY <3>3 DEF StoreInterviewVerdict
      <4>2. \/ UNCHANGED attempts
            \/ \E a, v, type, c, j : EvaluateAttempt(a, v, type, c, j)
        BY <3>3 DEF StoreInterviewVerdict
      <4>3. IsRows(attempts') /\ VerdictsKept BY <4>2, AnswerIsJudged, AnswersRest
      <4> QED BY <1>g, <3>0, <4>1, <4>3
    <3>4. CASE AdvanceInterview(t) BY <1>d, <1>g, <3>0, <3>4 DEF AdvanceInterview
    <3>5. CASE ReadItem(t)
      <4> DEFINE r == [Idle EXCEPT !.op = "check", !.at = "lease", !.saw = item.attempt]
      <4>1. work' = [work EXCEPT ![t] = r] /\ UNCHANGED <<attempts, review>>
        BY <3>5 DEF ReadItem, Start
      <4>2. DOMAIN r = {"op", "at", "saw", "fresh", "verdict"} /\ r.op # "review" BY DEF Idle
      <4> HIDE DEF r
      <4> QED BY <1>a, <1>d, <3>0, <4>1, <4>2
    <3>6. CASE StoreItemVerdict(t)
      <4>1. UNCHANGED review /\ (Leaves(t) \/ \E at : Goto(t, at))
        BY <3>6 DEF StoreItemVerdict
      <4>2. \/ UNCHANGED attempts
            \/ \E a, v, type, c, j : EvaluateAttempt(a, v, type, c, j)
        BY <3>6 DEF StoreItemVerdict
      <4>3. IsRows(attempts') /\ VerdictsKept BY <4>2, AnswerIsJudged, AnswersRest
      <4> QED BY <1>g, <3>0, <4>1, <4>3
    <3>7. CASE RecordTransfer(t) BY <1>d, <1>g, <3>0, <3>7 DEF RecordTransfer
    <3>8. CASE RenewReview(t)
      <4> DEFINE renewed == [state |-> "scheduled", answer |-> 0, evaluation |-> "-"]
      <4>1. Goto(t, "complete") /\ UNCHANGED attempts /\ review' = renewed
        BY <3>8 DEF RenewReview
      <4>2. DOMAIN renewed = {"state", "answer", "evaluation"} /\ renewed.state = "scheduled"
        OBVIOUS
      <4> HIDE DEF renewed
      <4>3. PICK r : /\ work' = [work EXCEPT ![t] = r]
                     /\ DOMAIN r = {"op", "at", "saw", "fresh", "verdict"}
                     /\ r.op = work[t].op /\ r.saw = work[t].saw
        BY <1>f, <3>0, <4>1
      <4>4. AssessmentShape' BY <1>d, <4>1, <4>2, <4>3
      <4>5. WordsAreBound' BY <3>0, <4>1, <4>2, <4>3 DEF WordsAreBound
      <4>6. WordsKept BY <4>1, <4>2 DEF WordsKept
      <4> QED BY <1>d, <4>1, <4>4, <4>5, <4>6
    <3>9. CASE CompleteItem(t) BY <1>d, <1>g, <3>0, <3>9 DEF CompleteItem
    <3> QED BY <2>5, <3>1, <3>2, <3>3, <3>4, <3>5, <3>6, <3>7, <3>8, <3>9
  <2> QED BY <1>3, <2>1, <2>2, <2>3, <2>4, <2>5 DEF OnThreads
<1>4. CASE Leasing
  <2>1. PICK w \in Workers : \E at : TakeLease(w, at) BY <1>4 DEF Leasing
  <2>2. UNCHANGED <<attempts, review>> BY <1>4 DEF Leasing
  <2>3. Leaves(w) \/ \E at : Goto(w, at) BY <2>1 DEF TakeLease
  <2> QED BY <1>d, <1>g, <2>2, <2>3
<1>5. CASE Modelling
  <2>1. PICK w \in Workers : ModelAnswers(w, "store") BY <1>5 DEF Modelling
  <2>2. UNCHANGED <<attempts, review>> BY <1>5 DEF Modelling
  <2>3. CASE Leaves(w) BY <1>d, <1>g, <2>2, <2>3
  <2>4. CASE ~Leaves(w)
    <3>1. PICK v \in Verdicts :
            work' = [work EXCEPT ![w] = [work[w] EXCEPT !.at = "store", !.verdict = v]]
      BY <2>1, <2>4 DEF ModelAnswers
    <3> DEFINE r == [work[w] EXCEPT !.at = "store", !.verdict = v]
    <3>2. /\ DOMAIN r = {"op", "at", "saw", "fresh", "verdict"}
          /\ r.op = work[w].op /\ r.saw = work[w].saw
      OBVIOUS
    <3>3. work' = [work EXCEPT ![w] = r] BY <3>1
    <3> HIDE DEF r
    <3>4. r.op = "review" => r.saw # 0 BY <3>2 DEF WordsAreBound
    <3> QED BY <1>a, <1>d, <2>2, <3>2, <3>3, <3>4
  <2> QED BY <2>3, <2>4
<1>6. CASE Crash
  <2>1. work' = [w \in Workers |-> Idle] /\ UNCHANGED <<attempts, review>> BY <1>6 DEF Crash
  <2> QED BY <1>c, <1>d, <2>1 DEF WordsAreBound, WordsKept
<1> QED BY <1>1, <1>2, <1>3, <1>4, <1>5, <1>6 DEF CANext

\* The words a retention review holds and a verdict that was given stand, whichever two handlers
\* meet over one answer, whatever the model said late, and wherever the process ends between the
\* transactions (service.py evaluate_attempt, submit_retention_response,
\* evaluate_retention_review).
THEOREM WhatWasAnsweredStands == CASpec => AnswersAndVerdictsStand
<1>1. CAInit => AssessmentInvariant
  <2> SUFFICES ASSUME CAInit PROVE AssessmentInvariant
    OBVIOUS
  <2>1. IsRows(attempts) BY EmptySeq DEF CAInit, IsRows
  <2> QED BY <2>1 DEF CAInit, AssessmentInvariant, AssessmentShape, WordsAreBound, Idle
<1>2. AssessmentInvariant /\ [CANext]_caVars => AssessmentInvariant' BY AssessmentStep
<1>3. AssessmentInvariant /\ [CANext]_caVars =>
        [/\ (review.state \in {"awaiting_evaluation", "completed"} /\ review'.state # "scheduled")
                => review'.answer = review.answer
         /\ \A a \in DOMAIN attempts :
               attempts[a].verdict # "pending" => attempts'[a].verdict = attempts[a].verdict]_caVars
  BY AssessmentStep DEF VerdictsKept, WordsKept
<1> QED BY <1>1, <1>2, <1>3, PTL DEF CASpec, AnswersAndVerdictsStand

-----------------------------------------------------------------------------
(* Recursion that goes down in rank has a solution; what a path's curricula *)
(* are computed by is of this kind.                                         *)

\* A set of numbers has a least one.
LEMMA LeastOfNats ==
  ASSUME NEW S \in SUBSET Nat, S # {}
  PROVE  \E i \in S : \A j \in S : i <= j
<1> DEFINE R == OpToRel(<, Nat)
<1>1. IsWellFoundedOn(R, Nat) BY NatLessThanWellFounded
<1>2. \A x, y \in Nat : x < y => <<x, y>> \in R BY DEF OpToRel
<1> HIDE DEF R
<1>3. PICK x \in S : \A y \in S : ~ (<<y, x>> \in R) BY <1>1, WFMin
<1>4. \A y \in S : ~(y < x) BY <1>2, <1>3
<1> QED BY <1>3, <1>4

\* Values of V for the members of D, each from the one of the member next below.
GoesDown(D, V, rank, next, base, step) ==
  /\ rank \in [D -> Nat] /\ next \in [D -> D] /\ base \in V /\ step \in [D \X V -> V]
  /\ \A x \in D : rank[x] # 0 => rank[next[x]] < rank[x]

HasValues(D, V, rank, next, base, step) ==
  \E r \in [D -> V] :
    \A x \in D : r[x] = IF rank[x] = 0 THEN base ELSE step[<<x, r[next[x]]>>]

LEMMA RankRecursion ==
  ASSUME NEW D, NEW V, NEW rank, NEW next, NEW base, NEW step,
         GoesDown(D, V, rank, next, base, step)
  PROVE  HasValues(D, V, rank, next, base, step)
<1> USE DEF GoesDown, HasValues
<1> DEFINE Below(n) == {x \in D : rank[x] < n}
           Solves(f, x) == f[x] = IF rank[x] = 0 THEN base ELSE step[<<x, f[next[x]]>>]
           Sol(n) == {f \in [Below(n) -> V] : \A x \in Below(n) : Solves(f, x)}
<1>1. ASSUME NEW m \in Nat, NEW n \in Nat, NEW f \in Sol(m), NEW g \in Sol(n)
      PROVE  \A x \in Below(m) \cap Below(n) : f[x] = g[x]
  <2> DEFINE T == {k \in Nat : \E x \in Below(m) \cap Below(n) : rank[x] = k /\ f[x] # g[x]}
  <2>1. ASSUME T # {} PROVE FALSE
    <3>1. PICK k \in T : \A j \in T : k <= j BY <2>1, LeastOfNats
    <3>2. PICK x \in Below(m) \cap Below(n) : rank[x] = k /\ f[x] # g[x] BY <3>1
    <3>3. Solves(f, x) /\ Solves(g, x) BY <3>2
    <3>4. k # 0 BY <3>2, <3>3
    <3>5. next[x] \in Below(m) \cap Below(n) /\ rank[next[x]] < k
      <4>1. x \in D /\ next[x] \in D /\ rank[x] \in Nat /\ rank[next[x]] \in Nat BY <3>2
      <4> QED BY <3>2, <3>4, <4>1
    <3>6. rank[next[x]] \in Nat BY <3>5
    <3>7. f[next[x]] = g[next[x]] BY <3>1, <3>5, <3>6
    <3> QED BY <3>2, <3>3, <3>4, <3>7
  <2>2. \A x \in Below(m) \cap Below(n) : rank[x] \in Nat OBVIOUS
  <2> QED BY <2>1, <2>2
<1>2. \A n \in Nat : Sol(n) # {}
  <2> DEFINE T == {k \in Nat : Sol(k) = {}}
  <2>1. Sol(0) # {}
    <3>1. Below(0) = {} OBVIOUS
    <3>2. [x \in Below(0) |-> base] \in Sol(0) BY <3>1
    <3> QED BY <3>2
  <2>2. ASSUME NEW k \in Nat, k # 0, Sol(k - 1) # {} PROVE Sol(k) # {}
    <3>4. PICK g : g \in Sol(k - 1) BY <2>2
    <3> DEFINE f == [x \in Below(k) |-> IF rank[x] = 0 THEN base ELSE step[<<x, g[next[x]]>>]]
    <3>5. ASSUME NEW x \in Below(k), rank[x] # 0
          PROVE  next[x] \in Below(k - 1) /\ next[x] \in Below(k)
      <4>1. x \in D /\ next[x] \in D /\ rank[x] \in Nat /\ rank[next[x]] \in Nat OBVIOUS
      <4>2. rank[x] < k /\ rank[next[x]] < rank[x] BY <3>5, <4>1
      <4>3. rank[next[x]] < k - 1 BY <4>1, <4>2
      <4> QED BY <4>1, <4>2, <4>3
    <3>6. g \in [Below(k - 1) -> V] /\ \A x \in Below(k - 1) : Solves(g, x) BY <3>4
    <3>7. \A x \in Below(k) : f[x] \in V
      <4> SUFFICES ASSUME NEW x \in Below(k), rank[x] # 0 PROVE f[x] \in V
        OBVIOUS
      <4>1. g[next[x]] \in V BY <3>5, <3>6
      <4> QED BY <4>1
    <3>8. \A x \in Below(k) : rank[x] # 0 => f[next[x]] = g[next[x]]
      <4> SUFFICES ASSUME NEW x \in Below(k), rank[x] # 0 PROVE f[next[x]] = g[next[x]]
        OBVIOUS
      <4>1. next[x] \in Below(k - 1) /\ next[x] \in Below(k) BY <3>5
      <4>2. Solves(g, next[x]) BY <3>6, <4>1
      <4> QED BY <4>1, <4>2
    <3>9. \A x \in Below(k) : Solves(f, x) BY <3>8
    <3>10. f \in Sol(k) BY <3>7, <3>9
    <3> QED BY <3>10
  <2> HIDE DEF Sol
  <2>3. ASSUME T # {} PROVE FALSE
    <3>1. PICK k \in T : \A j \in T : k <= j BY <2>3, LeastOfNats
    <3>2. k \in Nat /\ Sol(k) = {} BY <3>1
    <3>3. k # 0 BY <2>1, <3>2
    <3>4. k - 1 \in Nat /\ ~(k <= k - 1) BY <3>2, <3>3
    <3>5. k - 1 \notin T BY <3>1, <3>4
    <3>6. Sol(k - 1) # {} BY <3>4, <3>5
    <3> QED BY <2>2, <3>2, <3>3, <3>6
  <2> QED BY <2>3
<1> DEFINE at == [x \in D |-> CHOOSE f : f \in Sol(rank[x] + 1)]
           r == [x \in D |-> at[x][x]]
<1>3. \A x \in D : at[x] \in Sol(rank[x] + 1) /\ x \in Below(rank[x] + 1)
  <2> SUFFICES ASSUME NEW x \in D
               PROVE  at[x] \in Sol(rank[x] + 1) /\ x \in Below(rank[x] + 1)
    OBVIOUS
  <2>1. rank[x] \in Nat /\ rank[x] + 1 \in Nat OBVIOUS
  <2>2. Sol(rank[x] + 1) # {} BY <1>2, <2>1
  <2> HIDE DEF Sol
  <2>3. at[x] = CHOOSE f : f \in Sol(rank[x] + 1) OBVIOUS
  <2>4. \E f : f \in Sol(rank[x] + 1) BY <2>2
  <2>5. at[x] \in Sol(rank[x] + 1) BY <2>3, <2>4
  <2> QED BY <2>1, <2>5
<1> HIDE DEF at
<1>4. \A x \in D : r[x] \in V /\ Solves(r, x)
  <2> SUFFICES ASSUME NEW x \in D PROVE r[x] \in V /\ Solves(r, x)
    OBVIOUS
  <2>1. at[x] \in [Below(rank[x] + 1) -> V] /\ Solves(at[x], x) BY <1>3
  <2>2. r[x] \in V BY <1>3, <2>1
  <2>3. ASSUME rank[x] # 0 PROVE at[x][next[x]] = at[next[x]][next[x]]
    <3>1. next[x] \in D /\ rank[x] \in Nat /\ rank[next[x]] \in Nat /\ rank[next[x]] < rank[x]
      BY <2>3
    <3>2. PICK m \in Nat : m = rank[x] + 1 BY <3>1
    <3>3. PICK n \in Nat : n = rank[next[x]] + 1 BY <3>1
    <3>4. next[x] \in Below(m) \cap Below(n) BY <3>1, <3>2, <3>3
    <3>5. at[x] \in Sol(m) /\ at[next[x]] \in Sol(n) BY <1>3, <3>1, <3>2, <3>3
    <3> QED BY <1>1, <3>4, <3>5
  <2> QED BY <2>1, <2>2, <2>3
<1> QED BY <1>4

-----------------------------------------------------------------------------
(* Before: all the prerequisites of a topic, direct or not.                 *)

Pairs     == AllTopics \X AllTopics
Preds(edges, near) == {e[1] : e \in {f \in edges : f[2] \in near}}

LEMMA TopicsAreFinite ==
  IsFiniteSet(AllTopics) /\ Cardinality(AllTopics) = Topics /\ Topics \in Nat
BY LPAssumption, FS_Interval DEF AllTopics

LEMMA ReachUnfolded ==
  ASSUME NEW edges \in SUBSET Pairs, NEW t
  PROVE  \E r \in [Nat -> SUBSET AllTopics] :
           /\ Before(edges, t) = r[Topics]
           /\ r[0] = Into(edges, t)
           /\ \A n \in Nat : r[n + 1] = r[n] \cup Preds(edges, r[n])
<1> DEFINE Unfolds(r) == r = [n \in Nat |-> IF n = 0 THEN Into(edges, t)
                          ELSE LET near == r[n - 1]
                               IN near \cup {e[1] : e \in {f \in edges : f[2] \in near}}]
           V == SUBSET AllTopics
           rank == [n \in Nat |-> n]
           next == [n \in Nat |-> IF n = 0 THEN 0 ELSE n - 1]
           step == [x \in Nat \X V |-> x[2] \cup Preds(edges, x[2])]
<1>1. Into(edges, t) \in V BY DEF Into, Pairs
<1>2. \A near \in V : near \cup Preds(edges, near) \in V BY DEF Preds, Pairs
<1>3. HasValues(Nat, V, rank, next, Into(edges, t), step)
  <2>1. \A n \in Nat : rank[n] # 0 => rank[next[n]] < rank[n] OBVIOUS
  <2>2. rank \in [Nat -> Nat] /\ next \in [Nat -> Nat] OBVIOUS
  <2>3. step \in [Nat \X V -> V] BY <1>2
  <2> HIDE DEF rank, next, step, V
  <2> QED BY <1>1, <2>1, <2>2, <2>3, RankRecursion DEF GoesDown
<1>4. PICK g \in [Nat -> V] :
         \A n \in Nat : g[n] = IF n = 0 THEN Into(edges, t)
                               ELSE g[n - 1] \cup Preds(edges, g[n - 1])
  <2>1. PICK g \in [Nat -> V] :
         \A n \in Nat : g[n] = IF rank[n] = 0 THEN Into(edges, t) ELSE step[<<n, g[next[n]]>>]
    BY <1>3 DEF HasValues
  <2>2. ASSUME NEW n \in Nat, n # 0
        PROVE  g[n] = g[n - 1] \cup Preds(edges, g[n - 1])
    <3>1. n - 1 \in Nat /\ next[n] = n - 1 /\ g[n - 1] \in V BY <2>2
    <3>2. g[n] = step[<<n, g[n - 1]>>] BY <2>1, <2>2, <3>1
    <3> QED BY <3>1, <3>2
  <2>3. g[0] = Into(edges, t) BY <2>1
  <2> QED BY <2>2, <2>3
<1>5. Unfolds(g)
  <2>1. g = [n \in Nat |-> g[n]] OBVIOUS
  <2> QED BY <1>4, <2>1 DEF Preds
<1>6. PICK r : Unfolds(r) /\ Before(edges, t) = r[Topics]
  <2> DEFINE reach == CHOOSE r : Unfolds(r)
  <2>1. Before(edges, t) = reach[Topics] BY DEF Before
  <2> QED BY <1>5, <2>1
<1>7. r[0] = Into(edges, t) BY <1>6
<1>8. ASSUME NEW n \in Nat PROVE r[n + 1] = r[n] \cup Preds(edges, r[n])
  <2>1. n + 1 \in Nat /\ n + 1 # 0 /\ (n + 1) - 1 = n OBVIOUS
  <2> QED BY <1>6, <2>1 DEF Preds
<1>9. \A n \in Nat : r[n] \in V
  <2> DEFINE T == {k \in Nat : r[k] \notin V}
  <2>1. ASSUME T # {} PROVE FALSE
    <3>1. PICK k \in T : \A j \in T : k <= j BY <2>1, LeastOfNats
    <3>2. k # 0 BY <1>1, <1>7, <3>1
    <3>3. k - 1 \in Nat /\ k - 1 \notin T BY <3>1, <3>2
    <3>4. r[k - 1] \in V BY <3>3
    <3>5. r[(k - 1) + 1] \in V BY <1>2, <1>8, <3>3, <3>4
    <3> QED BY <3>1, <3>5
  <2> QED BY <2>1
<1>10. r \in [Nat -> V]
  <2>1. r = [n \in Nat |-> r[n]] BY <1>6
  <2> QED BY <1>9, <2>1
<1> QED BY <1>6, <1>7, <1>8, <1>10

\* What comes before t is the least set that has the direct prerequisites of t and those of its
\* members: a chain of new ones is no longer than there are topics.
Closed(edges, X) == \A e \in edges : e[2] \in X => e[1] \in X

LEMMA BeforeIsLeast ==
  ASSUME NEW edges \in SUBSET Pairs, NEW t
  PROVE  /\ Before(edges, t) \subseteq AllTopics
         /\ Into(edges, t) \subseteq Before(edges, t)
         /\ Closed(edges, Before(edges, t))
         /\ \A X : Into(edges, t) \subseteq X /\ Closed(edges, X) => Before(edges, t) \subseteq X
<1>1. PICK r \in [Nat -> SUBSET AllTopics] :
           /\ Before(edges, t) = r[Topics]
           /\ r[0] = Into(edges, t)
           /\ \A n \in Nat : r[n + 1] = r[n] \cup Preds(edges, r[n])
  BY ReachUnfolded
<1>2. Topics \in Nat BY LPAssumption
<1>3. ASSUME NEW X, Into(edges, t) \subseteq X, Closed(edges, X)
      PROVE  \A n \in Nat : r[n] \subseteq X
  <2> DEFINE T == {k \in Nat : ~(r[k] \subseteq X)}
  <2>1. ASSUME T # {} PROVE FALSE
    <3>1. PICK k \in T : \A j \in T : k <= j BY <2>1, LeastOfNats
    <3>2. k # 0 BY <1>1, <1>3, <3>1
    <3>3. k - 1 \in Nat /\ k - 1 \notin T BY <3>1, <3>2
    <3>4. r[k - 1] \subseteq X BY <3>3
    <3>5. Preds(edges, r[k - 1]) \subseteq X BY <1>3, <3>4 DEF Preds, Closed
    <3>6. r[(k - 1) + 1] \subseteq X BY <1>1, <3>3, <3>4, <3>5
    <3> QED BY <3>1, <3>6
  <2> QED BY <2>1
<1>4. \A n \in Nat : Into(edges, t) \subseteq r[n]
  <2> DEFINE T == {k \in Nat : ~(Into(edges, t) \subseteq r[k])}
  <2>1. ASSUME T # {} PROVE FALSE
    <3>1. PICK k \in T : \A j \in T : k <= j BY <2>1, LeastOfNats
    <3>2. k # 0 BY <1>1, <3>1
    <3>3. k - 1 \in Nat /\ k - 1 \notin T BY <3>1, <3>2
    <3>4. Into(edges, t) \subseteq r[(k - 1) + 1] BY <1>1, <3>3
    <3> QED BY <3>1, <3>4
  <2> QED BY <2>1
<1>5. \A n \in Nat : Closed(edges, r[n]) => Closed(edges, r[n + 1])
  <2> SUFFICES ASSUME NEW n \in Nat, Closed(edges, r[n]) PROVE r[n + 1] = r[n]
    OBVIOUS
  <2>1. Preds(edges, r[n]) \subseteq r[n] BY DEF Preds, Closed
  <2> QED BY <1>1, <2>1
<1>6. \A n \in Nat : IsFiniteSet(r[n]) /\ Cardinality(r[n]) \in Nat /\ Cardinality(r[n]) <= Topics
  <2> SUFFICES ASSUME NEW n \in Nat
      PROVE IsFiniteSet(r[n]) /\ Cardinality(r[n]) \in Nat /\ Cardinality(r[n]) <= Topics
    OBVIOUS
  <2>1. r[n] \subseteq AllTopics BY <1>1
  <2>2. IsFiniteSet(r[n]) /\ Cardinality(r[n]) <= Cardinality(AllTopics)
    BY <2>1, TopicsAreFinite, FS_Subset
  <2> QED BY <2>2, TopicsAreFinite, FS_CardinalityType
\* While it is not closed it has grown at every step.
<1>7. \A n \in Nat : Closed(edges, r[n]) \/ Cardinality(r[n]) > n
  <2> DEFINE T == {k \in Nat : ~(Closed(edges, r[k]) \/ Cardinality(r[k]) > k)}
  <2>1. ASSUME T # {} PROVE FALSE
    <3>1. PICK k \in T : \A j \in T : k <= j BY <2>1, LeastOfNats
    <3>2. CASE k = 0
      <4>1. r[0] = {} => Closed(edges, r[0]) BY DEF Closed
      <4>2. r[0] # {} => Cardinality(r[0]) > 0 BY <1>6, FS_EmptySet
      <4> QED BY <3>1, <3>2, <4>1, <4>2
    <3>3. CASE k # 0
      <4>1. PICK n \in Nat : k = n + 1
        <5>1. k - 1 \in Nat /\ k = (k - 1) + 1 BY <3>1, <3>3
        <5> QED BY <5>1
      <4>2. n \notin T BY <3>1, <4>1
      <4>3. ~Closed(edges, r[n]) BY <1>5, <3>1, <4>1
      <4>4. Cardinality(r[n]) > n BY <4>2, <4>3
      <4>5. r[n] \subseteq r[k] /\ r[n] # r[k]
        <5>1. PICK e \in edges : e[2] \in r[n] /\ e[1] \notin r[n] BY <4>3 DEF Closed
        <5>2. e[1] \in r[n + 1] BY <1>1, <5>1 DEF Preds
        <5> QED BY <1>1, <4>1, <5>1, <5>2
      <4>6. Cardinality(r[n]) < Cardinality(r[k])
        BY <1>6, <4>5, <3>1, FS_Subset, FS_CardinalityType
      <4>7. Cardinality(r[k]) > k BY <1>6, <3>1, <4>1, <4>4, <4>6
      <4> QED BY <3>1, <4>7
    <3> QED BY <3>2, <3>3
  <2> QED BY <2>1
<1>8. Closed(edges, r[Topics]) BY <1>2, <1>6, <1>7
<1> QED BY <1>1, <1>2, <1>3, <1>4, <1>8

-----------------------------------------------------------------------------
(* Bridge and Without: taking topics out one by one.                        *)

Any(S) == CHOOSE t \in S : TRUE

LEMMA BridgeIsEdges ==
  ASSUME NEW E \in SUBSET Pairs, NEW u
  PROVE  Bridge(u, E) \in SUBSET Pairs
BY DEF Bridge, Into, From, Pairs

\* The edges after each of the topics is gone, and what is left at the end.
TakesOut(p, gone) == p.edges \in SUBSET Pairs /\ gone \in SUBSET AllTopics

OneByOne(p, gone) ==
  \E g \in [SUBSET gone -> SUBSET Pairs] :
    /\ Without(p, gone) = [p EXCEPT !.topics = @ \ gone, !.edges = g[gone]]
    /\ g[{}] = p.edges
    /\ \A s \in SUBSET gone : s # {} => g[s] = Bridge(Any(s), g[s \ {Any(s)}])

LEMMA BridgesUnfolded ==
  ASSUME NEW p, NEW gone, TakesOut(p, gone)
  PROVE  OneByOne(p, gone)
<1> USE DEF TakesOut, OneByOne
<1> DEFINE D == SUBSET gone
           V == SUBSET Pairs
           rank == [s \in D |-> Cardinality(s)]
           next == [s \in D |-> s \ {Any(s)}]
           step == [x \in D \X V |-> Bridge(Any(x[1]), x[2])]
           Unfolds(r) == r = [s \in SUBSET gone |-> IF s = {} THEN p.edges
                                ELSE LET x == CHOOSE t \in s : TRUE IN Bridge(x, r[s \ {x}])]
<1>1. \A s \in D : IsFiniteSet(s) BY TopicsAreFinite, FS_Subset
<1>2. \A s \in D : Cardinality(s) \in Nat /\ (Cardinality(s) = 0 <=> s = {})
  BY <1>1, FS_CardinalityType, FS_EmptySet
<1>3. \A s \in D : s # {} => Any(s) \in s /\ Cardinality(s \ {Any(s)}) < Cardinality(s)
  <2> SUFFICES ASSUME NEW s \in D, s # {}
               PROVE  Any(s) \in s /\ Cardinality(s \ {Any(s)}) < Cardinality(s)
    OBVIOUS
  <2>1. Any(s) \in s BY DEF Any
  <2>2. Cardinality(s \ {Any(s)}) = Cardinality(s) - 1 BY <1>1, <2>1, FS_RemoveElement
  <2> QED BY <1>2, <2>1, <2>2
<1>4. HasValues(D, V, rank, next, p.edges, step)
  <2>1. \A s \in D : rank[s] # 0 => rank[next[s]] < rank[s] BY <1>2, <1>3
  <2>2. rank \in [D -> Nat] /\ next \in [D -> D] BY <1>2
  <2>3. step \in [D \X V -> V]
    <3> SUFFICES ASSUME NEW x \in D \X V PROVE Bridge(Any(x[1]), x[2]) \in V
      OBVIOUS
    <3> QED BY BridgeIsEdges
  <2>4. p.edges \in V OBVIOUS
  <2> HIDE DEF D, V, rank, next, step
  <2> QED BY <2>1, <2>2, <2>3, <2>4, RankRecursion DEF GoesDown
<1>5. PICK r \in [D -> V] :
         \A s \in D : r[s] = IF rank[s] = 0 THEN p.edges ELSE step[<<s, r[next[s]]>>]
  BY <1>4 DEF HasValues
<1>6. \A s \in D : r[s] = IF s = {} THEN p.edges ELSE Bridge(Any(s), r[s \ {Any(s)}])
  <2> SUFFICES ASSUME NEW s \in D
               PROVE  r[s] = IF s = {} THEN p.edges ELSE Bridge(Any(s), r[s \ {Any(s)}])
    OBVIOUS
  <2>1. s \ {Any(s)} \in D /\ r[s \ {Any(s)}] \in V OBVIOUS
  <2>2. step[<<s, r[s \ {Any(s)}]>>] = Bridge(Any(s), r[s \ {Any(s)}]) BY <2>1
  <2> QED BY <1>2, <1>5, <2>2
<1>7. Unfolds(r)
  <2>1. r = [s \in SUBSET gone |-> r[s]] OBVIOUS
  <2> QED BY <1>6, <2>1 DEF Any
<1>8. PICK g : Unfolds(g) /\ MapThenFoldSet(Bridge, p.edges, LAMBDA t : t,
                               LAMBDA S : CHOOSE t \in S : TRUE, gone) = g[gone]
  <2> DEFINE iter == CHOOSE f : Unfolds(f)
  <2>1. MapThenFoldSet(Bridge, p.edges, LAMBDA t : t, LAMBDA S : CHOOSE t \in S : TRUE, gone)
          = iter[gone]
    BY DEF MapThenFoldSet
  <2> QED BY <1>7, <2>1
<1>9. \A s \in D : s # {} => g[s] = Bridge(Any(s), g[s \ {Any(s)}])
  BY <1>8 DEF Any
<1>10. g[{}] = p.edges BY <1>8
<1>11. \A s \in D : g[s] \in V
  <2> DEFINE T == {k \in Nat : \E s \in D : Cardinality(s) = k /\ g[s] \notin V}
  <2>1. ASSUME T # {} PROVE FALSE
    <3>1. PICK k \in T : \A j \in T : k <= j BY <2>1, LeastOfNats
    <3>2. PICK s \in D : Cardinality(s) = k /\ g[s] \notin V BY <3>1
    <3>3. s # {} BY <1>10, <3>2
    <3>4. s \ {Any(s)} \in D OBVIOUS
    <3>5. Cardinality(s \ {Any(s)}) \in Nat /\ Cardinality(s \ {Any(s)}) < k
      BY <1>2, <1>3, <3>2, <3>3, <3>4
    <3>6. PICK n \in Nat : n = Cardinality(s \ {Any(s)}) /\ n < k BY <3>5
    <3>7. g[s \ {Any(s)}] \in V
      <4>1. k \in Nat /\ ~(k <= n) BY <3>1, <3>6
      <4>2. n \notin T BY <3>1, <4>1
      <4> QED BY <3>4, <3>6, <4>2
    <3>8. g[s] = Bridge(Any(s), g[s \ {Any(s)}]) BY <1>9, <3>3
    <3>9. \A E \in V : \A u : Bridge(u, E) \in V BY BridgeIsEdges
    <3> HIDE DEF V
    <3> QED BY <3>2, <3>7, <3>8, <3>9
  <2> QED BY <1>2, <2>1
<1>12. g \in [SUBSET gone -> SUBSET Pairs]
  <2>1. g = [s \in SUBSET gone |-> g[s]] BY <1>8
  <2> QED BY <1>11, <2>1
<1>13. Without(p, gone) = [p EXCEPT !.topics = @ \ gone, !.edges = g[gone]]
  BY <1>8 DEF Without
<1> QED BY <1>9, <1>10, <1>12, <1>13

\* A graph over some topics: pairs of two different ones, and none is before itself.
Ordered(E, T) ==
  /\ E \in SUBSET Pairs
  /\ \A e \in E : e[1] \in T /\ e[2] \in T /\ e[1] # e[2]
  /\ \A t \in AllTopics : t \notin Before(E, t)

LEMMA NothingBefore ==
  ASSUME NEW E \in SUBSET Pairs, NEW t, \A e \in E : e[2] # t
  PROVE  Before(E, t) = {}
<1>1. Into(E, t) \subseteq {} /\ Closed(E, {}) BY DEF Into, Closed
<1> QED BY <1>1, BeforeIsLeast

\* The edges after a topic is taken out.
LEMMA BridgeEdges ==
  ASSUME NEW E \in SUBSET Pairs, NEW u, \A e \in E : e[1] # e[2]
  PROVE  /\ \A e \in Bridge(u, E) :
              /\ e \in Pairs /\ e[1] # e[2] /\ e[1] # u /\ e[2] # u
              /\ \/ e \in E
                 \/ \E a, b \in E : a[1] = e[1] /\ a[2] = u /\ b[1] = u /\ b[2] = e[2]
         /\ \A e \in E : e[1] # u /\ e[2] # u => e \in Bridge(u, E)
         /\ \A a, b \in E : a[2] = u /\ b[1] = u /\ a[1] # b[2] => <<a[1], b[2]>> \in Bridge(u, E)
<1>1. ASSUME NEW e \in Bridge(u, E), e \notin E
      PROVE  /\ e \in Pairs /\ e[1] # e[2]
             /\ \E a, b \in E : a[1] = e[1] /\ a[2] = u /\ b[1] = u /\ b[2] = e[2]
  <2>1. e \in Into(E, u) \X From(E, u) /\ e[1] # e[2] BY <1>1 DEF Bridge
  <2>2. PICK a \in E : a[2] = u /\ a[1] = e[1] BY <2>1 DEF Into
  <2>3. PICK b \in E : b[1] = u /\ b[2] = e[2] BY <2>1 DEF From
  <2>4. e = <<e[1], e[2]>> BY <2>1
  <2>5. e \in Pairs BY <2>2, <2>3, <2>4 DEF Pairs
  <2> QED BY <2>1, <2>2, <2>3, <2>5
<1>2. \A e \in Bridge(u, E) : e \in E => e[1] # u /\ e[2] # u
  <2> SUFFICES ASSUME NEW e \in Bridge(u, E), e \in E PROVE e[1] # u /\ e[2] # u
    OBVIOUS
  <2>1. CASE e[1] # u /\ e[2] # u BY <2>1
  <2>2. CASE ~(e[1] # u /\ e[2] # u)
    <3>1. e \in Into(E, u) \X From(E, u) BY <2>2 DEF Bridge
    <3>2. PICK a \in E : a[2] = u /\ a[1] = e[1] BY <3>1 DEF Into
    <3>3. PICK b \in E : b[1] = u /\ b[2] = e[2] BY <3>1 DEF From
    <3> QED BY <3>2, <3>3
  <2> QED BY <2>1, <2>2
<1>3. \A e \in E : e[1] # u /\ e[2] # u => e \in Bridge(u, E) BY DEF Bridge
<1>4. ASSUME NEW a \in E, NEW b \in E, a[2] = u, b[1] = u, a[1] # b[2]
      PROVE  <<a[1], b[2]>> \in Bridge(u, E)
  <2>1. a[1] \in Into(E, u) /\ b[2] \in From(E, u) BY <1>4 DEF Into, From
  <2> QED BY <1>4, <2>1 DEF Bridge
<1>5. ASSUME NEW e \in Bridge(u, E)
      PROVE  /\ e \in Pairs /\ e[1] # e[2] /\ e[1] # u /\ e[2] # u
             /\ \/ e \in E
                \/ \E a, b \in E : a[1] = e[1] /\ a[2] = u /\ b[1] = u /\ b[2] = e[2]
  <2>1. CASE e \in E BY <1>2, <2>1
  <2>2. CASE e \notin E BY <1>1, <2>2
  <2> QED BY <2>1, <2>2
<1> QED BY <1>3, <1>4, <1>5

\* Nothing is reordered by taking a topic out, and no cycle comes of it.
LEMMA BridgeKeepsOrder ==
  ASSUME NEW E, NEW T, Ordered(E, T), NEW u
  PROVE  /\ Ordered(Bridge(u, E), T \ {u})
         /\ \A t \in AllTopics \ {u} : Before(Bridge(u, E), t) = Before(E, t) \ {u}
<1> DEFINE F == Bridge(u, E)
<1>1. E \in SUBSET Pairs /\ F \in SUBSET Pairs BY BridgeIsEdges DEF Ordered
<1>2. /\ \A e \in F : /\ e \in Pairs /\ e[1] # e[2] /\ e[1] # u /\ e[2] # u
                      /\ \/ e \in E
                         \/ \E a, b \in E : a[1] = e[1] /\ a[2] = u /\ b[1] = u /\ b[2] = e[2]
      /\ \A e \in E : e[1] # u /\ e[2] # u => e \in F
      /\ \A a, b \in E : a[2] = u /\ b[1] = u /\ a[1] # b[2] => <<a[1], b[2]>> \in F
  BY <1>1, BridgeEdges DEF Ordered
<1> HIDE DEF F
<1>3. \A t : /\ Into(E, t) \subseteq Before(E, t) /\ Closed(E, Before(E, t))
             /\ Into(F, t) \subseteq Before(F, t) /\ Closed(F, Before(F, t))
  BY <1>1, BeforeIsLeast
<1>4. \A a, b \in E : a[2] = u /\ b[1] = u => <<a[1], b[2]>> \in F
  <2> SUFFICES ASSUME NEW a \in E, NEW b \in E, a[2] = u, b[1] = u
               PROVE  a[1] # b[2]
    BY <1>2
  <2>1. u \in Before(E, b[2]) BY <1>3 DEF Into
  <2>2. a[1] \in Before(E, b[2]) BY <1>3, <2>1 DEF Closed
  <2>3. b[2] \in AllTopics BY <1>1 DEF Pairs
  <2> QED BY <2>2, <2>3 DEF Ordered
<1>5. \A t : Before(F, t) \subseteq Before(E, t) \ {u}
  <2> SUFFICES ASSUME NEW t
               PROVE  /\ Into(F, t) \subseteq Before(E, t) \ {u}
                      /\ Closed(F, Before(E, t) \ {u})
    BY <1>1, BeforeIsLeast
  <2>1. ASSUME NEW e \in F, e[2] = t \/ e[2] \in Before(E, t)
        PROVE  e[1] \in Before(E, t) \ {u}
    <3>1. \A b \in E : b[2] = t \/ b[2] \in Before(E, t) => b[1] \in Before(E, t)
      BY <1>3 DEF Into, Closed
    <3>2. CASE e \in E BY <1>2, <2>1, <3>1, <3>2
    <3>3. CASE \E a, b \in E : a[1] = e[1] /\ a[2] = u /\ b[1] = u /\ b[2] = e[2]
      <4>1. PICK a \in E, b \in E : a[1] = e[1] /\ a[2] = u /\ b[1] = u /\ b[2] = e[2] BY <3>3
      <4>2. u \in Before(E, t) BY <2>1, <3>1, <4>1
      <4>3. a[1] \in Before(E, t) BY <3>1, <4>1, <4>2
      <4> QED BY <1>2, <4>1, <4>3
    <3> QED BY <1>2, <3>2, <3>3
  <2> QED BY <2>1 DEF Into, Closed
<1>6. \A t : t # u => Before(E, t) \ {u} \subseteq Before(F, t)
  <2> SUFFICES ASSUME NEW t, t # u PROVE Before(E, t) \ {u} \subseteq Before(F, t)
    OBVIOUS
  <2> DEFINE Y  == Before(F, t)
             On == \E b \in E : b[1] = u /\ (b[2] = t \/ b[2] \in Y)
             Z  == Y \cup {v \in {u} : On}
  <2>1. u \notin Y BY <1>5
  <2>2. \A e \in F : e[2] = t \/ e[2] \in Y => e[1] \in Y BY <1>3 DEF Into, Closed
  <2> HIDE DEF Y
  <2>3. ASSUME NEW e \in E, e[2] = t \/ e[2] \in Y PROVE e[1] \in Z
    <3>1. CASE e[1] = u BY <2>3, <3>1
    <3>2. CASE e[1] # u
      <4>1. e[2] # u BY <2>1, <2>3
      <4>2. e \in F BY <1>2, <3>2, <4>1
      <4> QED BY <2>2, <2>3, <4>2
    <3> QED BY <3>1, <3>2
  <2>4. ASSUME NEW e \in E, e[2] = u, On PROVE e[1] \in Z
    <3>1. PICK b \in E : b[1] = u /\ (b[2] = t \/ b[2] \in Y) BY <2>4
    <3>2. <<e[1], b[2]>> \in F BY <1>4, <2>4, <3>1
    <3> QED BY <2>2, <3>1, <3>2
  <2>5. Into(E, t) \subseteq Z BY <2>3 DEF Into
  <2>6. Closed(E, Z) BY <2>3, <2>4 DEF Closed
  <2>7. Before(E, t) \subseteq Z BY <1>1, <2>5, <2>6, BeforeIsLeast
  <2> QED BY <2>7 DEF Y
<1>7. \A t \in AllTopics : t \notin Before(F, t) BY <1>5 DEF Ordered
<1>8. \A e \in F : e[1] \in T \ {u} /\ e[2] \in T \ {u} /\ e[1] # e[2]
  BY <1>2 DEF Ordered
<1>9. Ordered(F, T \ {u}) BY <1>1, <1>7, <1>8 DEF Ordered
<1>10. \A t \in AllTopics \ {u} : Before(F, t) = Before(E, t) \ {u} BY <1>5, <1>6
<1> QED BY <1>9, <1>10 DEF F

LEMMA BridgeKeepsDirect ==
  ASSUME NEW E \in SUBSET Pairs, NEW u, \A e \in E : e[1] # e[2],
         NEW m, m # u, u \notin Into(E, m)
  PROVE  Into(Bridge(u, E), m) = Into(E, m)
<1> DEFINE F == Bridge(u, E)
<1>1. /\ \A e \in F : \/ e \in E
                      \/ \E a, b \in E : a[1] = e[1] /\ a[2] = u /\ b[1] = u /\ b[2] = e[2]
      /\ \A e \in E : e[1] # u /\ e[2] # u => e \in F
  BY BridgeEdges
<1> HIDE DEF F
<1>2. \A e \in E : e[2] = m => e[1] # u BY DEF Into
<1>3. \A e \in F : e[2] = m => e \in E BY <1>1, <1>2
<1>4. \A e \in E : e[2] = m => e \in F BY <1>1, <1>2
<1>5. Into(F, m) = Into(E, m) BY <1>3, <1>4 DEF Into
<1> QED BY <1>5 DEF F

\* An adaptation takes topics out of a curriculum without reordering the rest.
LEMMA WithoutKeepsOrder ==
  ASSUME NEW p, Ordered(p.edges, p.topics), NEW gone \in SUBSET AllTopics
  PROVE  \E E : /\ Without(p, gone) = [p EXCEPT !.topics = @ \ gone, !.edges = E]
                /\ Ordered(E, p.topics \ gone)
                /\ \A t \in AllTopics \ gone : Before(E, t) = Before(p.edges, t) \ gone
                /\ \A m : m \notin gone /\ Into(p.edges, m) \cap gone = {} =>
                          Into(E, m) = Into(p.edges, m)
<1>1. p.edges \in SUBSET Pairs BY DEF Ordered
<1>a. TakesOut(p, gone) BY <1>1 DEF TakesOut
<1>b. OneByOne(p, gone) BY <1>a, BridgesUnfolded
<1>2. PICK g \in [SUBSET gone -> SUBSET Pairs] :
           /\ Without(p, gone) = [p EXCEPT !.topics = @ \ gone, !.edges = g[gone]]
           /\ g[{}] = p.edges
           /\ \A s \in SUBSET gone : s # {} => g[s] = Bridge(Any(s), g[s \ {Any(s)}])
  BY <1>b DEF OneByOne
<1> DEFINE Kept(s) ==
             /\ Ordered(g[s], p.topics \ s)
             /\ \A t \in AllTopics \ s : Before(g[s], t) = Before(p.edges, t) \ s
             /\ \A m : m \notin gone /\ Into(p.edges, m) \cap gone = {} =>
                       Into(g[s], m) = Into(p.edges, m)
<1>3. Kept({})
  <2>1. p.topics \ {} = p.topics OBVIOUS
  <2> QED BY <1>2, <2>1
<1>4. ASSUME NEW s \in SUBSET gone, s # {}, Kept(s \ {Any(s)}) PROVE Kept(s)
  <2>1. PICK u : u = Any(s) /\ u \in s BY <1>4 DEF Any
  <2>2. PICK E : E = g[s \ {u}] OBVIOUS
  <2>3. g[s] = Bridge(u, E) BY <1>2, <1>4, <2>1, <2>2
  <2>4. Ordered(E, p.topics \ (s \ {u})) BY <1>4, <2>1, <2>2
  <2>5. /\ Ordered(Bridge(u, E), (p.topics \ (s \ {u})) \ {u})
        /\ \A t \in AllTopics \ {u} : Before(Bridge(u, E), t) = Before(E, t) \ {u}
    BY <2>4, BridgeKeepsOrder
  <2>6. (p.topics \ (s \ {u})) \ {u} = p.topics \ s BY <2>1
  <2>7. ASSUME NEW t \in AllTopics \ s
        PROVE  Before(g[s], t) = Before(p.edges, t) \ s
    <3>1. Before(E, t) = Before(p.edges, t) \ (s \ {u}) BY <1>4, <2>1, <2>2
    <3>2. Before(Bridge(u, E), t) = Before(E, t) \ {u} BY <2>1, <2>5
    <3> QED BY <2>1, <2>3, <3>1, <3>2
  <2>8. ASSUME NEW m, m \notin gone, Into(p.edges, m) \cap gone = {}
        PROVE  Into(g[s], m) = Into(p.edges, m)
    <3>1. Into(E, m) = Into(p.edges, m) BY <1>4, <2>1, <2>2, <2>8
    <3>2. m # u /\ u \notin Into(E, m) BY <2>1, <2>8, <3>1
    <3>3. E \in SUBSET Pairs /\ \A e \in E : e[1] # e[2] BY <2>4 DEF Ordered
    <3>4. Into(Bridge(u, E), m) = Into(E, m) BY <3>2, <3>3, BridgeKeepsDirect
    <3> QED BY <2>3, <3>1, <3>4
  <2> QED BY <2>3, <2>5, <2>6, <2>7, <2>8
<1>5. \A s \in SUBSET gone : Cardinality(s) \in Nat
  BY TopicsAreFinite, FS_Subset, FS_CardinalityType
<1> HIDE DEF Kept
<1>6. \A s \in SUBSET gone : Kept(s)
  <2> DEFINE N == {k \in Nat : \E s \in SUBSET gone : Cardinality(s) = k /\ ~Kept(s)}
  <2>1. ASSUME N # {} PROVE FALSE
    <3>1. PICK k \in N : \A j \in N : k <= j BY <2>1, LeastOfNats
    <3>2. PICK s \in SUBSET gone : Cardinality(s) = k /\ ~Kept(s) BY <3>1
    <3>3. PICK u : u = Any(s) /\ u \in s
      <4>1. s # {} BY <1>3, <3>2
      <4> QED BY <4>1 DEF Any
    <3>4. Cardinality(s \ {u}) = Cardinality(s) - 1
      BY <3>3, TopicsAreFinite, FS_Subset, FS_RemoveElement
    <3>5. s \ {u} \in SUBSET gone OBVIOUS
    <3>6. PICK n \in Nat : n = Cardinality(s \ {u}) BY <1>5, <3>5
    <3>7. k \in Nat /\ ~(k <= n) BY <3>1, <3>2, <3>4, <3>6
    <3>8. n \notin N BY <3>1, <3>7
    <3>9. Kept(s \ {u}) BY <3>5, <3>6, <3>8
    <3> QED BY <1>4, <3>2, <3>3, <3>9
  <2> QED BY <1>5, <2>1
<1>7. Kept(gone) BY <1>6
<1>8. Without(p, gone) = [p EXCEPT !.topics = @ \ gone, !.edges = g[gone]] BY <1>2
<1> QED BY <1>7, <1>8 DEF Kept

\* A curriculum without a cycle has a topic with no prerequisite.
LEMMA FirstTopic ==
  ASSUME NEW E, NEW T \in SUBSET AllTopics, Ordered(E, T), T # {}
  PROVE  \E t \in T : Into(E, t) = {}
<1>1. E \in SUBSET Pairs BY DEF Ordered
<1>2. \A t : IsFiniteSet(Before(E, t)) /\ Cardinality(Before(E, t)) \in Nat
  <2> SUFFICES ASSUME NEW t PROVE IsFiniteSet(Before(E, t)) /\ Cardinality(Before(E, t)) \in Nat
    OBVIOUS
  <2>1. Before(E, t) \subseteq AllTopics BY <1>1, BeforeIsLeast
  <2>2. IsFiniteSet(Before(E, t)) BY <2>1, TopicsAreFinite, FS_Subset
  <2> QED BY <2>2, FS_CardinalityType
<1> DEFINE N == {k \in Nat : \E t \in T : Cardinality(Before(E, t)) = k}
<1>3. N # {} BY <1>2
<1>4. PICK k \in N : \A j \in N : k <= j BY <1>3, LeastOfNats
<1>5. PICK t \in T : Cardinality(Before(E, t)) = k BY <1>4
<1>6. ASSUME NEW x \in Into(E, t) PROVE FALSE
  <2>1. x \in T /\ x \in AllTopics BY DEF Ordered, Into
  <2>2. x \in Before(E, t) /\ Closed(E, Before(E, t)) BY <1>1, BeforeIsLeast
  <2>3. Into(E, x) \subseteq Before(E, t) BY <2>2 DEF Into, Closed
  <2>4. Before(E, x) \subseteq Before(E, t) BY <1>1, <2>2, <2>3, BeforeIsLeast
  <2>5. x \notin Before(E, x) BY <2>1 DEF Ordered
  <2>6. Before(E, x) # Before(E, t) BY <2>2, <2>5
  <2>7. Cardinality(Before(E, x)) < Cardinality(Before(E, t))
    <3>1. Cardinality(Before(E, x)) <= Cardinality(Before(E, t))
          /\ (Cardinality(Before(E, x)) = Cardinality(Before(E, t)) => Before(E, x) = Before(E, t))
      BY <1>2, <2>4, FS_Subset
    <3> QED BY <1>2, <2>6, <3>1
  <2>8. PICK n \in Nat : n = Cardinality(Before(E, x)) BY <1>2
  <2>9. n \in N BY <2>1, <2>8
  <2>10. k \in Nat /\ ~(k <= n) BY <1>4, <1>5, <2>7, <2>8
  <2> QED BY <1>4, <2>9, <2>10
<1> QED BY <1>6

-----------------------------------------------------------------------------
(* A replan of a valid curriculum.                                          *)

Curricula == [topics : SUBSET AllTopics, edges : SUBSET Pairs, milestone : 0..Topics,
              needs : SUBSET AllTopics]
Sound(p)  == p \in Curricula /\ Valid(p)

\* The milestone and what it requires stay, and so does the order of what is not taken out.
KeepsOrder(old, new) ==
  /\ {new.milestone} \cup new.needs = {old.milestone} \cup old.needs
  /\ \A t \in new.topics : Before(new.edges, t) = Before(old.edges, t) \cap new.topics

LEMMA SoundIsOrdered ==
  ASSUME NEW p, Sound(p)
  PROVE  Ordered(p.edges, p.topics) /\ p.topics \in SUBSET AllTopics
<1>1. p.edges \in SUBSET Pairs /\ p.topics \in SUBSET AllTopics BY DEF Sound, Curricula
<1>2. \A e \in p.edges : e[1] \in p.topics /\ e[2] \in p.topics /\ e[1] # e[2]
  BY DEF Sound, Valid
<1>3. ASSUME NEW t \in AllTopics PROVE t \notin Before(p.edges, t)
  <2>1. CASE t \in p.topics BY <2>1 DEF Sound, Valid
  <2>2. CASE t \notin p.topics
    <3>1. Before(p.edges, t) = {} BY <1>1, <1>2, <2>2, NothingBefore
    <3> QED BY <3>1
  <2> QED BY <2>1, <2>2
<1> QED BY <1>1, <1>2, <1>3 DEF Ordered

LEMMA RedundantLeavesTheRest ==
  ASSUME NEW p, Sound(p), NEW known, NEW running
  PROVE  /\ Redundant(p, known, running) \in SUBSET p.topics
         /\ p.topics \ Redundant(p, known, running) # {}
         /\ p.milestone \notin Redundant(p, known, running)
         /\ p.needs \cap Redundant(p, known, running) = {}
<1> DEFINE may == {t \in p.topics : /\ known[t] = "elsewhere" /\ t # running
                                    /\ t # p.milestone /\ t \notin p.needs}
           first == CHOOSE t \in may : Into(p.edges, t) = {}
<1>1. may \in SUBSET p.topics /\ p.milestone \notin may /\ p.needs \cap may = {} OBVIOUS
<1>2. Redundant(p, known, running) = IF may = p.topics THEN may \ {first} ELSE may
  BY DEF Redundant
<1> HIDE DEF may
<1>3. ASSUME may = p.topics PROVE first \in p.topics
  <2>1. p.topics # {} BY DEF Sound, Valid
  <2>2. \E t \in may : Into(p.edges, t) = {} BY <1>3, <2>1, SoundIsOrdered, FirstTopic
  <2> QED BY <1>3, <2>2
<1> HIDE DEF first
<1> QED BY <1>1, <1>2, <1>3

LEMMA ReplanIsSound ==
  ASSUME NEW p, Sound(p), NEW known, NEW running
  PROVE  LET q == Without(p, Redundant(p, known, running))
         IN Sound(q) /\ KeepsOrder(p, q)
<1> DEFINE gone == Redundant(p, known, running)
           q    == Without(p, gone)
<1>1. /\ gone \in SUBSET p.topics /\ p.topics \ gone # {} /\ p.milestone \notin gone
      /\ p.needs \cap gone = {}
  BY RedundantLeavesTheRest
<1>2. Ordered(p.edges, p.topics) /\ p.topics \in SUBSET AllTopics BY SoundIsOrdered
<1>3. gone \in SUBSET AllTopics BY <1>1, <1>2
<1> HIDE DEF gone
<1>4. PICK E : /\ Without(p, gone) = [p EXCEPT !.topics = @ \ gone, !.edges = E]
               /\ Ordered(E, p.topics \ gone)
               /\ \A t \in AllTopics \ gone : Before(E, t) = Before(p.edges, t) \ gone
               /\ \A m : m \notin gone /\ Into(p.edges, m) \cap gone = {} =>
                         Into(E, m) = Into(p.edges, m)
  BY <1>2, <1>3, WithoutKeepsOrder
<1>5. p \in Curricula BY DEF Sound
<1>6. /\ q = [p EXCEPT !.topics = p.topics \ gone, !.edges = E]
      /\ E \in SUBSET Pairs
  BY <1>4 DEF Ordered
<1> HIDE DEF q
<1>7. /\ q.topics = p.topics \ gone /\ q.edges = E /\ q.milestone = p.milestone
      /\ q.needs = p.needs /\ q \in Curricula
  BY <1>2, <1>5, <1>6 DEF Curricula
<1>8. ASSUME q.milestone # 0
      PROVE  q.milestone \in q.topics /\ q.needs = Into(q.edges, q.milestone) /\ q.needs # {}
  <2>1. p.milestone \in p.topics /\ p.needs = Into(p.edges, p.milestone) /\ p.needs # {}
    BY <1>7, <1>8 DEF Sound, Valid
  <2>2. Into(E, p.milestone) = Into(p.edges, p.milestone) BY <1>1, <1>4, <2>1
  <2> QED BY <1>1, <1>7, <2>1, <2>2
<1>9. Valid(q)
  <2>1. q.topics # {} BY <1>1, <1>7
  <2>2. \A e \in q.edges : e[1] \in q.topics /\ e[2] \in q.topics /\ e[1] # e[2]
    BY <1>4, <1>7 DEF Ordered
  <2>3. \A t \in q.topics : t \notin Before(q.edges, t) BY <1>2, <1>4, <1>7 DEF Ordered
  <2> QED BY <1>8, <2>1, <2>2, <2>3 DEF Valid
<1>10. ASSUME NEW t \in q.topics
       PROVE  Before(q.edges, t) = Before(p.edges, t) \cap q.topics
  <2>1. Before(q.edges, t) = Before(p.edges, t) \ gone BY <1>2, <1>4, <1>7
  <2>2. Before(p.edges, t) \subseteq p.topics
    <3>1. p.edges \in SUBSET Pairs /\ \A e \in p.edges : e[1] \in p.topics BY <1>2 DEF Ordered
    <3>2. Into(p.edges, t) \subseteq p.topics /\ Closed(p.edges, p.topics)
      BY <3>1 DEF Into, Closed
    <3> QED BY <3>1, <3>2, BeforeIsLeast
  <2> QED BY <1>7, <2>1, <2>2
<1>11. KeepsOrder(p, q) BY <1>7, <1>10 DEF KeepsOrder
<1> QED BY <1>7, <1>9, <1>11 DEF Sound, q, gone

-----------------------------------------------------------------------------
(* What is written stays sound and in order.                                *)

PathStates    == {"draft", "active", "paused", "archived"}
VisitPoints   == {"-", "state", "commit", "edit", "plan", "start"}

\* A version that is ready to be written: a replan keeps the order of the one it was made from.
Ready(v) ==
  /\ Sound(v.plan.plan)
  /\ v.plan.by = "replanned" =>
       v.op # "replace" /\ v.base \in DOMAIN versions
       /\ KeepsOrder(versions[v.base].plan, v.plan.plan)

PathShape ==
  /\ path \in PathStates /\ selected \in BOOLEAN /\ lesson \in 0..Topics
  /\ IsRows(versions) /\ Len(versions) > 0
  /\ DOMAIN visit = Learners
  /\ \A l \in Learners : /\ DOMAIN visit[l] = {"op", "at", "base", "state", "plan"}
                         /\ visit[l].at \in VisitPoints

VersionsHold ==
  /\ \A i \in DOMAIN versions : Sound(versions[i].plan)
  /\ Here.by = "replanned" => Len(versions) > 1 /\ KeepsOrder(Earlier.plan, Here.plan)

VisitsHold ==
  \A l \in Learners :
    /\ visit[l].at \in {"state", "commit"} => Ready(visit[l])
    /\ visit[l].at = "commit" => visit[l].state \in PathStates
    /\ visit[l].at = "edit" => visit[l].base \in DOMAIN versions
    /\ visit[l].at = "start" => visit[l].base \in AllTopics

PathInvariant == PathShape /\ VersionsHold /\ VisitsHold

LEMMA ProposalIsSound ==
  ASSUME NEW p \in Proposals
  PROVE  Sound(p)
<1>1. /\ p.topics \in SUBSET AllTopics /\ p.edges \in SUBSET Pairs /\ p.needs \in SUBSET AllTopics
      /\ p.milestone \in 0..Topics
      /\ p \in [topics : {AllTopics}, edges : SUBSET Forward, milestone : {0, Topics},
                needs : SUBSET AllTopics]
  BY LPAssumption DEF Proposals, Forward, Pairs
<1>2. p = [topics |-> p.topics, edges |-> p.edges, milestone |-> p.milestone, needs |-> p.needs]
  BY <1>1
<1>3. p \in Curricula BY <1>1, <1>2 DEF Curricula
<1> QED BY <1>3 DEF Sound, Proposals

LEMMA VersionsAppend ==
  ASSUME NEW s, IsRows(s), NEW e
  PROVE  /\ IsRows(Append(s, e)) /\ Len(Append(s, e)) = Len(s) + 1
         /\ Len(s) \in Nat /\ DOMAIN s = 1..Len(s) /\ DOMAIN Append(s, e) = 1..(Len(s) + 1)
         /\ \A i \in DOMAIN s : Append(s, e)[i] = s[i]
         /\ Append(s, e)[Len(s) + 1] = e
<1>1. PICK S : s \in Seq(S) BY DEF IsRows
<1>2. s \in Seq(S \cup {e}) /\ e \in S \cup {e} BY <1>1
<1>3. Append(s, e) \in Seq(S \cup {e}) /\ Len(Append(s, e)) = Len(s) + 1
      /\ (\A i \in 1..Len(s) : Append(s, e)[i] = s[i]) /\ Append(s, e)[Len(s) + 1] = e
  BY <1>2, AppendProperties
<1> QED BY <1>2, <1>3, LenProperties DEF IsRows

LEMMA OneVersion ==
  ASSUME NEW e
  PROVE  IsRows(<<e>>) /\ Len(<<e>>) = 1 /\ DOMAIN <<e>> = {1} /\ <<e>>[1] = e
<1>1. <<e>> \in Seq({e}) /\ Len(<<e>>) = 1 /\ <<e>>[1] = e OBVIOUS
<1>2. IsRows(<<e>>) BY <1>1 DEF IsRows
<1>3. DOMAIN <<e>> = 1..1 BY <1>1, LenProperties
<1>4. 1..1 = {1} OBVIOUS
<1> QED BY <1>1, <1>2, <1>3, <1>4

LEMMA PathStart == LPInit => PathInvariant
<1> SUFFICES ASSUME LPInit PROVE PathInvariant
  OBVIOUS
<1>1. PICK p \in Proposals : versions = <<Version(p, "created", 0, NoAdaptation)>> BY DEF LPInit
<1> DEFINE v == Version(p, "created", 0, NoAdaptation)
<1>2. v.plan = p /\ v.by = "created" BY DEF Version
<1> HIDE DEF v
<1>3. IsRows(versions) /\ Len(versions) = 1 /\ DOMAIN versions = {1} /\ versions[1] = v
  BY <1>1, OneVersion DEF v
<1>4. Sound(p) BY ProposalIsSound
<1>5. PathShape
  <2>1. /\ DOMAIN NoVisit = {"op", "at", "base", "state", "plan"} /\ NoVisit.at \in VisitPoints
    BY DEF NoVisit, VisitPoints
  <2>2. visit = [l \in Learners |-> NoVisit] BY DEF LPInit
  <2> HIDE DEF NoVisit
  <2>3. DOMAIN visit = Learners /\ \A l \in Learners : visit[l] = NoVisit BY <2>2
  <2>4. path \in PathStates /\ lesson \in 0..Topics
    BY LPAssumption DEF LPInit, PathStates
  <2>5. selected \in BOOLEAN BY DEF LPInit
  <2>6. Len(versions) > 0 BY <1>3
  <2> QED BY <1>3, <2>1, <2>3, <2>4, <2>5, <2>6 DEF PathShape
<1>6. VersionsHold BY <1>2, <1>3, <1>4 DEF VersionsHold, Here
<1>7. VisitsHold BY DEF LPInit, VisitsHold, NoVisit
<1> QED BY <1>5, <1>6, <1>7 DEF PathInvariant

\* What a request has read stays as good as it was while no version is written.
LEMMA Undisturbed ==
  ASSUME PathInvariant, UNCHANGED versions
  PROVE  /\ VersionsHold' /\ (IsRows(versions) /\ Len(versions) > 0)'
         /\ \A v : Ready(v) => Ready(v)'
         /\ DOMAIN versions = 1..Len(versions) /\ Len(versions) \in Nat \ {0}
BY VersionsAppend DEF PathInvariant, PathShape, VersionsHold, Ready, Here, Earlier

\* A step of one request that writes no version and leaves what it read in good order.
LEMMA VisitStep ==
  ASSUME PathInvariant, UNCHANGED <<path, selected, versions>>, lesson' \in 0..Topics,
         NEW l \in Learners, NEW w, visit' = [visit EXCEPT ![l] = w],
         DOMAIN w = {"op", "at", "base", "state", "plan"}, w.at \in VisitPoints,
         w.at \in {"state", "commit"} => Ready(w),
         w.at = "commit" => w.state \in PathStates,
         w.at = "edit" => w.base \in DOMAIN versions,
         w.at = "start" => w.base \in AllTopics
  PROVE  PathInvariant'
<1>1. /\ VersionsHold' /\ (IsRows(versions) /\ Len(versions) > 0)'
      /\ \A v : Ready(v) => Ready(v)'
  BY Undisturbed
<1>2. /\ DOMAIN visit' = Learners /\ visit'[l] = w
      /\ \A m \in Learners : m # l => visit'[m] = visit[m]
  BY DEF PathInvariant, PathShape
<1>3. PathShape' BY <1>1, <1>2 DEF PathInvariant, PathShape
<1>4. VisitsHold'
  <2> SUFFICES ASSUME NEW m \in Learners
      PROVE /\ visit'[m].at \in {"state", "commit"} => Ready(visit[m])'
            /\ visit'[m].at = "commit" => visit'[m].state \in PathStates
            /\ visit'[m].at = "edit" => visit'[m].base \in DOMAIN versions'
            /\ visit'[m].at = "start" => visit'[m].base \in AllTopics
    BY DEF VisitsHold
  <2>1. CASE m = l
    <3>1. Ready(w) => Ready(w)' BY <1>1
    <3>2. Ready(w)' => Ready(visit[m])' BY <1>2, <2>1 DEF Ready
    <3> QED BY <1>2, <2>1, <3>1, <3>2
  <2>2. CASE m # l
    <3>1. visit'[m] = visit[m] BY <1>2, <2>2
    <3>2. Ready(visit[m]) => Ready(visit[m])' BY <3>1 DEF Ready
    <3> QED BY <3>1, <3>2 DEF PathInvariant, VisitsHold
  <2> QED BY <2>1, <2>2
<1> QED BY <1>1, <1>3, <1>4 DEF PathInvariant

\* The request is answered.
LEMMA VisitDone ==
  ASSUME PathInvariant, UNCHANGED <<path, selected, versions>>, lesson' \in 0..Topics,
         NEW l \in Learners, Done(l)
  PROVE  PathInvariant'
<1>1. /\ visit' = [visit EXCEPT ![l] = NoVisit] /\ NoVisit.at = "-"
      /\ DOMAIN NoVisit = {"op", "at", "base", "state", "plan"} /\ NoVisit.at \in VisitPoints
  BY DEF Done, NoVisit, VisitPoints
<1> HIDE DEF NoVisit
<1>2. NoVisit.at \notin {"state", "commit", "edit", "start"} BY <1>1
<1> QED BY <1>1, <1>2, VisitStep

\* The path, its selection and the lesson move, and nothing is written or read.
LEMMA PathMoves ==
  ASSUME PathInvariant, UNCHANGED <<versions, visit>>, path' \in PathStates,
         selected' \in BOOLEAN, lesson' \in 0..Topics
  PROVE  PathInvariant'
<1>1. /\ VersionsHold' /\ (IsRows(versions) /\ Len(versions) > 0)'
      /\ \A v : Ready(v) => Ready(v)'
  BY Undisturbed
<1>2. PathShape' BY <1>1 DEF PathInvariant, PathShape
<1>3. VisitsHold'
  <2> SUFFICES ASSUME NEW l \in Learners
      PROVE /\ visit'[l].at \in {"state", "commit"} => Ready(visit[l])'
            /\ visit'[l].at = "commit" => visit'[l].state \in PathStates
            /\ visit'[l].at = "edit" => visit'[l].base \in DOMAIN versions'
            /\ visit'[l].at = "start" => visit'[l].base \in AllTopics
    BY DEF VisitsHold
  <2>1. Ready(visit[l]) => Ready(visit[l])' BY DEF Ready
  <2> QED BY <2>1 DEF PathInvariant, VisitsHold
<1> QED BY <1>1, <1>2, <1>3 DEF PathInvariant

\* The owner's edit of a sound curriculum, when it is valid, is sound.
LEMMA EditIsSound ==
  ASSUME NEW p, Sound(p), NEW running,
         NEW q \in Removals(p, running) \cup Additions(p, running) \cup Separations(p), Valid(q)
  PROVE  Sound(q)
<1>1. p \in Curricula BY DEF Sound
<1>2. CASE q \in Removals(p, running)
  <2>1. PICK t : q = [p EXCEPT !.topics = @ \ {t}, !.edges = {e \in @ : e[2] # t}]
    BY <1>2 DEF Removals
  <2>2. q \in Curricula BY <1>1, <2>1 DEF Curricula
  <2> QED BY <2>2 DEF Sound
<1>3. CASE q \in Additions(p, running)
  <2>1. PICK e \in p.topics \X p.topics : q = [p EXCEPT !.edges = @ \cup {e}]
    BY <1>3 DEF Additions
  <2>2. e \in Pairs BY <1>1 DEF Curricula, Pairs
  <2>3. q \in Curricula BY <1>1, <2>1, <2>2 DEF Curricula
  <2> QED BY <2>3 DEF Sound
<1>4. CASE q \in Separations(p)
  <2>1. PICK e : q = [p EXCEPT !.edges = @ \ {e}] BY <1>4 DEF Separations
  <2>2. q \in Curricula BY <1>1, <2>1 DEF Curricula
  <2> QED BY <2>2 DEF Sound
<1> QED BY <1>2, <1>3, <1>4

\* The transaction that writes a version, or refuses it.
LEMMA CommitKeeps ==
  ASSUME PathInvariant, NEW l \in Learners, CommitVersion(l)
  PROVE  PathInvariant'
<1> DEFINE v == visit[l]
<1>1. v.at = "commit" /\ Ready(v) /\ v.state \in PathStates
  BY DEF CommitVersion, PathInvariant, VisitsHold
<1>2. UNCHANGED <<selected, lesson>> /\ Done(l) /\ lesson' \in 0..Topics
  BY DEF CommitVersion, PathInvariant, PathShape
<1>3. CASE UNCHANGED <<versions, path>> BY <1>2, <1>3, VisitDone
<1>4. CASE /\ v.op = "replace" \/ v.base = Len(versions)
           /\ versions' = Append(versions, v.plan) /\ path' = v.state
  <2>1. /\ IsRows(versions') /\ Len(versions') = Len(versions) + 1
        /\ Len(versions) \in Nat /\ DOMAIN versions = 1..Len(versions)
        /\ DOMAIN versions' = 1..(Len(versions) + 1)
        /\ \A i \in DOMAIN versions : versions'[i] = versions[i]
        /\ versions'[Len(versions) + 1] = v.plan
    BY <1>4, VersionsAppend DEF PathInvariant, PathShape
  <2>2. Len(versions) \in DOMAIN versions BY <2>1 DEF PathInvariant, PathShape
  <2>3. Here' = v.plan /\ Earlier' = versions[Len(versions)] BY <2>1, <2>2 DEF Here, Earlier
  <2>4. VersionsHold'
    <3>1. \A i \in DOMAIN versions' : Sound(versions'[i].plan)
      <4> SUFFICES ASSUME NEW i \in 1..(Len(versions) + 1) PROVE Sound(versions'[i].plan)
        BY <2>1
      <4>1. CASE i = Len(versions) + 1 BY <1>1, <2>1, <4>1 DEF Ready
      <4>2. CASE i # Len(versions) + 1
        <5>1. i \in DOMAIN versions BY <2>1, <4>2
        <5> QED BY <2>1, <5>1 DEF PathInvariant, VersionsHold
      <4> QED BY <4>1, <4>2
    <3>2. ASSUME v.plan.by = "replanned"
          PROVE  Len(versions') > 1 /\ KeepsOrder(Earlier'.plan, Here'.plan)
      <4>1. v.base = Len(versions) /\ KeepsOrder(versions[v.base].plan, v.plan.plan)
        BY <1>1, <1>4, <3>2 DEF Ready
      <4>2. Len(versions) > 0 BY DEF PathInvariant, PathShape
      <4> QED BY <2>1, <2>3, <4>1, <4>2
    <3>3. (Here.by)' = v.plan.by BY <2>3
    <3> QED BY <3>1, <3>2, <3>3 DEF VersionsHold
  <2>5. \A w : Ready(w) => Ready(w)'
    <3> SUFFICES ASSUME NEW w, Ready(w) PROVE Ready(w)'
      OBVIOUS
    <3>1. ASSUME w.plan.by = "replanned"
          PROVE  /\ w.op # "replace" /\ w.base \in DOMAIN versions'
                 /\ KeepsOrder(versions'[w.base].plan, w.plan.plan)
      <4>1. w.op # "replace" /\ w.base \in DOMAIN versions
            /\ KeepsOrder(versions[w.base].plan, w.plan.plan)
        BY <3>1 DEF Ready
      <4>2. versions'[w.base] = versions[w.base] BY <2>1, <4>1
      <4>3. w.base \in DOMAIN versions' BY <2>1, <4>1
      <4> QED BY <4>1, <4>2, <4>3
    <3> QED BY <3>1 DEF Ready
  <2>6. /\ visit' = [visit EXCEPT ![l] = NoVisit] /\ NoVisit.at = "-"
        /\ DOMAIN NoVisit = {"op", "at", "base", "state", "plan"} /\ NoVisit.at \in VisitPoints
    BY <1>2 DEF Done, NoVisit, VisitPoints
  <2> HIDE DEF NoVisit
  <2>7. /\ DOMAIN visit' = Learners /\ visit'[l] = NoVisit
        /\ \A m \in Learners : m # l => visit'[m] = visit[m]
    BY <2>6 DEF PathInvariant, PathShape
  <2>8. PathShape'
    <3>1. path' \in PathStates /\ UNCHANGED <<selected, lesson>> BY <1>1, <1>2, <1>4
    <3>2. Len(versions') > 0 BY <2>1
    <3> QED BY <2>1, <2>6, <2>7, <3>1, <3>2 DEF PathInvariant, PathShape
  <2>9. VisitsHold'
    <3> SUFFICES ASSUME NEW m \in Learners
        PROVE /\ visit'[m].at \in {"state", "commit"} => Ready(visit[m])'
              /\ visit'[m].at = "commit" => visit'[m].state \in PathStates
              /\ visit'[m].at = "edit" => visit'[m].base \in DOMAIN versions'
              /\ visit'[m].at = "start" => visit'[m].base \in AllTopics
      BY DEF VisitsHold
    <3>1. CASE m = l
      <4>1. visit'[m].at = "-" BY <2>6, <2>7, <3>1
      <4> QED BY <4>1
    <3>2. CASE m # l
      <4>1. visit'[m] = visit[m] BY <2>7, <3>2
      <4>2. Ready(visit[m]) => Ready(visit[m])' BY <2>5, <4>1 DEF Ready
      <4>3. \A b : b \in DOMAIN versions => b \in DOMAIN versions' BY <2>1
      <4> QED BY <4>1, <4>2, <4>3 DEF PathInvariant, VisitsHold
    <3> QED BY <3>1, <3>2
  <2> QED BY <2>4, <2>8, <2>9 DEF PathInvariant
<1>5. \/ UNCHANGED <<versions, path>>
      \/ /\ v.op = "replace" \/ v.base = Len(versions)
         /\ versions' = Append(versions, v.plan) /\ path' = v.state
  BY DEF CommitVersion
<1> QED BY <1>3, <1>4, <1>5

\* Each operation preserves it: one step per action.
LEMMA PathStep == PathInvariant /\ [LPNext]_lpVars => PathInvariant'
<1> SUFFICES ASSUME PathInvariant, [LPNext]_lpVars PROVE PathInvariant'
  OBVIOUS
<1>1. /\ path \in PathStates /\ selected \in BOOLEAN /\ lesson \in 0..Topics
      /\ DOMAIN versions = 1..Len(versions) /\ Len(versions) \in Nat \ {0}
      /\ DOMAIN NoVisit = {"op", "at", "base", "state", "plan"} /\ NoVisit.at = "-"
  BY Undisturbed, VersionsAppend DEF PathInvariant, PathShape, NoVisit
<1>2. \A l \in Learners : DOMAIN visit[l] = {"op", "at", "base", "state", "plan"}
  BY DEF PathInvariant, PathShape
<1>3. Sound(Here.plan) /\ Len(versions) \in DOMAIN versions
  BY <1>1 DEF PathInvariant, VersionsHold, Here
<1> HIDE DEF NoVisit
<1>4. CASE UNCHANGED lpVars BY <1>1, <1>4, PathMoves DEF lpVars
<1>5. CASE ActivatePath \/ ArchivePath \/ SelectPath
  <2>1. UNCHANGED <<versions, visit, lesson>> BY <1>5 DEF ActivatePath, ArchivePath, SelectPath
  <2>2. path' \in PathStates BY <1>1, <1>5 DEF ActivatePath, ArchivePath, SelectPath, PathStates
  <2>3. selected' \in BOOLEAN BY <1>5 DEF ActivatePath, ArchivePath, SelectPath
  <2> QED BY <1>1, <2>1, <2>2, <2>3, PathMoves
<1>6. CASE EvidenceChanges
  <2>1. lesson' \in 0..Topics /\ UNCHANGED <<path, selected, versions, visit>>
    BY <1>1, <1>6, LPAssumption DEF EvidenceChanges
  <2> QED BY <1>1, <2>1, PathMoves
<1>7. ASSUME NEW l \in Learners, ReadState(l) PROVE PathInvariant'
  <2> DEFINE w == [visit[l] EXCEPT !.at = "commit", !.state = path]
  <2>1. /\ UNCHANGED <<path, selected, versions>> /\ lesson' \in 0..Topics
        /\ visit' = [visit EXCEPT ![l] = w] /\ visit[l].at = "state"
    BY <1>1, <1>7 DEF ReadState, ReadsOn
  <2>2. /\ DOMAIN w = {"op", "at", "base", "state", "plan"} /\ w.at = "commit"
        /\ w.state = path /\ w.plan = visit[l].plan /\ w.op = visit[l].op
        /\ w.base = visit[l].base
    BY <1>2
  <2>3. Ready(visit[l]) BY <2>1 DEF PathInvariant, VisitsHold
  <2> HIDE DEF w
  <2>4. Ready(w) BY <2>2, <2>3 DEF Ready
  <2> QED BY <1>1, <2>1, <2>2, <2>4, VisitStep DEF VisitPoints
<1>8. ASSUME NEW l \in Learners, CommitVersion(l) PROVE PathInvariant'
  BY <1>8, CommitKeeps
<1>9. ASSUME NEW l \in Learners, ReplaceCurriculum(l) PROVE PathInvariant'
  <2>1. PICK p \in Proposals :
          Reads(l, [op |-> "replace", at |-> "state", base |-> Len(versions), state |-> "-",
                    plan |-> Version(p, "replaced", Len(versions), NoAdaptation)])
    BY <1>9 DEF ReplaceCurriculum
  <2> DEFINE w == [op |-> "replace", at |-> "state", base |-> Len(versions), state |-> "-",
                   plan |-> Version(p, "replaced", Len(versions), NoAdaptation)]
  <2>2. /\ UNCHANGED <<path, selected, versions>> /\ lesson' \in 0..Topics
        /\ visit' = [visit EXCEPT ![l] = w]
    BY <1>1, <1>9, <2>1 DEF ReplaceCurriculum, Reads
  <2>3. /\ DOMAIN w = {"op", "at", "base", "state", "plan"} /\ w.at = "state"
        /\ w.plan.plan = p /\ w.plan.by = "replaced"
    BY DEF Version
  <2> HIDE DEF w
  <2>4. Ready(w) BY <2>3, ProposalIsSound DEF Ready
  <2> QED BY <2>2, <2>3, <2>4, VisitStep DEF VisitPoints
<1>10. ASSUME NEW l \in Learners, OpenEdit(l) PROVE PathInvariant'
  <2> DEFINE w == [NoVisit EXCEPT !.op = "edit", !.at = "edit", !.base = Len(versions),
                                  !.state = lesson]
  <2>1. /\ UNCHANGED <<path, selected, versions>> /\ lesson' \in 0..Topics
        /\ visit' = [visit EXCEPT ![l] = w]
    BY <1>1, <1>10 DEF OpenEdit, Reads
  <2>2. /\ DOMAIN w = {"op", "at", "base", "state", "plan"} /\ w.at = "edit"
        /\ w.base = Len(versions)
    BY <1>1
  <2> HIDE DEF w
  <2> QED BY <1>3, <2>1, <2>2, VisitStep DEF VisitPoints
<1>11. ASSUME NEW l \in Learners, ApplyEdit(l) PROVE PathInvariant'
  <2> DEFINE v == visit[l]
             p == versions[v.base].plan
  <2>1. /\ UNCHANGED <<path, selected, versions>> /\ lesson' \in 0..Topics
        /\ v.at = "edit"
    BY <1>1, <1>11 DEF ApplyEdit, Atp
  <2>2. CASE Done(l) BY <2>1, <2>2, VisitDone
  <2>3. ASSUME NEW q \in Removals(p, v.state) \cup Additions(p, v.state) \cup Separations(p),
               Valid(q), ReadsOn(l, [v EXCEPT !.at = "state", !.state = "-",
                                      !.plan = Version(q, "edited", v.base, NoAdaptation)])
        PROVE  PathInvariant'
    <3> DEFINE w == [v EXCEPT !.at = "state", !.state = "-",
                              !.plan = Version(q, "edited", v.base, NoAdaptation)]
    <3>1. Sound(p) BY <2>1 DEF PathInvariant, VisitsHold, VersionsHold
    <3>2. Sound(q) BY <2>3, <3>1, EditIsSound
    <3>3. visit' = [visit EXCEPT ![l] = w] BY <2>3 DEF ReadsOn
    <3>4. /\ DOMAIN w = {"op", "at", "base", "state", "plan"} /\ w.at = "state"
          /\ w.plan.plan = q /\ w.plan.by = "edited"
      BY <1>2 DEF Version
    <3> HIDE DEF w
    <3>5. Ready(w) BY <3>2, <3>4 DEF Ready
    <3> QED BY <2>1, <3>3, <3>4, <3>5, VisitStep DEF VisitPoints
  <2> QED BY <1>11, <2>2, <2>3 DEF ApplyEdit
<1>12. ASSUME NEW l \in Learners, ProjectEvidence(l) PROVE PathInvariant'
  <2> DEFINE w == [NoVisit EXCEPT !.op = "replan", !.at = "plan", !.base = Len(versions),
                                  !.plan = pathEvidence]
  <2>1. /\ UNCHANGED <<path, selected, versions>> /\ lesson' \in 0..Topics
        /\ visit' = [visit EXCEPT ![l] = w]
    BY <1>1, <1>12 DEF ProjectEvidence, Reads
  <2>2. DOMAIN w = {"op", "at", "base", "state", "plan"} /\ w.at = "plan" BY <1>1
  <2> HIDE DEF w
  <2> QED BY <2>1, <2>2, VisitStep DEF VisitPoints
<1>13. ASSUME NEW l \in Learners, PlanAdaptation(l) PROVE PathInvariant'
  <2> DEFINE v    == visit[l]
             p    == Here.plan
             q    == Without(p, Redundant(p, v.plan, lesson))
             what == [evidence |-> v.plan, lesson |-> lesson,
                      decisions |-> Decisions(p, q, v.plan)]
             w    == [v EXCEPT !.at = "state", !.plan = Version(q, "replanned", v.base, what)]
  <2>1. /\ UNCHANGED <<path, selected, versions>> /\ lesson' \in 0..Topics
        /\ v.op = "replan"
    BY <1>1, <1>13 DEF PlanAdaptation, Atp
  <2>2. CASE Done(l) BY <2>1, <2>2, VisitDone
  <2>3. CASE v.base = Len(versions) /\ ReadsOn(l, w)
    <3>1. Sound(q) /\ KeepsOrder(p, q) BY <1>3, ReplanIsSound
    <3> HIDE DEF q, what
    <3>2. visit' = [visit EXCEPT ![l] = w] BY <2>3 DEF ReadsOn
    <3>3. /\ DOMAIN w = {"op", "at", "base", "state", "plan"} /\ w.at = "state"
          /\ w.plan.plan = q /\ w.plan.by = "replanned" /\ w.op = v.op /\ w.base = v.base
      BY <1>2 DEF Version
    <3> HIDE DEF w
    <3>4. Ready(w)
      <4>1. w.base = Len(versions) /\ w.op # "replace" BY <2>1, <2>3, <3>3
      <4>2. KeepsOrder(versions[w.base].plan, w.plan.plan) BY <3>1, <3>3, <4>1 DEF Here
      <4> QED BY <1>3, <3>1, <3>3, <4>1, <4>2 DEF Ready
    <3> QED BY <2>1, <3>2, <3>3, <3>4, VisitStep DEF VisitPoints
  <2>4. Done(l) \/ (v.base = Len(versions) /\ ReadsOn(l, w)) BY <1>13 DEF PlanAdaptation
  <2> QED BY <2>2, <2>3, <2>4
<1>14. ASSUME NEW l \in Learners, OfferTopic(l) PROVE PathInvariant'
  <2>1. PICK t \in Here.plan.topics :
          Reads(l, [NoVisit EXCEPT !.op = "handoff", !.at = "start", !.base = t])
    BY <1>14 DEF OfferTopic
  <2> DEFINE w == [NoVisit EXCEPT !.op = "handoff", !.at = "start", !.base = t]
  <2>2. /\ UNCHANGED <<path, selected, versions>> /\ lesson' \in 0..Topics
        /\ visit' = [visit EXCEPT ![l] = w]
    BY <1>1, <1>14, <2>1 DEF OfferTopic, Reads
  <2>3. DOMAIN w = {"op", "at", "base", "state", "plan"} /\ w.at = "start" /\ w.base = t
    BY <1>1
  <2>4. t \in AllTopics BY <1>3 DEF Sound, Curricula
  <2> HIDE DEF w
  <2> QED BY <2>2, <2>3, <2>4, VisitStep DEF VisitPoints
<1>15. ASSUME NEW l \in Learners, StartLesson(l) PROVE PathInvariant'
  <2>1. visit[l].base \in AllTopics
    BY <1>15 DEF StartLesson, Atp, PathInvariant, VisitsHold
  <2>2. lesson' \in 0..Topics /\ UNCHANGED <<path, selected, versions>> /\ Done(l)
    BY <1>1, <1>15, <2>1, LPAssumption DEF StartLesson, AllTopics
  <2> QED BY <2>2, VisitDone
<1> QED BY <1>4, <1>5, <1>6, <1>7, <1>8, <1>9, <1>10, <1>11, <1>12, <1>13, <1>14, <1>15
        DEF LPNext

LEMMA PathInvariantHolds == LPSpec => []PathInvariant
<1>1. LPInit => PathInvariant BY PathStart
<1>2. PathInvariant /\ [LPNext]_lpVars => PathInvariant' BY PathStep
<1> QED BY <1>1, <1>2, PTL DEF LPSpec

\* service.py:290-328: in a version the replan wrote, the milestone and what it requires are
\* those of the version before, and every topic that stays has before it exactly the topics that
\* stay and were before it, however many requests edit, replace and replan the path at once and
\* whatever the curriculum, also when the lesson between two topics was taken out.
THEOREM ReplannedTopicsStayInOrder == LPSpec => []ReplanKeepsOrder
<1>1. PathInvariant => ReplanKeepsOrder
  BY DEF PathInvariant, VersionsHold, KeepsOrder, ReplanKeepsOrder
<1> QED BY <1>1, PathInvariantHolds, PTL

\* validation.py:40-48, 306-335: the version in force is a curriculum the validator accepts, with
\* topics, no edge outside them, no cycle and a milestone that declares its direct
\* prerequisites. It holds of the replans too, which revise hands to the validator once more
\* (service.py:401, 468): taking topics out never makes a curriculum that it would refuse.
THEOREM CurriculumStaysValid == LPSpec => []LPTypeOK
<1>1. PathInvariant => LPTypeOK
  <2> SUFFICES ASSUME PathInvariant PROVE LPTypeOK
    OBVIOUS
  <2>1. Len(versions) \in DOMAIN versions
    BY VersionsAppend DEF PathInvariant, PathShape
  <2>2. Valid(Here.plan) BY <2>1 DEF PathInvariant, VersionsHold, Sound, Here
  <2>3. selected \in BOOLEAN BY DEF PathInvariant, PathShape
  <2> QED BY <2>2, <2>3 DEF LPTypeOK, PathInvariant, PathShape, PathStates
<1> QED BY <1>1, PathInvariantHolds, PTL
=============================================================================
