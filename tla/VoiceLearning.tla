---------------------------- MODULE VoiceLearning ----------------------------
(* Answering a lesson by voice: interface/voice_learning.py                   *)
(* (VoiceLearningCoordinator) with the Stop path of interface/conversation.py *)
(* and voice_conversation.py.  The voice thread takes one turn at a time; a   *)
(* spoken answer is a draft until the owner confirms it, then it is recorded, *)
(* reviewed by the local model and its verdict committed.  Meanwhile another  *)
(* thread may hear Stop, and the browser works on the same learner records.   *)
(*                                                                            *)
(* Lessons are numbered missions; questions are numbered.  The path is        *)
(* abstracted to whether its current lesson has changed: a new mission.       *)
EXTENDS Integers, FiniteSets

CONSTANTS LessonQuestions,  \* number of questions of a lesson
          Texts,      \* what the owner may say as an answer
          MaxMissions, MaxLearningTurns, MaxDrafts

ASSUME VLAssumption ==
    /\ LessonQuestions \in Nat \ {0} /\ MaxMissions \in Nat \ {0}
    /\ MaxLearningTurns \in Nat /\ MaxDrafts \in Nat

VARIABLES course,        \* the mission career_forge.resume() finds, and its question
          spokenDraft,         \* _pending: {} or the one draft
          lessonAttempts,      \* the rows of lesson_attempts
          learningTurn,  \* the voice thread
          stopping,      \* the thread that heard Stop
          reviewing,     \* _active_review_turn_id, 0 for none
          stopped        \* turns whose Stop answered that a review was cancelled

vlVars == <<course, spokenDraft, lessonAttempts, learningTurn, stopping, reviewing, stopped>>

Quiet == [at |-> "quiet", n |-> 0, cancelled |-> FALSE, draft |-> {}, attempt |-> 0]
In(here) == learningTurn.at = here
Moves(there) == learningTurn' = [learningTurn EXCEPT !.at = there]
\* The turn answers; its number stays, for the next one.
LearningTurnEnds == learningTurn' = [Quiet EXCEPT !.n = learningTurn.n]
KeepStops == UNCHANGED <<stopping, stopped>>

VLInit ==
    /\ course = [mission |-> 0, open |-> FALSE, question |-> 1]
    /\ spokenDraft = {} /\ lessonAttempts = {} /\ learningTurn = Quiet
    /\ stopping = 0 /\ reviewing = 0 /\ stopped = {}

AnsweredQuestion(m) == {q \in 1..LessonQuestions :
                          \E a \in lessonAttempts : a.mission = m /\ a.question = q /\ a.verdict = "correct"}
\* _next_question_id: the first question without an independent correct answer.
NextQuestion(m) ==
    IF AnsweredQuestion(m) = 1..LessonQuestions THEN 1
    ELSE CHOOSE q \in 1..LessonQuestions \ AnsweredQuestion(m) :
            \A r \in 1..LessonQuestions \ AnsweredQuestion(m) : q <= r

(* -------------------------------- a turn --------------------------------- *)

Actions == {"continue", "answer", "correct", "discard", "confirm", "check"}
BeginTurn ==
    /\ In("quiet") /\ learningTurn.n < MaxLearningTurns
    /\ \E action \in Actions :
         learningTurn' = [Quiet EXCEPT !.at = action, !.n = learningTurn.n + 1]
    /\ UNCHANGED <<course, spokenDraft, lessonAttempts, reviewing>> /\ KeepStops
\* handle: a turn that was cancelled before it is dispatched does nothing.
CancelledEarly ==
    /\ learningTurn.at \in Actions /\ learningTurn.cancelled /\ LearningTurnEnds
    /\ UNCHANGED <<course, spokenDraft, lessonAttempts, reviewing>> /\ KeepStops

\* _prepare_lesson: goes on with the active lesson, or starts the next one.
Continue ==
    /\ In("continue") /\ ~learningTurn.cancelled
    /\ \/ UNCHANGED course
       \/ /\ ~course.open /\ course.mission < MaxMissions
          /\ course' = [mission |-> course.mission + 1, open |-> TRUE,
                        question |-> NextQuestion(course.mission + 1)]
    /\ LearningTurnEnds /\ UNCHANGED <<spokenDraft, lessonAttempts, reviewing>> /\ KeepStops

\* A new answer takes over the identity of the draft it replaces.
DraftId == IF spokenDraft = {} THEN Cardinality({a.id : a \in lessonAttempts}) + 1
           ELSE (CHOOSE d \in spokenDraft : TRUE).id
SaveSpokenDraft ==
          /\ In("answer") /\ ~learningTurn.cancelled
          /\ \/ ~course.open /\ UNCHANGED spokenDraft
             \/ /\ course.open /\ DraftId <= MaxDrafts
                /\ \E text \in Texts :
                     spokenDraft' = {[id |-> DraftId, mission |-> course.mission,
                                      question |-> course.question, text |-> text]}
          /\ LearningTurnEnds /\ UNCHANGED <<course, lessonAttempts, reviewing>> /\ KeepStops
ReplaceDraft ==
    /\ In("correct") /\ ~learningTurn.cancelled
    /\ \E text \in Texts : spokenDraft' = {[d EXCEPT !.text = text] : d \in spokenDraft}
    /\ LearningTurnEnds /\ UNCHANGED <<course, lessonAttempts, reviewing>> /\ KeepStops
DiscardDraft ==
    /\ In("discard") /\ ~learningTurn.cancelled
    /\ spokenDraft' = {}
    /\ LearningTurnEnds /\ UNCHANGED <<course, lessonAttempts, reviewing>> /\ KeepStops

(* --------------------------- confirm and assess --------------------------- *)

SameLesson(d) == course.open /\ course.mission = d.mission
Confirm ==
    /\ In("confirm") /\ ~learningTurn.cancelled
    /\ IF spokenDraft # {} /\ \A d \in spokenDraft : SameLesson(d)
       THEN /\ learningTurn' = [learningTurn EXCEPT !.at = "record", !.draft = spokenDraft]
            /\ UNCHANGED spokenDraft
       ELSE LearningTurnEnds /\ spokenDraft' = {}    \* nothing to confirm, or another lesson
    /\ UNCHANGED <<course, lessonAttempts, reviewing>> /\ KeepStops

\* record_attempt: the row is inserted by its identity; the same submission
\* again returns it, another one under the same identity is refused.
Clashes(d) == \E a \in lessonAttempts : a.id = d.id /\ ~(a.question = d.question
                                                  /\ a.text = d.text /\ a.mission = d.mission)
AlreadyRecorded(d) == \E a \in lessonAttempts : a.id = d.id
Recordable(d) == course.open /\ course.mission = d.mission /\ ~Clashes(d)
Inserted(d) == [id |-> d.id, mission |-> d.mission, question |-> d.question,
                text |-> d.text, verdict |-> "pending", by |-> 0]
\* The draft stays "available for correction or cancellation".
KeepsDraft(d) == d
RecordLessonAttempt ==
          /\ In("record")
          /\ \E d \in learningTurn.draft :
               \/ /\ Recordable(d) /\ AlreadyRecorded(d)
                  /\ learningTurn' = [learningTurn EXCEPT !.at = "clear", !.attempt = d.id]
                  /\ UNCHANGED <<lessonAttempts, spokenDraft>>
               \/ /\ Recordable(d) /\ ~AlreadyRecorded(d)
                  /\ lessonAttempts' = lessonAttempts \cup {Inserted(d)}
                  /\ learningTurn' = [learningTurn EXCEPT !.at = "resume point", !.attempt = d.id]
                  /\ UNCHANGED spokenDraft
               \/ /\ ~Recordable(d)
                  /\ LearningTurnEnds /\ UNCHANGED lessonAttempts
                  /\ spokenDraft' = KeepsDraft(spokenDraft)
          /\ UNCHANGED <<course, reviewing>> /\ KeepStops

\* update_resume, a second transaction, refuses a mission that has ended: the
\* answer is then reported as not submitted and the draft is kept.
PointAtQuestion ==
    /\ In("resume point")
    /\ \E d \in learningTurn.draft :
         IF SameLesson(d)
         THEN course' = [course EXCEPT !.question = d.question] /\ Moves("clear")
              /\ UNCHANGED spokenDraft
         ELSE LearningTurnEnds /\ spokenDraft' = KeepsDraft(spokenDraft) /\ UNCHANGED course
    /\ UNCHANGED <<lessonAttempts, reviewing>> /\ KeepStops
ClearDraft ==
    /\ In("clear")
    /\ spokenDraft' = {d \in spokenDraft : d.id # learningTurn.attempt}
    /\ IF learningTurn.cancelled THEN LearningTurnEnds ELSE Moves("evaluate")
    /\ UNCHANGED <<course, lessonAttempts, reviewing>> /\ KeepStops

\* "Check my answer": the latest answer of this lesson that has no verdict.
Waiting == {a \in lessonAttempts : a.verdict = "pending" /\ a.mission = course.mission}
Check ==
    /\ In("check") /\ ~learningTurn.cancelled
    /\ IF course.open /\ Waiting # {}
       THEN \E a \in Waiting : /\ \A b \in Waiting : b.id <= a.id
                               /\ learningTurn' = [learningTurn EXCEPT !.at = "evaluate",
                                                                       !.attempt = a.id]
       ELSE LearningTurnEnds
    /\ UNCHANGED <<course, spokenDraft, lessonAttempts, reviewing>> /\ KeepStops

BeginReview ==
    /\ In("evaluate")
    /\ IF learningTurn.cancelled THEN LearningTurnEnds /\ UNCHANGED reviewing
       ELSE Moves("review") /\ reviewing' = learningTurn.n
    /\ UNCHANGED <<course, spokenDraft, lessonAttempts>> /\ KeepStops
\* The stream ends with a verdict; or it fails, is malformed, or is cancelled,
\* and the marker is cleared in the finally clause.
ReviewEnds ==
    /\ In("review") /\ Moves("commit")
    /\ UNCHANGED <<course, spokenDraft, lessonAttempts, reviewing>> /\ KeepStops
ReviewFails ==
    /\ learningTurn.at \in {"review", "commit"} /\ reviewing' = 0 /\ LearningTurnEnds
    /\ UNCHANGED <<course, spokenDraft, lessonAttempts>> /\ KeepStops

\* Mutant: the event is only looked at while the stream runs.
NotStoppedInStream == TRUE
\* The guarded commit boundary: under _review_lock the event is read again.
NotStopped == ~learningTurn.cancelled
CommitVerdict ==
    /\ In("commit")
    /\ reviewing' = 0
    /\ IF NotStopped
       THEN \E verdict \in {"correct", "incorrect"} :
              /\ lessonAttempts' = {IF a.id = learningTurn.attempt /\ a.verdict = "pending"
                                    THEN [a EXCEPT !.verdict = verdict, !.by = learningTurn.n] ELSE a :
                                    a \in lessonAttempts}
              /\ Moves("advance")
       ELSE LearningTurnEnds /\ UNCHANGED lessonAttempts
    /\ UNCHANGED <<course, spokenDraft>> /\ KeepStops
\* A correct answer moves the lesson on; a mission that ended refuses, and that
\* is ignored: the verdict is authoritative.
AdvanceQuestion ==
    /\ In("advance")
    /\ course' = IF \E a \in lessonAttempts : /\ a.id = learningTurn.attempt /\ a.verdict = "correct"
                                        /\ course.open /\ a.mission = course.mission
                 THEN [course EXCEPT !.question = NextQuestion(course.mission)] ELSE course
    /\ LearningTurnEnds /\ UNCHANGED <<spokenDraft, lessonAttempts, reviewing>> /\ KeepStops

(* ------------------------------- stop, web -------------------------------- *)

\* cancel_active_voice_action sets the event of the active turn first.
HearLearningStop ==
            /\ stopping = 0 /\ learningTurn.at # "quiet" /\ ~learningTurn.cancelled
            /\ learningTurn' = [learningTurn EXCEPT !.cancelled = TRUE]
            /\ stopping' = learningTurn.n
            /\ UNCHANGED <<course, spokenDraft, lessonAttempts, reviewing, stopped>>
\* cancel_active_review, under _review_lock; only a Stop that cancelled
\* something goes on to discard the draft.
CancelReview ==
    /\ stopping # 0
    /\ IF reviewing = stopping
       THEN stopped' = stopped \cup {stopping} /\ spokenDraft' = {}
       ELSE UNCHANGED <<stopped, spokenDraft>>
    /\ stopping' = 0
    /\ UNCHANGED <<course, lessonAttempts, learningTurn, reviewing>>

\* The browser finishes the lesson, starts another, or has an answer reviewed.
FinishMission ==
    /\ course.open /\ course' = [course EXCEPT !.open = FALSE]
    /\ UNCHANGED <<spokenDraft, lessonAttempts, learningTurn, reviewing>> /\ KeepStops
OpenLesson ==
   /\ ~course.open /\ course.mission < MaxMissions
   /\ course' = [mission |-> course.mission + 1, open |-> TRUE, question |-> 1]
   /\ UNCHANGED <<spokenDraft, lessonAttempts, learningTurn, reviewing>> /\ KeepStops
ReviewInBrowser ==
    /\ \E a \in lessonAttempts, v \in {"correct", "incorrect"} :
         /\ a.verdict = "pending"
         /\ lessonAttempts' = (lessonAttempts \ {a}) \cup {[a EXCEPT !.verdict = v]}
    /\ UNCHANGED <<course, spokenDraft, learningTurn, reviewing>> /\ KeepStops

VLNext ==
    \/ BeginTurn \/ CancelledEarly \/ Continue \/ SaveSpokenDraft \/ ReplaceDraft \/ DiscardDraft
    \/ Confirm \/ RecordLessonAttempt \/ PointAtQuestion \/ ClearDraft \/ Check
    \/ BeginReview \/ ReviewEnds \/ ReviewFails \/ CommitVerdict \/ AdvanceQuestion
    \/ HearLearningStop \/ CancelReview
    \/ FinishMission \/ OpenLesson \/ ReviewInBrowser

VLSpec == VLInit /\ [][VLNext]_vlVars

(* ------------------------------ properties -------------------------------- *)

Drafts == [id : 1..MaxDrafts, mission : 1..MaxMissions, question : 1..LessonQuestions, text : Texts]
VLTypeOK ==
    /\ course \in [mission : 0..MaxMissions, open : BOOLEAN, question : 1..LessonQuestions]
    /\ spokenDraft \subseteq Drafts /\ Cardinality(spokenDraft) <= 1
    /\ lessonAttempts \subseteq
               [id : 1..MaxDrafts, mission : 1..MaxMissions, question : 1..LessonQuestions, text : Texts,
                verdict : {"pending", "correct", "incorrect"}, by : 0..MaxLearningTurns]
    /\ learningTurn \in [at : {"quiet", "record", "resume point", "clear", "evaluate", "review",
                               "commit", "advance"} \cup Actions,
                         n : 0..MaxLearningTurns, cancelled : BOOLEAN, draft : SUBSET Drafts,
                         attempt : 0..MaxDrafts]
    /\ stopping \in 0..MaxLearningTurns /\ reviewing \in 0..MaxLearningTurns
    /\ stopped \subseteq 1..MaxLearningTurns

\* "A Stop arriving before this guarded commit boundary leaves the attempt
\* pending": no verdict is written by a turn whose review the Stop cancelled
\* (_evaluate_attempt against cancel_active_voice_action).
StoppedReviewDecidesNothing == \A a \in lessonAttempts : a.by \notin stopped

\* A confirmed answer is never lost: while its submission is under way the
\* draft goes only when the answer is recorded as it was heard, or a Stop
\* discards it (_confirm_and_assess).
UnderWay == learningTurn.at \in {"record", "resume point", "clear"} /\ spokenDraft # {}
DraftGoesWhenRecorded ==
    [][UnderWay /\ spokenDraft' = {} /\ stopping' = stopping =>
          \A d \in spokenDraft : \E a \in lessonAttempts :
              a.id = d.id /\ a.text = d.text]_vlVars
=============================================================================
