--------------------------- MODULE CareerAssessment ---------------------------
(***************************************************************************)
(* How an answer given in Career Forge becomes a verdict and, when it is    *)
(* right, evidence: the interview, the check of an older concept (an        *)
(* interleaving), the retention review and the question about a piece of    *)
(* code, all over one mission (career_forge/service.py, practice_lab.py and *)
(* the handlers of interface/api.py).                                       *)
(*                                                                          *)
(* Every `with self._db()` block is one transaction and one step here; a    *)
(* handler is a worker that takes several.  The `async def` handlers run on *)
(* the event loop, one after another, and keep it while the model answers;  *)
(* the `def` handlers run on threads.  The interaction lease serialises the *)
(* model calls and nothing else.  A crash loses the workers and the lease.  *)
(***************************************************************************)
EXTENDS Integers, Sequences, FiniteSets

CONSTANTS
  Loop,           \* the event loop
  Threads,        \* the worker threads a `def` handler may run on
  MaxAttempts,    \* bound: answers recorded
  MaxSubjects     \* bound: interviews, interleavings, code questions, crashes, each

ASSUME CABoundsAssumption == MaxAttempts \in Nat \ {0} /\ MaxSubjects \in Nat \ {0}

Workers  == Threads \cup {Loop}
Verdicts == {"correct", "incorrect", "uncertain"}

VARIABLES
  mission,        \* "active" or "completed"
  resumeQuestion, \* the question id of the mission's one resume point
  attempts,       \* lesson_attempts, in order
  evidence,       \* mission_evidence: the attempt each row came from, and its type
  interview,      \* the newest interview
  fingerprints,   \* career_interview_attempts: the curriculum an answer was bound under
  curriculum,     \* the version of the curriculum the process was built with
  item,           \* the newest interleaving of the older concept
  review,         \* the newest retention review of the older concept
  draft,          \* the version of the Practice Lab draft
  codeQuestion,   \* the draft version the code question in the resume point is about
  lease,          \* who holds the interaction lease
  work,           \* what each worker is doing
  subjects        \* how many interviews, items, questions and crashes there were

caVars == <<mission, resumeQuestion, attempts, evidence, interview, fingerprints,
            curriculum, item, review, draft, codeQuestion, lease, work, subjects>>

\* A handler that runs: what it does, where it is and what it read before.
Idle == [op |-> "idle", at |-> "-", saw |-> 0, fresh |-> TRUE, verdict |-> "-"]

CAInit ==
  /\ mission = "active" /\ resumeQuestion = <<"lesson", 0>>
  /\ attempts = << >> /\ evidence = {}
  /\ interview = [state |-> "none", turn |-> 0, current |-> 0]
  /\ fingerprints = << >> /\ curriculum = 1
  /\ item = [state |-> "none", attempt |-> 0, evaluation |-> "-"]
  /\ review \in {[state |-> "none", answer |-> 0, evaluation |-> "-"],
                 [state |-> "scheduled", answer |-> 0, evaluation |-> "-"]}
  /\ draft = 1 /\ codeQuestion = 0 /\ lease = "free"
  /\ work = [w \in Workers |-> Idle]
  /\ subjects = [interviews |-> 0, items |-> 0, questions |-> 0, crashes |-> 0]

-----------------------------------------------------------------------------
Is(w, op, at)  == work[w].op = op /\ work[w].at = at
Start(w, r)    == work[w] = Idle /\ work' = [work EXCEPT ![w] = r]
Goto(w, at)    == work' = [work EXCEPT ![w].at = at]
\* The handler ends, with an answer or an HTTP error; its `finally` gives the lease back.
Leaves(w)      == work' = [work EXCEPT ![w] = Idle] /\ lease' = IF lease = w THEN "free" ELSE lease

\* lesson_attempts grows by one pending row; `kind` is what was really answered.
RecordAttempt(question, kind) ==
  /\ Len(attempts) < MaxAttempts
  /\ attempts' = Append(attempts, [question |-> question, kind |-> kind,
                                   verdict |-> "pending", criterion |-> "-", judged |-> 0])

\* Mutant: an answer that was judged may be judged again.
JudgeAnyway(a) == mission = "active"

\* evaluate_attempt may write: the attempt is still pending and its mission active.
Judgeable(a) == attempts[a].verdict = "pending" /\ mission = "active"

\* evaluate_attempt in its one transaction: the verdict, the evidence of a correct answer
\* (where the caller names a type) and the question in the resume point.
EvaluateAttempt(a, verdict, type, criterion, judged) ==
  /\ Judgeable(a)
  /\ attempts' = [attempts EXCEPT ![a].verdict = verdict, ![a].criterion = criterion,
                                  ![a].judged = judged]
  /\ evidence' = IF verdict = "correct" /\ type # "-"
                 THEN evidence \cup {[source |-> a, type |-> type, n |-> Cardinality(evidence) + 1]}
                 ELSE evidence
  /\ resumeQuestion' = attempts[a].question

\* try_acquire("presentation"): the handler goes on with the lease, or answers 409.
TakeLease(w, at) ==
  \/ lease = "free" /\ lease' = w /\ Goto(w, at)
  \/ lease # "free" /\ Leaves(w)

\* The model answers with a labelled verdict, or fails and the answer may be sent again.
ModelAnswers(w, at) ==
  /\ \/ \E v \in Verdicts : work' = [work EXCEPT ![w] = [@ EXCEPT !.at = at, !.verdict = v]] /\ UNCHANGED lease
     \/ Leaves(w)

-----------------------------------------------------------------------------
(* The interview.                                                           *)

\* start_interview: one open interview for an active mission.
StartInterview ==
  /\ mission = "active" /\ interview.state \in {"none", "completed"}
  /\ subjects.interviews < MaxSubjects
  /\ interview' = [state |-> "awaiting_answer", turn |-> 1, current |-> 0]
  /\ subjects' = [subjects EXCEPT !.interviews = @ + 1]
  /\ UNCHANGED <<mission, resumeQuestion, attempts, evidence, fingerprints, curriculum, item,
                 review, draft, codeQuestion, lease, work>>

\* submit_interview_answer, the answer is a row of lesson_attempts.
RecordInterviewAnswer ==
  /\ interview.state = "awaiting_answer"
  /\ RecordAttempt(<<"interview", interview.turn>>, "interview")
  /\ Start(Loop, [Idle EXCEPT !.op = "answer", !.at = "phase", !.saw = Len(attempts) + 1])
  /\ UNCHANGED <<mission, resumeQuestion, evidence, interview, fingerprints, curriculum, item,
                 review, draft, codeQuestion, lease, subjects>>

\* record_attempt's second transaction, update_resume: refused once the mission is over.
MoveResumePoint ==
  /\ work[Loop].at = "phase"
  /\ \/ /\ mission = "active"
        /\ resumeQuestion' = attempts[work[Loop].saw].question
        /\ Goto(Loop, IF work[Loop].op = "code" THEN "ask" ELSE "bind")
        /\ UNCHANGED lease
     \/ mission # "active" /\ Leaves(Loop) /\ UNCHANGED resumeQuestion
  /\ UNCHANGED <<mission, attempts, evidence, interview, fingerprints, curriculum, item, review,
                 draft, codeQuestion, subjects>>

\* The third transaction: the answer is bound to the question it was given to.
BindInterviewAnswer ==
  /\ Is(Loop, "answer", "bind")
  /\ fingerprints' = [a \in DOMAIN fingerprints \cup {work[Loop].saw} |->
                        IF a = work[Loop].saw THEN curriculum ELSE fingerprints[a]]
  /\ interview' = IF interview.state = "awaiting_answer"
                  THEN [interview EXCEPT !.state = "awaiting_evaluation", !.current = work[Loop].saw]
                  ELSE interview
  /\ Leaves(Loop)
  /\ UNCHANGED <<mission, resumeQuestion, attempts, evidence, curriculum, item, review, draft,
                 codeQuestion, subjects>>

\* The evaluation handler reads the interview and its attempt before it has the lease.
ReadInterview(t) ==
  /\ interview.state = "awaiting_evaluation" /\ interview.current # 0
  /\ Start(t, [Idle EXCEPT !.op = "interview", !.at = "lease", !.saw = interview.current,
                           !.fresh = attempts[interview.current].verdict = "pending",
                           !.verdict = attempts[interview.current].verdict])
  /\ UNCHANGED <<mission, resumeQuestion, attempts, evidence, interview, fingerprints, curriculum,
                 item, review, draft, codeQuestion, lease, subjects>>

\* interview_assessment_stale of the interview as it is now.
Stale == LET a == interview.current
         IN a \notin DOMAIN fingerprints \/ fingerprints[a] # curriculum
              \/ attempts[a].question # <<"interview", interview.turn>>

\* With the lease: an answer already judged is recovered, a stale one is not shown to the model.
LookAtInterview(t) ==
  /\ Is(t, "interview", "look")
  /\ \/ ~work[t].fresh /\ Goto(t, "store") /\ UNCHANGED lease
     \/ /\ work[t].fresh /\ interview.state = "awaiting_evaluation"
        /\ IF Stale THEN work' = [work EXCEPT ![t] = [@ EXCEPT !.at = "store", !.verdict = "uncertain"]]
                    ELSE Goto(t, "model")
        /\ UNCHANGED lease
     \/ work[t].fresh /\ interview.state # "awaiting_evaluation" /\ Leaves(t)
  /\ UNCHANGED <<mission, resumeQuestion, attempts, evidence, interview, fingerprints, curriculum,
                 item, review, draft, codeQuestion, subjects>>

\* evaluate_interview_answer reads the interview again and judges the answer it finds there,
\* unless a crash left it judged.
StoreInterviewVerdict(t) ==
  /\ Is(t, "interview", "store")
  /\ LET a      == interview.current
         waits  == interview.state = "awaiting_evaluation"
         judged == waits /\ attempts[a].verdict # "pending"
     IN \/ /\ waits /\ Judgeable(a)
           /\ IF Stale THEN EvaluateAttempt(a, "uncertain", "-", "interview", a)
              ELSE EvaluateAttempt(a, work[t].verdict, "interview_response", "interview", work[t].saw)
           /\ Goto(t, "advance") /\ UNCHANGED lease
        \/ judged /\ Goto(t, "advance") /\ UNCHANGED <<attempts, evidence, resumeQuestion, lease>>
        \/ /\ ~judged /\ (waits => ~Judgeable(a))
           /\ Leaves(t) /\ UNCHANGED <<attempts, evidence, resumeQuestion>>
  /\ UNCHANGED <<mission, interview, fingerprints, curriculum, item, review, draft, codeQuestion,
                 subjects>>

\* The interview goes on to its second question or ends, whatever its row says by now.
AdvanceInterview(t) ==
  /\ Is(t, "interview", "advance")
  /\ interview' = IF interview.turn >= 2
                  THEN [interview EXCEPT !.state = "completed", !.current = 0]
                  ELSE [state |-> "awaiting_answer", turn |-> 2, current |-> 0]
  /\ Leaves(t)
  /\ UNCHANGED <<mission, resumeQuestion, attempts, evidence, fingerprints, curriculum, item,
                 review, draft, codeQuestion, subjects>>

-----------------------------------------------------------------------------
(* The interleaved check of an older concept.                               *)

\* interleaving_candidate: one open check per mission, none after a correct one.
PrepareItem ==
  /\ mission = "active" /\ subjects.items < MaxSubjects
  /\ item.state = "none" \/ (item.state = "completed" /\ item.evaluation # "correct")
  /\ item' = [state |-> "awaiting_answer", attempt |-> 0, evaluation |-> "-"]
  /\ subjects' = [subjects EXCEPT !.items = @ + 1]
  /\ UNCHANGED <<mission, resumeQuestion, attempts, evidence, interview, fingerprints, curriculum,
                 review, draft, codeQuestion, lease, work>>

\* submit_interleaving: the fresh answer is recorded, then bound to the check.
RecordItemAnswer ==
  /\ item.state = "awaiting_answer"
  /\ RecordAttempt(<<"interleave", subjects.items>>, "interleave")
  /\ Start(Loop, [Idle EXCEPT !.op = "item", !.at = "phase", !.saw = Len(attempts) + 1])
  /\ UNCHANGED <<mission, resumeQuestion, evidence, interview, fingerprints, curriculum, item,
                 review, draft, codeQuestion, lease, subjects>>

BindItemAnswer ==
  /\ Is(Loop, "item", "bind")
  /\ item' = [item EXCEPT !.state = "awaiting_evaluation", !.attempt = work[Loop].saw]
  /\ Leaves(Loop)
  /\ UNCHANGED <<mission, resumeQuestion, attempts, evidence, interview, fingerprints, curriculum,
                 review, draft, codeQuestion, subjects>>

ReadItem(t) ==
  /\ item.state = "awaiting_evaluation" /\ item.attempt # 0
  /\ Start(t, [Idle EXCEPT !.op = "check", !.at = "lease", !.saw = item.attempt])
  /\ UNCHANGED <<mission, resumeQuestion, attempts, evidence, interview, fingerprints, curriculum,
                 item, review, draft, codeQuestion, lease, subjects>>

\* evaluate_interleaving judges the attempt: an attempt that was judged already is refused.
StoreItemVerdict(t) ==
  /\ Is(t, "check", "store")
  /\ \/ /\ item.state = "awaiting_evaluation" /\ Judgeable(item.attempt)
        /\ EvaluateAttempt(item.attempt, work[t].verdict, "-", "interleave", work[t].saw)
        /\ Goto(t, IF work[t].verdict = "correct" THEN "evidence" ELSE "complete")
        /\ UNCHANGED lease
     \/ /\ ~(item.state = "awaiting_evaluation" /\ Judgeable(item.attempt))
        /\ Leaves(t) /\ UNCHANGED <<attempts, evidence, resumeQuestion>>
  /\ UNCHANGED <<mission, interview, fingerprints, curriculum, item, review, draft, codeQuestion,
                 subjects>>

\* The transfer evidence of a correct answer is a transaction of its own,
RecordTransfer(t) ==
  /\ Is(t, "check", "evidence")
  /\ evidence' = evidence \cup {[source |-> item.attempt, type |-> "interleaved_transfer",
                                 n |-> Cardinality(evidence) + 1]}
  /\ Goto(t, "review")
  /\ UNCHANGED <<mission, resumeQuestion, attempts, interview, fingerprints, curriculum, item,
                 review, draft, codeQuestion, lease, subjects>>

\* and so is the review it renews: what was scheduled or delivered is superseded.
RenewReview(t) ==
  /\ Is(t, "check", "review")
  /\ review' = [state |-> "scheduled", answer |-> 0, evaluation |-> "-"]
  /\ Goto(t, "complete")
  /\ UNCHANGED <<mission, resumeQuestion, attempts, evidence, interview, fingerprints, curriculum,
                 item, draft, codeQuestion, lease, subjects>>

CompleteItem(t) ==
  /\ Is(t, "check", "complete")
  /\ item' = [item EXCEPT !.state = "completed", !.evaluation = work[t].verdict]
  /\ Leaves(t)
  /\ UNCHANGED <<mission, resumeQuestion, attempts, evidence, interview, fingerprints, curriculum,
                 review, draft, codeQuestion, subjects>>

-----------------------------------------------------------------------------
(* The retention review.                                                    *)

\* deliver_retention_review: a scheduled review that is due, once.
DeliverReview ==
  /\ review.state = "scheduled" /\ review' = [review EXCEPT !.state = "delivered"]
  /\ UNCHANGED <<mission, resumeQuestion, attempts, evidence, interview, fingerprints, curriculum,
                 item, draft, codeQuestion, lease, work, subjects>>

\* The handler takes the answer it was sent, or the one that is bound already.
ReadReview ==
  /\ \E words \in {1, 2} :
       /\ \/ review.state = "delivered"
          \/ review.state = "awaiting_evaluation" /\ words = review.answer
       /\ Start(Loop, [Idle EXCEPT !.op = "review", !.at = "lease", !.saw = words])
  /\ UNCHANGED <<mission, resumeQuestion, attempts, evidence, interview, fingerprints, curriculum,
                 item, review, draft, codeQuestion, lease, subjects>>

\* submit_retention_response: the words are bound before the model sees them.
BindReviewAnswer ==
  /\ Is(Loop, "review", "submit")
  /\ LET same == review.state = "awaiting_evaluation" /\ review.answer = work[Loop].saw
     IN IF same \/ review.state = "delivered"
        THEN /\ review' = [review EXCEPT !.state = "awaiting_evaluation", !.answer = work[Loop].saw]
             /\ Goto(Loop, "model") /\ UNCHANGED lease
        ELSE Leaves(Loop) /\ UNCHANGED review
  /\ UNCHANGED <<mission, resumeQuestion, attempts, evidence, interview, fingerprints, curriculum,
                 item, draft, codeQuestion, subjects>>

\* evaluate_retention_review: only these words, of a review that waits for them.
StoreReviewVerdict ==
  /\ Is(Loop, "review", "store")
  /\ review' = IF /\ review.state \in {"delivered", "awaiting_evaluation"}
                  /\ review.answer \in {0, work[Loop].saw}
               THEN [state |-> "completed", answer |-> work[Loop].saw,
                     evaluation |-> work[Loop].verdict]
               ELSE review
  /\ Leaves(Loop)
  /\ UNCHANGED <<mission, resumeQuestion, attempts, evidence, interview, fingerprints, curriculum,
                 item, draft, codeQuestion, subjects>>

-----------------------------------------------------------------------------
(* The question about a piece of the owner's code.                          *)

\* save_draft: the source the question is about may change under it.
SaveDraft ==
  /\ work[Loop] = Idle /\ draft < 2 /\ draft' = draft + 1
  /\ UNCHANGED <<mission, resumeQuestion, attempts, evidence, interview, fingerprints, curriculum,
                 item, review, codeQuestion, lease, work, subjects>>

\* The answers recorded under a question id, and the one of them that waits for a verdict.
AnswersTo(question) == {a \in DOMAIN attempts : attempts[a].question = question}
PendingTo(question) == {a \in AnswersTo(question) : attempts[a].verdict = "pending"}

\* current_code_question: the code the resume point selected is unchanged and the question id
\* in the resume point has not been judged.  The id is whatever the resume point holds.
CurrentCodeQuestion ==
  /\ codeQuestion # 0 /\ codeQuestion = draft
  /\ AnswersTo(resumeQuestion) = PendingTo(resumeQuestion)

\* ask_about_code: the pending question if it still stands; a pending one whose source is gone
\* is judged uncertain; then a question of a fresh id goes into the resume point.
AskAboutCode ==
  /\ subjects.questions < MaxSubjects /\ mission = "active"
  /\ LET old == IF resumeQuestion[1] = "code" THEN PendingTo(resumeQuestion) ELSE {}
     IN /\ old # {} => ~CurrentCodeQuestion
        /\ attempts' = [a \in DOMAIN attempts |->
                          IF a \in old
                          THEN [attempts[a] EXCEPT !.verdict = "uncertain", !.criterion = "code",
                                                   !.judged = a]
                          ELSE attempts[a]]
  /\ resumeQuestion' = <<"code", subjects.questions + 1>> /\ codeQuestion' = draft
  /\ subjects' = [subjects EXCEPT !.questions = @ + 1]
  /\ UNCHANGED <<mission, evidence, interview, fingerprints, curriculum, item, review, draft,
                 lease, work>>

\* The handler of a code answer: the question stands, and it takes the lease.
ReadCodeQuestion ==
  /\ CurrentCodeQuestion
  /\ Start(Loop, [Idle EXCEPT !.op = "code", !.at = "lease"])
  /\ UNCHANGED <<mission, resumeQuestion, attempts, evidence, interview, fingerprints, curriculum,
                 item, review, draft, codeQuestion, lease, subjects>>

\* An answer that waits under the question id is taken up again, else a new one is recorded.
TakeCodeAnswer ==
  /\ Is(Loop, "code", "look")
  /\ LET waiting == PendingTo(resumeQuestion)
     IN \/ \E a \in waiting :
             /\ work' = [work EXCEPT ![Loop] = [@ EXCEPT !.at = "ask", !.saw = a]]
             /\ UNCHANGED attempts
        \/ /\ waiting = {} /\ RecordAttempt(resumeQuestion, "code")
           /\ work' = [work EXCEPT ![Loop] = [@ EXCEPT !.at = "phase", !.saw = Len(attempts) + 1]]
  /\ UNCHANGED <<mission, resumeQuestion, evidence, interview, fingerprints, curriculum, item,
                 review, draft, codeQuestion, lease, subjects>>

\* The source is checked again after the model answered: a change earns no evidence.
StoreCodeVerdict ==
  /\ Is(Loop, "code", "store")
  /\ LET a == work[Loop].saw
         v == IF CurrentCodeQuestion THEN work[Loop].verdict ELSE "uncertain"
     IN \/ EvaluateAttempt(a, v, "code_explanation", "code", a)
        \/ ~Judgeable(a) /\ UNCHANGED <<attempts, evidence, resumeQuestion>>
  /\ Leaves(Loop)
  /\ UNCHANGED <<mission, interview, fingerprints, curriculum, item, review, draft, codeQuestion,
                 subjects>>

-----------------------------------------------------------------------------
(* What they share.                                                         *)

Leasing ==
  /\ \E w \in Workers : /\ work[w].at = "lease"
                        /\ TakeLease(w, CASE work[w].op = "check" -> "model"
                                          [] work[w].op = "review" -> "submit"
                                          [] OTHER -> "look")
  /\ UNCHANGED <<mission, resumeQuestion, attempts, evidence, interview, fingerprints, curriculum,
                 item, review, draft, codeQuestion, subjects>>

Modelling ==
  /\ \E w \in Workers : work[w].at \in {"model", "ask"} /\ ModelAnswers(w, "store")
  /\ UNCHANGED <<mission, resumeQuestion, attempts, evidence, interview, fingerprints, curriculum,
                 item, review, draft, codeQuestion, subjects>>

\* advance_mastery, as far as the mission goes: its own evidence completes it, unless the newest
\* check of a direct prerequisite failed.
CompleteMission ==
  /\ work[Loop] = Idle /\ mission = "active"
  /\ \E e \in evidence : e.type # "interleaved_transfer"
  /\ item.evaluation \notin {"incorrect", "uncertain"}
  /\ mission' = "completed"
  /\ UNCHANGED <<resumeQuestion, attempts, evidence, interview, fingerprints, curriculum, item,
                 review, draft, codeQuestion, lease, work, subjects>>

\* The process ends, and comes back perhaps as a build with another curriculum.
Crash ==
  /\ subjects.crashes < MaxSubjects /\ subjects' = [subjects EXCEPT !.crashes = @ + 1]
  /\ work' = [w \in Workers |-> Idle] /\ lease' = "free"
  /\ curriculum' \in {curriculum, curriculum + 1}
  /\ UNCHANGED <<mission, resumeQuestion, attempts, evidence, interview, fingerprints, item,
                 review, draft, codeQuestion>>

OnLoop ==
  \/ RecordInterviewAnswer \/ MoveResumePoint \/ BindInterviewAnswer
  \/ RecordItemAnswer \/ BindItemAnswer
  \/ ReadReview \/ BindReviewAnswer \/ StoreReviewVerdict
  \/ SaveDraft \/ ReadCodeQuestion \/ TakeCodeAnswer \/ StoreCodeVerdict \/ CompleteMission

OnThreads ==
  \/ StartInterview \/ PrepareItem \/ DeliverReview \/ AskAboutCode
  \/ \E t \in Threads :
       \/ ReadInterview(t) \/ LookAtInterview(t) \/ StoreInterviewVerdict(t) \/ AdvanceInterview(t)
       \/ ReadItem(t) \/ StoreItemVerdict(t) \/ RecordTransfer(t) \/ RenewReview(t) \/ CompleteItem(t)

CANext == OnLoop \/ OnThreads \/ Leasing \/ Modelling \/ Crash

CASpec == CAInit /\ [][CANext]_caVars
-----------------------------------------------------------------------------
\* Every variable keeps its type: the states the tables and the handlers can be in.
CATypeOK ==
  /\ mission \in {"active", "completed"} /\ lease \in Workers \cup {"free"}
  /\ \A a \in DOMAIN attempts : /\ attempts[a].verdict \in Verdicts \cup {"pending"}
                                /\ attempts[a].judged \in 0..MaxAttempts
  /\ \A e \in evidence : e.source \in DOMAIN attempts
  /\ interview.state \in {"none", "awaiting_answer", "awaiting_evaluation", "completed"}
  /\ item.state \in {"none", "awaiting_answer", "awaiting_evaluation", "completed"}
  /\ review.state \in {"none", "scheduled", "delivered", "awaiting_evaluation", "completed"}
  /\ DOMAIN work = Workers

\* ADR 0041: correct evidence is unique to its assessed attempt, and only a correct attempt
\* earns any -- across retries, a crash between the transactions of an evaluation, two
\* evaluations of one answer and a code question that meets another question's answer.
EvidenceIsEarnedOnce ==
  /\ \A e \in evidence : attempts[e.source].verdict = "correct"
  /\ \A e, f \in evidence : e.source = f.source => e = f

\* An interview that waits for a verdict has an answer, bound under the question it asks, and
\* no later question: the states a restart finds are ones the next evaluation can finish.
InterviewCanGoOn ==
  interview.state = "awaiting_evaluation" =>
    /\ interview.current \in DOMAIN fingerprints
    /\ attempts[interview.current].question = <<"interview", interview.turn>>

\* career-forge.md: a different answer cannot replace the one a retention review holds, and a
\* verdict is never revised: the words that are judged are the words that were bound.
AnswersAndVerdictsStand ==
  [][/\ (review.state \in {"awaiting_evaluation", "completed"} /\ review'.state # "scheduled")
           => review'.answer = review.answer
     /\ \A a \in DOMAIN attempts :
          attempts[a].verdict # "pending" => attempts'[a].verdict = attempts[a].verdict]_caVars

\* ADR 0041: a verdict is about the answer it is stored with, judged by the question that was
\* asked -- not about the answer to another question.
VerdictIsOfTheAnswer ==
  \A a \in DOMAIN attempts :
    attempts[a].verdict # "pending" => /\ attempts[a].judged = a
                                       /\ attempts[a].criterion = attempts[a].kind
=============================================================================
