------------------------ MODULE VoiceComputerActions ------------------------
(***************************************************************************)
(* The owner's voice on top of the computer agency:                        *)
(* VoiceComputerActionService (interface/voice_actions.py).  One voice     *)
(* turn at a time creates a task, arms the Stop listener of the wake       *)
(* supervisor, acknowledges, runs the task, speaks a result or a question, *)
(* and records the outcome only when the playback is over; a later turn  *)
(* answers the question.  cancel_active runs in other threads (the wake    *)
(* capture, an API disconnect) and reads the fields under the lock before  *)
(* it writes the ledger.                                                   *)
(*                                                                         *)
(* The ledger is the row that matters here; its transactions are those of  *)
(* ComputerAgencyLedger.  What the runner did is a free choice among its   *)
(* outcomes.                                                               *)
(***************************************************************************)
EXTENDS Naturals, FiniteSets

CONSTANTS
  Tasks,         \* one per task-creating voice turn
  MaxQuestions,  \* bound: questions asked of one task
  None

ASSUME ActionsAssumption == None \notin Tasks /\ MaxQuestions \in Nat

VARIABLES
  ledger,      \* rows: state, stop intent, action_count > 0, question, its number
  active,      \* _active_task_id
  result,      \* _pending_task_id
  question,    \* _pending_clarification_task_id
  listening,   \* _active_stop_listener_task_id
  capture,     \* the task the wake supervisor has armed its capture for
  actionTurn,  \* what the voice turn is doing, for which task
  stopper,     \* what cancel_active has read and not yet acted on
  said         \* history: the results, and the current questions, said in full, and
               \* the result of the last turn when its playback was cut off

vars == <<ledger, active, result, question, listening, capture, actionTurn, stopper, said>>
slots == <<active, result, question>>
stopPath == <<listening, capture>>

States == {"absent", "active", "awaiting_clarification", "recovery_required",
           "succeeded", "failed", "cancelled", "expired"}
Row == [state : States, cancel : BOOLEAN, acted : BOOLEAN,
        asked : {"none", "pending", "played", "failed", "closed"}, questions : 0..MaxQuestions]
Turn == [pc : {"idle", "arming", "acknowledge", "run", "ambiguous", "raised",
               "say", "playing", "ending", "answer", "recheck"},
         task : Tasks \cup {None},
         answering : BOOLEAN,                   \* the turn answers a question
         ending : {"no", "completed", "failed", "cancelled"},
         finishes : {"none", "result", "question", "over", "succeed", "fail", "cancel"}]
Stopper == [pc : {"idle", "task", "question"}, task : Tasks \cup {None}]

IdleTurn == [pc |-> "idle", task |-> None, answering |-> FALSE,
             ending |-> "no", finishes |-> "none"]
IdleStopper == [pc |-> "idle", task |-> None]

TypeOK ==
  /\ ledger \in [Tasks -> Row]
  /\ {active, result, question, listening, capture} \subseteq Tasks \cup {None}
  /\ actionTurn \in Turn
  /\ stopper \in Stopper
  /\ said \in [result : SUBSET Tasks, question : SUBSET Tasks, cutOff : Tasks \cup {None}]

Init ==
  /\ ledger = [t \in Tasks |-> [state |-> "absent", cancel |-> FALSE, acted |-> FALSE,
                                asked |-> "none", questions |-> 0]]
  /\ active = None /\ result = None /\ question = None
  /\ listening = None /\ capture = None
  /\ actionTurn = IdleTurn /\ stopper = IdleStopper
  /\ said = [result |-> {}, question |-> {}, cutOff |-> None]

-----------------------------------------------------------------------------
(* The transactions of the ledger this service uses, as sets of next rows. *)

Live(row) == row.state = "active"

CompletedRow(row, outcome) ==
     IF Live(row) /\ ~row.cancel THEN {[row EXCEPT !.state = outcome]} ELSE {}

\* cancel(): stop intent, then the final update (questions only unacted).
Cancelled(row) ==
  CASE row.state \in {"active", "recovery_required"} ->
         {[row EXCEPT !.state = "cancelled", !.cancel = TRUE]}
    [] row.state = "awaiting_clarification" /\ ~row.acted ->
         {[row EXCEPT !.state = "cancelled", !.asked = "closed"]}
    [] OTHER -> {}

Asked(row) ==
  IF Live(row) /\ ~row.cancel /\ row.questions < MaxQuestions
  THEN {[row EXCEPT !.state = "awaiting_clarification", !.asked = "pending",
                    !.questions = @ + 1]}
  ELSE {}

Resumed(row) ==
  IF row.state = "awaiting_clarification" /\ row.asked = "played" /\ ~row.cancel
  THEN {[row EXCEPT !.state = "active", !.asked = "closed"]}
  ELSE {}

Delivered(row, played) ==
  IF row.asked \in {"pending", "played", "failed"}
  THEN {[row EXCEPT !.asked = IF played THEN "played" ELSE "failed"]}
  ELSE {}

Write(t, rows) == \E row \in rows : ledger' = [ledger EXCEPT ![t] = row]
\* try: ... except (OSError, RuntimeError, ValueError): pass
WriteIfAllowed(t, rows) == Write(t, rows) \/ (rows = {} /\ UNCHANGED ledger)

-----------------------------------------------------------------------------
(* stream_response: a turn that creates a task.                            *)

TurnGoesTo(pc) == actionTurn' = [actionTurn EXCEPT !.pc = pc]
ReleaseListener(t) ==
  IF listening = t
  THEN /\ listening' = None
       /\ capture' = IF capture = t THEN None ELSE capture
  ELSE UNCHANGED stopPath
Unsaid(t) == said' = [said EXCEPT !.question = @ \ {t}]  \* a new question
NewTurn == said' = [said EXCEPT !.cutOff = None]
ClearActive(t) == active' = IF active = t THEN None ELSE active

BeginTask(t) ==
  /\ actionTurn.pc = "idle" /\ ledger[t].state = "absent"
  /\ \A u \in Tasks : ledger[u].asked = "played" => ledger[u].state # "awaiting_clarification"
  /\ ledger' = [ledger EXCEPT ![t].state = "active"]
  /\ active' = t
  /\ actionTurn' = [IdleTurn EXCEPT !.pc = "arming", !.task = t]
  /\ NewTurn
  /\ UNCHANGED <<result, question, stopPath, stopper>>

(* start_active_task_stop_listener, its callback start_active_task_stop_   *)
(* listener of the wake supervisor, and what stream_response does of it    *)
ArmListener ==
  LET t == actionTurn.task IN
  /\ actionTurn.pc = "arming"
  /\ capture \in {None, t}
  /\ listening' = t /\ capture' = t
  /\ TurnGoesTo("acknowledge")
  /\ UNCHANGED <<ledger, slots, stopper, said>>

CannotArm ==
  LET t == actionTurn.task IN
  /\ actionTurn.pc = "arming"
  /\ WriteIfAllowed(t, Cancelled(ledger[t]))
  /\ ClearActive(t)
  /\ TurnGoesTo("say")
  /\ UNCHANGED <<result, question, stopPath, stopper, said>>

AcknowledgeTask ==
      /\ actionTurn.pc = "acknowledge"
      /\ TurnGoesTo("run")
      /\ UNCHANGED <<ledger, slots, stopPath, stopper, said>>

(* GeneratorExit at the acknowledgment *)
CloseAtAcknowledgment ==
  LET t == actionTurn.task IN
  /\ actionTurn.pc = "acknowledge"
  /\ WriteIfAllowed(t, IF Live(ledger[t]) THEN Cancelled(ledger[t]) ELSE {ledger[t]})
  /\ ReleaseListener(t)
  /\ ClearActive(t)
  /\ actionTurn' = [actionTurn EXCEPT !.pc = "ending", !.ending = "cancelled"]
  /\ UNCHANGED <<result, question, stopper, said>>

(* The runner acts for the task. *)
RunnerActs ==
  LET t == actionTurn.task IN
  /\ actionTurn.pc = "run" /\ Live(ledger[t]) /\ ~ledger[t].cancel /\ ~ledger[t].acted
  /\ ledger' = [ledger EXCEPT ![t].acted = TRUE]
  /\ UNCHANGED <<slots, stopPath, actionTurn, stopper, said>>

(* run(defer_completion=True) returns the task, verified and still active, *)
(* or over (a stop that was pending when it started)                       *)
RunTaskReturns ==
      LET t == actionTurn.task IN
      /\ actionTurn.pc = "run"
      /\ \/ /\ ~Live(ledger[t]) \/ ledger[t].cancel
            /\ WriteIfAllowed(t, Cancelled(ledger[t]))
            /\ UNCHANGED result
            /\ IF actionTurn.answering THEN UNCHANGED <<active, stopPath>>
               ELSE ClearActive(t) /\ ReleaseListener(t)
         \/ /\ Live(ledger[t])
            /\ result' = t
            /\ UNCHANGED <<ledger, active, stopPath>>
      /\ TurnGoesTo("say")
      /\ UNCHANGED <<question, stopper, said>>

(* run raises: an ambiguous target leaves the task active to be asked      *)
(* about; otherwise the runner failed it, left it for recovery, or was     *)
(* refused by the ledger because a stop is on record                       *)
RunRaises ==
  LET t == actionTurn.task IN
  /\ actionTurn.pc = "run"
  /\ \/ TurnGoesTo("ambiguous") /\ UNCHANGED ledger
     \/ /\ TurnGoesTo("raised")
        /\ \/ WriteIfAllowed(t, CompletedRow(ledger[t], "failed"))
           \/ /\ Live(ledger[t]) /\ ledger[t].acted
              /\ ledger' = [ledger EXCEPT ![t].state = "recovery_required"]
  /\ IF actionTurn.answering THEN UNCHANGED stopPath ELSE ReleaseListener(t)
  /\ UNCHANGED <<slots, stopper, said>>

AskOwner ==
  LET t == actionTurn.task IN
  /\ actionTurn.pc = "ambiguous"
  /\ Write(t, Asked(ledger[t]))
  /\ question' = t /\ Unsaid(t)
  /\ IF actionTurn.answering THEN UNCHANGED active ELSE ClearActive(t)
  /\ TurnGoesTo("say")
  /\ UNCHANGED <<result, stopPath, stopper>>

(* The other exception paths: close the task if the ledger lets it.        *)
GiveUpListening ==
           LET t == actionTurn.task
               row == ledger[t]
           IN
           /\ actionTurn.pc \in {"ambiguous", "raised"}
           /\ IF ~Live(row) THEN UNCHANGED ledger
              ELSE IF actionTurn.answering \/ ~row.acted \/ actionTurn.pc = "ambiguous"
                   THEN WriteIfAllowed(t, CompletedRow(row, "failed"))
                   ELSE WriteIfAllowed(t, Cancelled(row))
           /\ IF actionTurn.answering THEN UNCHANGED active ELSE ClearActive(t)
           /\ TurnGoesTo("say")
           /\ UNCHANGED <<result, question, stopPath, stopper, said>>

-----------------------------------------------------------------------------
(* stream_clarification_response: a turn that answers.                     *)

BeginAnswer(t) ==
  /\ actionTurn.pc = "idle"
  /\ ledger[t].state = "awaiting_clarification" /\ ledger[t].asked = "played"
  /\ actionTurn' = [IdleTurn EXCEPT !.pc = "answer", !.task = t, !.answering = TRUE]
  /\ NewTurn
  /\ UNCHANGED <<ledger, slots, stopPath, stopper>>

(* "stop": cancel_clarification, whose refusal ends the turn               *)
AnswerStop ==
  LET t == actionTurn.task
      row == ledger[t]
  IN
  /\ actionTurn.pc = "answer"
  /\ \/ /\ row.state = "awaiting_clarification" /\ ~row.acted
        /\ Write(t, Cancelled(row))
        /\ TurnGoesTo("say")
     \/ /\ row.state # "awaiting_clarification" \/ row.acted
        /\ actionTurn' = [actionTurn EXCEPT !.pc = "ending", !.ending = "failed"]
        /\ UNCHANGED ledger
  /\ UNCHANGED <<slots, stopPath, stopper, said>>

(* An answer that names no target: resume and ask again.                   *)
AskAgain ==
  LET t == actionTurn.task IN
  /\ actionTurn.pc = "answer"
  /\ \/ /\ \E row \in Resumed(ledger[t]) : Write(t, Asked(row))
        /\ question' = t /\ Unsaid(t)
     \/ /\ WriteIfAllowed(t, Resumed(ledger[t]))   \* resumed, the second write refused
        /\ \A row \in Resumed(ledger[t]) : Asked(row) = {}
        /\ UNCHANGED <<question, said>>
  /\ TurnGoesTo("say")
  /\ UNCHANGED <<active, result, stopPath, stopper>>

AcceptAnswer ==
  LET t == actionTurn.task IN
  /\ actionTurn.pc = "answer"
  /\ \/ /\ Write(t, Resumed(ledger[t]))
        /\ active' = t
        /\ TurnGoesTo("recheck")
     \/ /\ Resumed(ledger[t]) = {}
        /\ UNCHANGED <<ledger, active>>
        /\ TurnGoesTo("say")
  /\ UNCHANGED <<result, question, stopPath, stopper, said>>

(* "I'll recheck the current window": go on, or the stream is closed here  *)
Recheck ==
  /\ actionTurn.pc = "recheck"
  /\ TurnGoesTo("run") \/ actionTurn' = [actionTurn EXCEPT !.pc = "ending", !.ending = "cancelled"]
  /\ UNCHANGED <<ledger, slots, stopPath, stopper, said>>

-----------------------------------------------------------------------------
(* The playback of the final words ends, and its callback follows.         *)

(* The stream is consumed and its last sentence is queued: `completed`.    *)
WordsHandedOver ==
  /\ actionTurn.pc = "say"
  /\ TurnGoesTo("playing")
  /\ UNCHANGED <<ledger, slots, stopPath, stopper, said>>

(* Before that, the turn ends failed or cancelled.  After it, the playback *)
(* fails or simply ends: it may be interrupted, by the owner's speech, and *)
(* the turn still counts as completed.                                     *)
AnswerPlaybackEnds(ending) ==
  LET t == actionTurn.task IN
  /\ \/ actionTurn.pc = "say" /\ ending \in {"failed", "cancelled"}
     \/ actionTurn.pc = "playing" /\ ending \in {"completed", "failed"}
  /\ actionTurn' = [actionTurn EXCEPT !.pc = "ending", !.ending = ending]
  /\ IF ending = "completed"
     THEN \E cut \in {None} \cup ({result} \cap {t}) :
            said' = [result |-> said.result \cup ({result} \cap {t}),
                     question |-> said.question \cup ({question} \cap {t}),
                     cutOff |-> cut]
     ELSE UNCHANGED said
  /\ UNCHANGED <<ledger, slots, stopPath, stopper>>

(* complete_after_playback and fail_after_playback take the slots under    *)
(* the lock ...                                                            *)
TakeSlots ==
  /\ actionTurn.pc = "ending" /\ actionTurn.finishes = "none"
  /\ IF result # None
     THEN /\ result' = None
          /\ actionTurn' = [actionTurn EXCEPT !.finishes = "result", !.task = result]
          /\ UNCHANGED question
     ELSE IF question # None
     THEN /\ question' = None
          /\ actionTurn' = [actionTurn EXCEPT !.finishes = "question", !.task = question]
          /\ UNCHANGED result
     ELSE actionTurn' = IdleTurn /\ UNCHANGED <<result, question>>
  /\ UNCHANGED <<ledger, active, stopPath, stopper, said>>

\* Faulty: playback that failed completes the task too.
DecideUnheard ==
  /\ actionTurn.finishes = "result"
  /\ actionTurn' = [actionTurn EXCEPT
                      !.finishes = IF Live(ledger[actionTurn.task]) THEN "succeed" ELSE "over"]
  /\ UNCHANGED <<ledger, slots, stopPath, stopper, said>>

(* ... then read the task and its stop ...                                 *)
Decide ==
  LET row == ledger[actionTurn.task] IN
  /\ actionTurn.finishes = "result"
  /\ actionTurn' = [actionTurn EXCEPT !.finishes =
                             CASE ~Live(row) -> "over"
                               [] Live(row) /\ actionTurn.ending = "completed" -> "succeed"
                               [] Live(row) /\ actionTurn.ending = "failed" /\ ~row.cancel -> "fail"
                               [] OTHER -> "cancel"]
  /\ UNCHANGED <<ledger, slots, stopPath, stopper, said>>

(* ... and write what became of it: success only for what was said, and   *)
(* a stop that comes in between is honoured                                *)
SettledResult(row) ==
  CASE actionTurn.finishes = "succeed" /\ row.cancel -> Cancelled(row)
    [] actionTurn.finishes = "succeed" /\ ~row.cancel -> CompletedRow(row, "succeeded")
    [] actionTurn.finishes = "fail" -> CompletedRow(row, "failed")
    [] actionTurn.finishes = "cancel" -> Cancelled(row)
    [] OTHER -> {row}

FinishResult ==
  LET t == actionTurn.task IN
  /\ actionTurn.finishes \in {"over", "succeed", "fail", "cancel"}
  /\ WriteIfAllowed(t, SettledResult(ledger[t]))
  /\ ReleaseListener(t) /\ ClearActive(t)
  /\ actionTurn' = IdleTurn
  /\ UNCHANGED <<result, question, stopper, said>>

FinishQuestion ==
  LET t == actionTurn.task IN
  /\ actionTurn.finishes = "question"
  /\ WriteIfAllowed(t, Delivered(ledger[t], actionTurn.ending = "completed"))
  /\ ClearActive(t)
  /\ actionTurn' = IdleTurn
  /\ UNCHANGED <<result, question, stopPath, stopper, said>>

-----------------------------------------------------------------------------
(* cancel_active, in another thread: the fields are read under the lock,   *)
(* the ledger is written after it.                                         *)

StopReads ==
  /\ stopper.pc = "idle"
  /\ \/ active # None /\ stopper' = [pc |-> "task", task |-> active]
     \/ active = None /\ question # None /\ stopper' = [pc |-> "question", task |-> question]
  /\ UNCHANGED <<ledger, slots, stopPath, actionTurn, said>>

StopTask ==
  LET t == stopper.task
      row == ledger[t]
  IN
  /\ stopper.pc = "task"
  /\ ledger' = [ledger EXCEPT ![t].cancel = @ \/ row.state \in {"active", "recovery_required"}]
  /\ stopper' = IdleStopper
  /\ UNCHANGED <<slots, stopPath, actionTurn, said>>

StopQuestion ==
  LET t == stopper.task
      row == ledger[t]
  IN
  /\ stopper.pc = "question"
  /\ \/ /\ row.state = "awaiting_clarification" /\ ~row.acted
        /\ Write(t, Cancelled(row))
        /\ question' = None
     \/ /\ row.state # "awaiting_clarification" \/ row.acted
        /\ UNCHANGED <<ledger, question>>
  /\ stopper' = IdleStopper
  /\ UNCHANGED <<active, result, stopPath, actionTurn, said>>

(* Others: the owner's cancel request over the API, and time.              *)
OwnerSignals(t) ==
  /\ ledger[t].state \in {"active", "recovery_required"} /\ ~ledger[t].cancel
  /\ ledger' = [ledger EXCEPT ![t].cancel = TRUE]
  /\ UNCHANGED <<slots, stopPath, actionTurn, stopper, said>>

TimePasses(t) ==
  /\ ledger[t].state \in {"active", "awaiting_clarification"}
  /\ ledger' = [ledger EXCEPT ![t].state = "expired"]
  /\ UNCHANGED <<slots, stopPath, actionTurn, stopper, said>>

TurnStep ==
  \/ ArmListener \/ CannotArm \/ AcknowledgeTask \/ CloseAtAcknowledgment
  \/ RunnerActs \/ RunTaskReturns \/ RunRaises \/ AskOwner \/ GiveUpListening
  \/ AnswerStop \/ AskAgain \/ AcceptAnswer \/ Recheck
  \/ WordsHandedOver
  \/ \E ending \in {"completed", "failed", "cancelled"} : AnswerPlaybackEnds(ending)
  \/ TakeSlots \/ Decide \/ FinishResult \/ FinishQuestion

Next ==
  \/ \E t \in Tasks : BeginTask(t) \/ BeginAnswer(t) \/ OwnerSignals(t) \/ TimePasses(t)
  \/ TurnStep
  \/ StopReads \/ StopTask \/ StopQuestion

Spec == Init /\ [][Next]_vars

\* The turn's thread and the thread that stops are not suspended for ever.
FairSpec == Spec /\ WF_vars(TurnStep) /\ WF_vars(StopTask \/ StopQuestion)

-----------------------------------------------------------------------------
\* docs/architecture/voice-and-wake.md: failed playback does not mark a
\* question delivered or a task successful.  Of what the ledger has as said,
\* every sentence was handed over to a playback that did not fail, whatever
\* thread stopped, failed or expired the task meanwhile.
OnlyTheSaidIsRecorded ==
  \A t \in Tasks : /\ ledger[t].state = "succeeded" => t \in said.result
                   /\ ledger[t].asked = "played" => t \in said.question

\* docs/architecture/voice-and-wake.md: "A voice computer task becomes durably
\* successful only after the final result finishes playback; interrupted or
\* failed playback keeps the task incomplete."
SuccessIsHeardToTheEnd == \A t \in Tasks : ledger[t].state = "succeeded" => t # said.cutOff

\* ADR 0050: a late playback-success callback honours a recorded stop.
StoppedNeverSucceeds ==
  [][\A t \in Tasks : ledger[t].cancel =>
       ledger'[t].cancel /\ (ledger'[t].state = "succeeded" => ledger[t].state = "succeeded")]_vars

\* Between two turns nothing is left to be finished by the playback of
\* another task, and the microphone is not held for a task that is over.
TurnsLeaveNothing ==
  actionTurn.pc = "idle" => /\ result = None /\ question = None
                            /\ listening = None /\ capture = None

\* ADR 0050: capture is armed before the acknowledgment, and the fields of
\* the two services agree on whom a Stop would reach.
ArmedBeforeDispatch ==
  actionTurn.pc \in {"acknowledge", "run"} /\ ~actionTurn.answering =>
          listening = actionTurn.task /\ capture = actionTurn.task

\* Every turn comes to its end, however it is interrupted.
ActionTurnEnds == []<>(actionTurn.pc = "idle")

\* ADR 0050, "Keep exact voice Stop available during computer tasks": while
\* the runner works for the voice, a Stop can be heard.
StopIsHeardWhileRunning == actionTurn.pc = "run" => listening = actionTurn.task
=============================================================================
