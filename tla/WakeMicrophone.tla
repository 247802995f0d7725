--------------------------- MODULE WakeMicrophone ---------------------------
(***************************************************************************)
(* Who holds Friday's raw microphone.  The always-on wake capture           *)
(* (voice/wake_capture.py) reads it while nobody talks to Friday; a         *)
(* recognised wake phrase hands it to a voice session (handle_wake and      *)
(* _run_voice_turn of interface/wake_bootstrap.py, handle_wake_utterance of *)
(* voice/wake_orchestrator.py), a presentation request of the web interface *)
(* silences it, a computer task borrows it back to hear "stop", and close() *)
(* takes it away for good.  Four threads share it: the capture loop, the    *)
(* voice session, a presentation request and the shutdown.                  *)
(*                                                                          *)
(* A step is what a thread does under one acquisition of a lock, or between *)
(* two accesses to shared state.  Audio is abstracted to the generation of  *)
(* the stream it was read from, a transcript to its wake remainder, and the *)
(* recovery delay to an enabled action.                                     *)
(***************************************************************************)
EXTENDS Naturals, FiniteSets

CONSTANT MaxStreams     \* bound: microphone streams the wake loop opens

ASSUME StreamsAssumption == MaxStreams \in Nat \ {0}

VARIABLES
  paused,       \* FridayAlwaysOnWakeCapture._pause_event
  stopEvent,    \* FridayAlwaysOnWakeCapture._stop_event
  stream,       \* generation of the open wake stream, 0 when there is none
  opened,       \* generations opened so far
  segment,      \* generations whose audio the segmenter holds
  loop,         \* the capture thread: program counter and locals
  lease,        \* FridayInteractionCoordinator._owner
  session,      \* the voice thread: program counter and locals
  task,         \* FridayManagedWakeVoice._active_task_id is set
  closeFlag,    \* _explicit_session_close of the voice conversation
  presentation, \* program counter of a presentation request
  closer,       \* program counter of close()
  closing       \* FridayManagedWakeVoice._closing

wakeVars == <<paused, stopEvent, stream, opened, segment, loop, lease, session,
              task, closeFlag, presentation, closer, closing>>

Generations == 1 .. MaxStreams
Remainders  == {"none", "bare", "command", "stop"}   \* "none": no wake phrase

LoopSteps ==
  {"enter", "top", "begin", "read", "process", "detect", "checked", "busy",
   "hush", "ask", "giveBack", "silence", "schedule", "raise", "backoff", "ended"}
SessionSteps ==
  {"none", "start", "respond", "arm", "await", "act", "disarm", "quieten",
   "next", "open", "listen", "resume", "resumed"}
SessionAlive == session.at # "none"

\* The capture thread holds the lease of a wake it has not handed over yet.
HandlingWake == loop.at \in {"silence", "schedule"}

WakeTypeOK ==
  /\ paused \in BOOLEAN /\ stopEvent \in BOOLEAN /\ task \in BOOLEAN
  /\ closeFlag \in BOOLEAN /\ closing \in BOOLEAN
  /\ stream \in 0 .. MaxStreams /\ opened \in 0 .. MaxStreams
  /\ segment \subseteq Generations
  /\ loop \in [at: LoopSteps, s: 0 .. MaxStreams, heard: Remainders, retry: BOOLEAN]
  /\ lease \in {"none", "voice", "presentation"}
  /\ session \in [at: SessionSteps, bare: BOOLEAN]
  /\ presentation \in {"idle", "leased", "talking", "resumed"}
  /\ closer \in {"idle", "signal", "release", "join", "closed"}

WakeInit ==
  /\ paused = FALSE /\ stopEvent = FALSE /\ stream = 0 /\ opened = 0
  /\ segment = {}
  /\ loop = [at |-> "enter", s |-> 0, heard |-> "none", retry |-> FALSE]
  /\ lease = "none"
  /\ session = [at |-> "none", bare |-> FALSE]
  /\ task = FALSE /\ closeFlag = FALSE
  /\ presentation = "idle" /\ closer = "idle" /\ closing = FALSE

(***************************************************************************)
(* pause() and resume() of the wake capture, each under its state lock.     *)
(***************************************************************************)
Pause  == paused' = TRUE /\ stream' = 0 /\ segment' = {}
Resume == paused' = FALSE /\ segment' = {} /\ UNCHANGED stream

Loop(step)    == loop' = [loop EXCEPT !.at = step]
Session(step) == session' = [session EXCEPT !.at = step]

\* What run() asks before it goes on with the stream it works on.
Retired == stream # loop.s \/ stopEvent \/ paused

(***************************************************************************)
(* The capture thread: run() inside _run_capture().                         *)
(***************************************************************************)
\* run() is entered: it returns at once after a stop, which is terminal.
RunEnter ==
  /\ loop.at = "enter"
  /\ Loop(IF closing THEN "ended" ELSE IF stopEvent THEN "raise" ELSE "top")
  /\ UNCHANGED <<paused, stopEvent, stream, opened, segment, lease, session,
                 task, closeFlag, presentation, closer, closing>>

\* _ensure_stream(): the open stream, or a new one; opening it may fail.
EnsureStream ==
  /\ loop.at = "top" /\ ~stopEvent /\ ~paused
  /\ \/ /\ stream # 0
        /\ loop' = [loop EXCEPT !.at = "begin", !.s = stream]
        /\ UNCHANGED <<stream, opened>>
     \/ /\ stream = 0 /\ opened < MaxStreams
        /\ stream' = opened + 1 /\ opened' = opened + 1
        /\ loop' = [loop EXCEPT !.at = "begin", !.s = opened + 1]
     \/ /\ stream = 0
        /\ loop' = [loop EXCEPT !.at = "raise", !.retry = TRUE]
        /\ UNCHANGED <<stream, opened>>
  /\ UNCHANGED <<paused, stopEvent, segment, lease, session, task, closeFlag,
                 presentation, closer, closing>>

\* The loop sees the stop: run() leaves its loop and its finally closes all.
RunStopped ==
  /\ loop.at = "top" /\ stopEvent
  /\ loop' = [loop EXCEPT !.at = "raise", !.retry = FALSE]
  /\ UNCHANGED <<paused, stopEvent, stream, opened, segment, lease, session,
                 task, closeFlag, presentation, closer, closing>>

\* Before the blocking read: still the current stream?
ReadBegin ==
  /\ loop.at = "begin"
  /\ Loop(IF Retired THEN "top" ELSE "read")
  /\ UNCHANGED <<paused, stopEvent, stream, opened, segment, lease, session,
                 task, closeFlag, presentation, closer, closing>>

\* read_chunk() returns audio, also partial audio of a stream closed meanwhile.
ReadChunk ==
  /\ loop.at = "read"
  /\ Loop("process")
  /\ UNCHANGED <<paused, stopEvent, stream, opened, segment, lease, session,
                 task, closeFlag, presentation, closer, closing>>

\* read_chunk() fails or ends: cancellation when the stream was retired, an
\* error of the microphone otherwise.
ReadFails ==
  /\ loop.at = "read"
  /\ stream' = IF stream = loop.s THEN 0 ELSE stream
  /\ loop' = IF Retired THEN [loop EXCEPT !.at = "top"]
                        ELSE [loop EXCEPT !.at = "raise", !.retry = TRUE]
  /\ UNCHANGED <<paused, stopEvent, opened, segment, lease, session, task,
                 closeFlag, presentation, closer, closing>>

\* The chunk is segmented under the lock, unless its stream is gone.
ProcessChunk ==
  /\ loop.at = "process"
  /\ IF Retired
     THEN Loop("top") /\ UNCHANGED segment
     ELSE \/ segment' = segment \cup {loop.s} /\ Loop("top")
          \/ segment' = {} /\ Loop("detect")              \* an utterance ends
          \/ UNCHANGED segment                            \* the VAD fails
             /\ loop' = [loop EXCEPT !.at = "raise", !.retry = TRUE]
  /\ UNCHANGED <<paused, stopEvent, stream, opened, lease, session, task,
                 closeFlag, presentation, closer, closing>>

\* The detector cascade answers or its worker fails; a result of a retired
\* stream is never dispatched.
Detect ==
  /\ loop.at = "detect"
  /\ \/ \E r \in Remainders :
          loop' = [loop EXCEPT !.at = IF Retired \/ r = "none" THEN "top" ELSE "checked",
                               !.heard = IF Retired THEN "none" ELSE r]
     \/ loop' = [loop EXCEPT !.at = "raise", !.retry = TRUE]
  /\ UNCHANGED <<paused, stopEvent, stream, opened, segment, lease, session,
                 task, closeFlag, presentation, closer, closing>>

\* run()'s finally closes the stream, then _run_capture decides: shutdown,
\* a fault worth a retry after the delay, or a failed thread.
RunEnds ==
  /\ loop.at = "raise"
  /\ stream' = 0 /\ segment' = {}
  /\ Loop(IF closing \/ ~loop.retry THEN "ended" ELSE "backoff")
  /\ UNCHANGED <<paused, stopEvent, opened, lease, session, task, closeFlag,
                 presentation, closer, closing>>

RecoveryDelayEnds ==
  /\ loop.at = "backoff"
  /\ Loop(IF closing THEN "ended" ELSE "enter")
  /\ UNCHANGED <<paused, stopEvent, stream, opened, segment, lease, session,
                 task, closeFlag, presentation, closer, closing>>

(***************************************************************************)
(* handle_wake(), on the capture thread.                                    *)
(***************************************************************************)
\* try_acquire("voice"): the interaction is taken, or held by another.
TakeInteraction ==
  /\ loop.at = "checked"
  /\ IF closing
     THEN Loop("top") /\ UNCHANGED lease
     ELSE IF lease = "none"
     THEN Loop("silence") /\ lease' = "voice"
     ELSE Loop("busy") /\ UNCHANGED lease
  /\ UNCHANGED <<paused, stopEvent, stream, opened, segment, session, task,
                 closeFlag, presentation, closer, closing>>

\* Busy: only "stop" said over the computer task of the voice session counts.
JudgeBusyWake ==
  /\ loop.at = "busy"
  /\ Loop(IF lease = "voice" /\ task /\ loop.heard = "stop" THEN "hush" ELSE "top")
  /\ UNCHANGED <<paused, stopEvent, stream, opened, segment, lease, session,
                 task, closeFlag, presentation, closer, closing>>

HushForStop ==
  /\ loop.at = "hush"
  /\ Pause /\ Loop("ask")
  /\ UNCHANGED <<stopEvent, opened, lease, session, task, closeFlag,
                 presentation, closer, closing>>

\* The stop handler: accepted while the task still acts, refused or failed else.
AskStopHandler ==
  /\ loop.at = "ask"
  /\ \/ /\ session.at \in {"await", "act"}
        /\ closeFlag' = TRUE /\ Loop("top")
     \/ Loop("giveBack") /\ UNCHANGED closeFlag
  /\ UNCHANGED <<paused, stopEvent, stream, opened, segment, lease, session,
                 task, presentation, closer, closing>>

\* A plausible bug: a refused stop keeps the pause.
GiveNothingBack ==
  /\ loop.at = "giveBack"
  /\ Loop("top")
  /\ UNCHANGED <<paused, stopEvent, stream, opened, segment, lease, session,
                 task, closeFlag, presentation, closer, closing>>

GiveBack ==
  /\ loop.at = "giveBack"
  /\ Resume /\ Loop("top")
  /\ UNCHANGED <<stopEvent, opened, lease, session, task, closeFlag,
                 presentation, closer, closing>>

\* The microphone is released before the callback returns.
SilenceForSession ==
  /\ loop.at = "silence"
  /\ Pause /\ Loop("schedule")
  /\ UNCHANGED <<stopEvent, opened, lease, session, task, closeFlag,
                 presentation, closer, closing>>

\* Under the manager's lock: nothing while closing, else the voice thread.  The
\* thread of an earlier turn gave its lease back as its last act.
ScheduleSession ==
  /\ loop.at = "schedule"
  /\ Loop("top")
  /\ IF closing
     THEN lease' = "none" /\ UNCHANGED session
     ELSE session' = [at |-> "start", bare |-> loop.heard = "bare"] /\ UNCHANGED lease
  /\ UNCHANGED <<paused, stopEvent, stream, opened, segment, task, closeFlag,
                 presentation, closer, closing>>

(***************************************************************************)
(* The voice thread: handle_wake_utterance() inside _run_voice_turn().      *)
(***************************************************************************)
\* A bare wake asks the owner to go on, an inline command is answered at once.
SessionBegins ==
  /\ session.at = "start"
  /\ Pause /\ closeFlag' = FALSE
  /\ Session(IF session.bare THEN "open" ELSE "respond")
  /\ UNCHANGED <<stopEvent, opened, loop, lease, task, presentation, closer, closing>>

\* A turn: an answer, a failure, or a computer task that must hear "stop".
Respond ==
  /\ session.at = "respond"
  /\ \E step \in {"next", "resume", "arm"} : Session(step)
  /\ UNCHANGED <<paused, stopEvent, stream, opened, segment, loop, lease, task,
                 closeFlag, presentation, closer, closing>>

\* start_active_task_stop_listener(): refused while closing.
ArmStopListener ==
  /\ session.at = "arm"
  /\ IF closing
     THEN Session("resume") /\ UNCHANGED <<task, paused, segment, stream>>
     ELSE Session("await") /\ task' = TRUE /\ Resume
  /\ UNCHANGED <<stopEvent, opened, loop, lease, closeFlag, presentation, closer, closing>>

\* Its poll of health(): the wake path is armed, or the deadline has passed.
StopListenerReady ==
  /\ session.at = "await"
  /\ \/ stream # 0 /\ Session("act") /\ UNCHANGED <<paused, segment, stream, task>>
     \/ Session("respond") /\ task' = FALSE /\ Pause
  /\ UNCHANGED <<stopEvent, opened, loop, lease, closeFlag, presentation, closer, closing>>

TaskEnds ==
  /\ session.at = "act"
  /\ Session("disarm")
  /\ UNCHANGED <<paused, stopEvent, stream, opened, segment, loop, lease, task,
                 closeFlag, presentation, closer, closing>>

\* stop_active_task_stop_listener(): the task first, the microphone after it.
DisarmStopListener ==
  /\ session.at = "disarm"
  /\ Session("quieten") /\ task' = FALSE
  /\ UNCHANGED <<paused, stopEvent, stream, opened, segment, loop, lease,
                 closeFlag, presentation, closer, closing>>

QuietenStopListener ==
  /\ session.at = "quieten"
  /\ Pause /\ Session("respond")
  /\ UNCHANGED <<stopEvent, opened, loop, lease, task, closeFlag, presentation,
                 closer, closing>>

\* The session goes on until the owner closed it.
AnotherTurn ==
  /\ session.at = "next"
  /\ Session(IF closeFlag THEN "resume" ELSE "open")
  /\ UNCHANGED <<paused, stopEvent, stream, opened, segment, loop, lease, task,
                 closeFlag, presentation, closer, closing>>

\* The fresh follow-up reader: opened, and later closed, by capture_utterance().
OpenFollowUp ==
  /\ session.at = "open"
  /\ \E step \in {"listen", "resume"} : Session(step)
  /\ UNCHANGED <<paused, stopEvent, stream, opened, segment, loop, lease, task,
                 closeFlag, presentation, closer, closing>>

\* An utterance, or the end of the session: idle timeout or failed capture.
FollowUpEnds ==
  /\ session.at = "listen"
  /\ \E step \in {"respond", "resume"} : Session(step)
  /\ UNCHANGED <<paused, stopEvent, stream, opened, segment, loop, lease, task,
                 closeFlag, presentation, closer, closing>>

\* The orchestrator's finally, on every way out.
SessionResumesWake ==
  /\ session.at = "resume"
  /\ Resume /\ Session("resumed")
  /\ UNCHANGED <<stopEvent, opened, loop, lease, task, closeFlag, presentation,
                 closer, closing>>

\* _run_voice_turn's finally: resume once more unless closing, then let go.
SessionReleases ==
  /\ session.at = "resumed"
  /\ IF closing THEN UNCHANGED <<paused, segment, stream>> ELSE Resume
  /\ lease' = "none" /\ Session("none")
  /\ UNCHANGED <<stopEvent, opened, loop, task, closeFlag, presentation, closer, closing>>

(***************************************************************************)
(* A presentation of the web interface: lease, pause, speak, resume.        *)
(***************************************************************************)
PresentationAcquires ==
  /\ presentation = "idle" /\ lease = "none"
  /\ lease' = "presentation" /\ presentation' = "leased"
  /\ UNCHANGED <<paused, stopEvent, stream, opened, segment, loop, session,
                 task, closeFlag, closer, closing>>

PauseForPresentation ==
  /\ presentation = "leased"
  /\ Pause /\ presentation' = "talking"
  /\ UNCHANGED <<stopEvent, opened, loop, lease, session, task, closeFlag,
                 closer, closing>>

ResumeAfterPresentation ==
  /\ presentation = "talking"
  /\ IF closing THEN UNCHANGED <<paused, segment, stream>> ELSE Resume
  /\ presentation' = "resumed"
  /\ UNCHANGED <<stopEvent, opened, loop, lease, session, task, closeFlag,
                 closer, closing>>

PresentationReleases ==
  /\ presentation = "resumed"
  /\ presentation' = "idle" /\ lease' = "none"
  /\ UNCHANGED <<paused, stopEvent, stream, opened, segment, loop, session,
                 task, closeFlag, closer, closing>>

(***************************************************************************)
(* close(): the flag, stop() in its two halves, then the joins, bounded.    *)
(***************************************************************************)
CloseBegins ==
  /\ closer = "idle"
  /\ closing' = TRUE /\ closer' = "signal"
  /\ UNCHANGED <<paused, stopEvent, stream, opened, segment, loop, lease,
                 session, task, closeFlag, presentation>>

StopSignals ==
  /\ closer = "signal"
  /\ stopEvent' = TRUE /\ closer' = "release"
  /\ UNCHANGED <<paused, stream, opened, segment, loop, lease, session, task,
                 closeFlag, presentation, closing>>

StopReleases ==
  /\ closer = "release"
  /\ stream' = 0 /\ closer' = "join"
  /\ UNCHANGED <<paused, stopEvent, opened, segment, loop, lease, session,
                 task, closeFlag, presentation, closing>>

\* The threads ended in time or close() reports them: it returns either way.
JoinsEnd ==
  /\ closer = "join"
  /\ closer' = "closed"
  /\ UNCHANGED <<paused, stopEvent, stream, opened, segment, loop, lease,
                 session, task, closeFlag, presentation, closing>>

CaptureStep ==
  \/ RunEnter \/ EnsureStream \/ RunStopped \/ ReadBegin \/ ReadChunk
  \/ ReadFails \/ ProcessChunk \/ Detect \/ RunEnds \/ RecoveryDelayEnds
  \/ TakeInteraction \/ JudgeBusyWake \/ HushForStop \/ AskStopHandler
  \/ GiveBack \/ SilenceForSession \/ ScheduleSession
SessionStep ==
  \/ SessionBegins \/ Respond \/ ArmStopListener \/ StopListenerReady
  \/ TaskEnds \/ DisarmStopListener \/ QuietenStopListener \/ AnotherTurn
  \/ OpenFollowUp \/ FollowUpEnds \/ SessionResumesWake \/ SessionReleases
PresentationStep ==
  PauseForPresentation \/ ResumeAfterPresentation \/ PresentationReleases
CloseStep == StopSignals \/ StopReleases \/ JoinsEnd

WakeNext ==
  CaptureStep \/ SessionStep \/ PresentationAcquires \/ PresentationStep
  \/ CloseBegins \/ CloseStep

\* Threads run, reads return, turns end and waits are bounded; a presentation
\* and a shutdown may never be asked for.
WakeFairness ==
  /\ WF_wakeVars(CaptureStep) /\ WF_wakeVars(SessionStep)
  /\ WF_wakeVars(PresentationStep) /\ WF_wakeVars(CloseStep)

WakeSpec == WakeInit /\ [][WakeNext]_wakeVars /\ WakeFairness

(***************************************************************************)
(* Properties.                                                              *)
(***************************************************************************)
\* pause() and stop() really release the microphone: however late the capture
\* thread comes back from opening, reading or detecting, it holds no stream and
\* no buffered audio while paused, and opens none after the stop.
ReleasedMicrophone ==
  /\ paused => stream = 0 /\ segment = {}
  /\ closer \in {"join", "closed"} => stream = 0

\* An utterance is never spliced from two recordings: audio read before a pause
\* and returned after the resume is dropped.
OneRecordingPerUtterance == Cardinality(segment) <= 1

\* One interaction at a time: the lease is held for exactly as long as the
\* thread that took it needs it, on every way out of every path.
OneInteraction ==
  /\ lease = "voice" <=> (SessionAlive \/ HandlingWake)
  /\ lease = "presentation" <=> presentation # "idle"
  /\ ~(SessionAlive /\ HandlingWake)

\* No pause outlives its cause: until shutdown, the wake capture gets the
\* microphone back or the session listens with its own reader.
MicrophoneReturns ==
  paused ~> (~paused \/ closing \/ session.at = "listen")

\* "Wake remains paused throughout the active session, so the design does not
\* introduce competing microphone readers" (docs/architecture/voice-and-wake.md).
NoCompetingReaders == session.at = "listen" => stream = 0
=============================================================================
