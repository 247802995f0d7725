------------------------------ MODULE VoiceTurn ------------------------------
(***************************************************************************)
(* One voice session of Friday: listen, transcribe, answer, speak, be       *)
(* interrupted.  It translates FridayVoiceConversationService               *)
(* (interface/voice_conversation.py), the conversation generator it drives  *)
(* (interface/conversation.py), the transition table of the presentation    *)
(* runtime (interface/runtime.py), the barge-in monitor and the speech      *)
(* player (voice/barge_in.py, voice/piper_runtime.py).                      *)
(*                                                                          *)
(* Per turn there are up to four threads: the session thread, which pulls   *)
(* the answer and queues its sentences; the speech worker; the echo-        *)
(* cancelled monitor of the whole turn; and, when that monitor is dead, a   *)
(* monitor of the playback alone.  A step is what a thread does between two *)
(* accesses to what the threads share: the runtime state, the two           *)
(* cancellation flags, the sentence queue and the player.  A worker outlives *)
(* a turn that raised, so workers are indexed by their turn.                *)
(*                                                                          *)
(* Left out: computer actions (VoiceComputerActions) and the consumer that  *)
(* closes the generator early.                                              *)
(***************************************************************************)
EXTENDS Naturals

CONSTANTS
  MaxTurns,       \* bound: turns of the model
  MaxChunks,      \* bound: chunks of text of one answer (max_tokens)
  QueueSize       \* SpeechQueue max_items

ASSUME VoiceAssumption ==
  MaxTurns \in Nat \ {0} /\ MaxChunks \in Nat /\ QueueSize \in Nat \ {0}

VARIABLES
  rt,       \* FridayRuntime._state
  turn,     \* the session thread: program counter and locals
  cancel,   \* voice_cancel_event of the current turn
  full,     \* the monitor of the whole turn: where it is, what it heard
  speech,   \* per turn: the speech worker, its queue and flags, its own monitor
  player    \* PipeWireSpeechPlayer: who plays, is pw-play alive, stop requested

voiceVars == <<rt, turn, cancel, full, speech, player>>

Turns == 1 .. MaxTurns

\* _ALLOWED_TRANSITIONS among the states of a voice session.
Allowed == [
  IDLE         |-> {"LISTENING", "THINKING", "ERROR"},
  LISTENING    |-> {"SPEAKING", "TRANSCRIBING", "IDLE", "ERROR", "CANCELLED"},
  TRANSCRIBING |-> {"THINKING", "IDLE", "ERROR", "CANCELLED"},
  THINKING     |-> {"SPEAKING", "COMPLETED", "ERROR", "CANCELLED"},
  SPEAKING     |-> {"IDLE", "LISTENING", "COMPLETED", "ERROR", "CANCELLED"},
  COMPLETED    |-> {"IDLE", "SPEAKING"},
  ERROR        |-> {"IDLE"},
  CANCELLED    |-> {"IDLE"}]

TerminalStates == {"COMPLETED", "ERROR", "CANCELLED"}

\* transition(): refused, by an exception, when the table does not list it.
MayGo(from, to)  == to \in Allowed[from]
Transition(to)   == rt' = IF MayGo(rt, to) THEN to ELSE rt

\* start_listening(): a terminal state is left through IDLE first.
CanListen(from) == MayGo(IF from \in TerminalStates THEN "IDLE" ELSE from, "LISTENING")

TurnSteps ==
  {"away", "start", "ack", "acked", "capture", "transcribe", "heard", "route", "generate",
   "complete", "check", "put", "yielded", "flush", "wrap", "closing",
   "cancelRuntime", "join", "unmonitor", "result", "failed"}

NoSpeech == [at |-> "none", queue |-> 0, closed |-> FALSE, muted |-> FALSE,
             err |-> FALSE, heard |-> FALSE, produced |-> FALSE,
             out |-> "none", mon |-> "off", found |-> "none"]

VoiceTypeOK ==
  /\ rt \in DOMAIN Allowed
  /\ turn \in [at: TurnSteps, k: 0 .. MaxTurns, chunks: 0 .. MaxChunks, woken: BOOLEAN,
               last: BOOLEAN, completed: BOOLEAN, raised: SUBSET (0 .. MaxTurns)]
  /\ cancel \in BOOLEAN
  /\ full \in [at: {"off", "listening", "onset", "ended"}, stopping: BOOLEAN,
               hushed: BOOLEAN, found: {"none", "utterance", "incomplete"}]
  /\ speech \in [Turns -> [at: {"none", "begin", "play", "feed", "drain", "judge", "ended"},
                           queue: 0 .. QueueSize, closed: BOOLEAN, muted: BOOLEAN,
                           err: BOOLEAN, heard: BOOLEAN, produced: BOOLEAN,
                           out: {"none", "finished", "interrupted", "failed"},
                           mon: {"off", "wait", "watch", "onset", "ended"},
                           found: {"none", "utterance", "incomplete", "stopFailed", "error"}]]
  /\ player \in [by: 0 .. MaxTurns, on: BOOLEAN, stop: BOOLEAN]

VoiceInit ==
  /\ rt = "IDLE"
  /\ turn = [at |-> "away", k |-> 0, chunks |-> 0, woken |-> FALSE, last |-> FALSE,
             completed |-> FALSE, raised |-> {}]
  /\ cancel = FALSE
  /\ full = [at |-> "off", stopping |-> FALSE, hushed |-> FALSE, found |-> "none"]
  /\ speech = [k \in Turns |-> NoSpeech]
  /\ player = [by |-> 0, on |-> FALSE, stop |-> FALSE]

Goto(step) == turn' = [turn EXCEPT !.at = step]
Sp         == speech[turn.k]

\* The session fails; `raised` remembers which turns did, 0 for no turn's code.
FailWith(why) == turn' = [turn EXCEPT !.at = "failed", !.raised = @ \cup {why}]
Fail          == FailWith(0)

\* An exception inside a turn: the queue is closed, the worker is not waited for.
Raise ==
  /\ turn' = [turn EXCEPT !.at = "unmonitor", !.raised = @ \cup {turn.k}]
  /\ speech' = [speech EXCEPT ![turn.k].closed = TRUE]

\* The bound: the owner says something that makes a turn.
MoreTurns == turn.k < MaxTurns

(***************************************************************************)
(* The session thread.                                                      *)
(***************************************************************************)
Wake ==
  /\ turn.at \in {"away", "failed"}
  /\ turn' = [turn EXCEPT !.at = "start", !.woken = TRUE]
  /\ UNCHANGED <<rt, cancel, full, speech, player>>

\* start_listening(): after a wake, for its inline command or to acknowledge a
\* bare one; later, for the next follow-up.
StartListening ==
  /\ turn.at = "start"
  /\ IF CanListen(rt)
     THEN /\ rt' = "LISTENING"
          /\ \/ turn.woken /\ MoreTurns /\ turn' = [turn EXCEPT !.at = "transcribe", !.woken = FALSE]
             \/ turn.woken /\ Goto("ack")
             \/ ~turn.woken /\ Goto("capture")
     ELSE Fail /\ UNCHANGED rt
  /\ UNCHANGED <<cancel, full, speech, player>>

\* speak_ready_acknowledgement(), in two steps around its playback.
Acknowledge ==
  /\ turn.at = "ack"
  /\ IF rt = "LISTENING" THEN rt' = "SPEAKING" /\ Goto("acked")
                         ELSE Fail /\ UNCHANGED rt
  /\ UNCHANGED <<cancel, full, speech, player>>

Acknowledged ==
  /\ turn.at = "acked" /\ player.by = 0
  /\ player' = [player EXCEPT !.stop = FALSE]
  /\ \/ Fail /\ UNCHANGED rt
     \/ IF MayGo(rt, "IDLE") THEN rt' = "LISTENING" /\ Goto("capture")
                             ELSE Fail /\ UNCHANGED rt
  /\ UNCHANGED <<cancel, full, speech>>

\* A fresh capture: an utterance, silence, or an exception, after which only
\* the capture of a bare wake takes LISTENING back.
Capture ==
  /\ turn.at = "capture"
  /\ LET idle == IF rt = "LISTENING" THEN "IDLE" ELSE rt IN
     \/ /\ MoreTurns /\ UNCHANGED rt
        /\ turn' = [turn EXCEPT !.at = "transcribe", !.woken = FALSE]
     \/ Goto("away") /\ rt' = idle
     \/ Fail /\ rt' = IF turn.woken THEN idle ELSE rt
  /\ UNCHANGED <<cancel, full, speech, player>>

\* _stream_voice_turn() and stream_text(), up to the transcript.
Transcribe ==
  /\ turn.at = "transcribe"
  /\ IF rt = "LISTENING"
     THEN rt' = "TRANSCRIBING" /\ Goto("heard")
     ELSE Fail /\ UNCHANGED rt
  /\ UNCHANGED <<cancel, full, speech, player>>

\* A failed transcription; a blank one or an exact "stop"; or a prompt, with
\* fresh flags, a fresh queue and its full-turn monitor.
Heard ==
  /\ turn.at = "heard"
  /\ \/ Transition("ERROR") /\ Fail /\ UNCHANGED <<cancel, full>>
     \/ /\ Transition("IDLE") /\ UNCHANGED <<cancel, full>>
        /\ IF MayGo(rt, "IDLE") THEN \E step \in {"start", "away"} : Goto(step) ELSE Fail
     \/ /\ turn' = [turn EXCEPT !.at = "route", !.k = @ + 1, !.chunks = 0,
                                !.last = FALSE, !.completed = FALSE]
        /\ cancel' = FALSE
        /\ full' = [at |-> "listening", stopping |-> FALSE, hushed |-> FALSE, found |-> "none"]
        /\ UNCHANGED rt
  /\ UNCHANGED <<speech, player>>

\* stream_response() up to its first request: routing and context may raise
\* before the runtime is THINKING; a turn cancelled meanwhile ends here.
Route ==
  /\ turn.at = "route"
  /\ \/ Raise /\ UNCHANGED rt
     \/ /\ cancel
        /\ rt' = IF rt \in {"TRANSCRIBING", "THINKING"} THEN "CANCELLED" ELSE rt
        /\ Goto("flush") /\ UNCHANGED speech
     \/ LET ready == IF rt \in TerminalStates THEN "IDLE" ELSE rt IN
        IF MayGo(ready, "THINKING")
        THEN rt' = "THINKING" /\ Goto("generate") /\ UNCHANGED speech
        ELSE rt' = ready /\ Raise
  /\ UNCHANGED <<cancel, full, player>>

\* The generator is asked for the next chunk: text; the end; or a failure, which
\* is a cancellation once the owner has interrupted.
Generate ==
  /\ turn.at = "generate"
  /\ IF cancel
     THEN /\ rt' = IF rt = "THINKING" THEN "CANCELLED" ELSE rt
          /\ Goto("flush") /\ UNCHANGED speech
     ELSE \/ turn.chunks < MaxChunks /\ Goto("check") /\ UNCHANGED <<rt, speech>>
          \/ Goto(IF rt = "THINKING" THEN "complete" ELSE "flush") /\ UNCHANGED <<rt, speech>>
          \/ Transition("ERROR") /\ Raise
  /\ UNCHANGED <<cancel, full, player>>

\* The transition follows the test of the state; the worker may come between.
Complete ==
  /\ turn.at = "complete"
  /\ Transition("COMPLETED")
  /\ IF MayGo(rt, "COMPLETED") THEN Goto("flush") /\ UNCHANGED speech ELSE Raise
  /\ UNCHANGED <<cancel, full, player>>

\* A chunk arrived: worker errors and cancellation come first; it may complete
\* a sentence.
CheckChunk ==
  /\ turn.at = "check"
  /\ IF Sp.err
     THEN Raise
     ELSE IF Sp.muted \/ cancel
     THEN /\ speech' = [speech EXCEPT ![turn.k].muted = TRUE, ![turn.k].closed = TRUE]
          /\ Goto("wrap")
     ELSE /\ UNCHANGED speech
          /\ \E step \in {"put", "yielded"} :
               turn' = [turn EXCEPT !.at = step, !.chunks = @ + 1]
  /\ UNCHANGED <<rt, cancel, full, player>>

\* enqueue(): waits for room, and the first sentence starts the worker.
Enqueue ==
  /\ turn.at = "put"
  /\ \/ Sp.err /\ Raise
     \/ ~Sp.err /\ Sp.muted /\ Goto("wrap") /\ UNCHANGED speech
     \/ /\ ~Sp.err /\ ~Sp.muted /\ Sp.queue < QueueSize
        /\ speech' = [speech EXCEPT ![turn.k].queue = @ + 1,
                                    ![turn.k].at = IF @ = "none" THEN "begin" ELSE @]
        /\ turn' = [turn EXCEPT !.at = IF turn.last THEN "wrap" ELSE "yielded",
                                !.completed = turn.last]
  /\ UNCHANGED <<rt, cancel, full, player>>

\* Between two chunks.
Yielded ==
  /\ turn.at = "yielded"
  /\ Goto(IF Sp.muted \/ cancel THEN "wrap" ELSE "generate")
  /\ UNCHANGED <<rt, cancel, full, speech, player>>

\* The generator is exhausted: what the chunker still holds is a last sentence.
Flush ==
  /\ turn.at = "flush"
  /\ \/ turn' = [turn EXCEPT !.at = "put", !.last = TRUE]
     \/ turn' = [turn EXCEPT !.at = "wrap", !.last = TRUE, !.completed = TRUE]
  /\ UNCHANGED <<rt, cancel, full, speech, player>>

\* The end of the try block and its finally.
Wrap ==
  /\ turn.at = "wrap"
  /\ speech' = [speech EXCEPT ![turn.k].closed = TRUE, ![turn.k].muted = @ \/ cancel]
  /\ turn' = [turn EXCEPT !.completed = @ /\ ~cancel,
                          !.at = IF turn.completed /\ ~cancel THEN "join" ELSE "closing"]
  /\ UNCHANGED <<rt, cancel, full, player>>

\* response.close(): GeneratorExit in a generator suspended at a chunk.
CloseResponse ==
  /\ turn.at = "closing"
  /\ Goto(IF rt = "THINKING" /\ ~turn.last THEN "cancelRuntime" ELSE "join")
  /\ UNCHANGED <<rt, cancel, full, speech, player>>

CancelRuntime ==
  /\ turn.at = "cancelRuntime"
  /\ Transition("CANCELLED")
  /\ IF MayGo(rt, "CANCELLED") THEN Goto("join") /\ UNCHANGED speech ELSE Raise
  /\ UNCHANGED <<cancel, full, player>>

\* A plausible bug: the turn does not wait for what is still being said.
LeaveSpeech ==
  /\ turn.at = "join"
  /\ IF Sp.err THEN Raise ELSE Goto("unmonitor") /\ UNCHANGED speech
  /\ UNCHANGED <<rt, cancel, full, player>>

\* The worker is joined, however long it speaks, and its error raised.
JoinSpeech ==
  /\ turn.at = "join"
  /\ Sp.at \in {"none", "ended"}
  /\ IF Sp.err THEN Raise ELSE Goto("unmonitor") /\ UNCHANGED speech
  /\ UNCHANGED <<rt, cancel, full, player>>

\* The finally of the monitored turn: the monitor is asked to end and joined;
\* it finishes an utterance it is in the middle of.
StopMonitor ==
  /\ turn.at = "unmonitor" /\ ~full.stopping
  /\ full' = [full EXCEPT !.stopping = TRUE]
  /\ UNCHANGED <<rt, turn, cancel, speech, player>>

JoinMonitor ==
  /\ turn.at = "unmonitor" /\ full.stopping /\ full.at = "ended"
  /\ Goto(IF turn.k \in turn.raised THEN "failed" ELSE "result")
  /\ UNCHANGED <<rt, cancel, full, speech, player>>

\* What interrupted the turn becomes the next one: the utterance of the full
\* monitor, after _resume_listening_after_interruption(), which leads every
\* state to LISTENING; or else the worker's.
Result ==
  /\ turn.at = "result"
  /\ full' = [full EXCEPT !.found = "none"]
  /\ speech' = [speech EXCEPT ![turn.k].found = "none"]
  /\ IF full.found = "utterance"
     THEN rt' = "LISTENING" /\ Goto("transcribe")
     ELSE UNCHANGED rt /\ Goto(IF Sp.heard THEN "transcribe" ELSE "start")
  /\ UNCHANGED <<cancel, player>>

(***************************************************************************)
(* The speech worker of turn k: play_sentences(), _speak_response() and     *)
(* PipeWireSpeechPlayer.play().                                             *)
(***************************************************************************)
Worker(k, step) == speech' = [speech EXCEPT ![k].at = step]
Failed(sp)      == [sp EXCEPT !.at = "ended", !.err = TRUE, !.muted = TRUE, !.closed = TRUE]

\* Only a THINKING or COMPLETED runtime may start to speak.  The playback gets
\* a monitor of its own unless the turn's monitor is alive.
SpeechBegins(k) ==
  /\ speech[k].at = "begin"
  /\ IF rt \in {"THINKING", "COMPLETED"}
     THEN /\ rt' = "SPEAKING"
          /\ speech' = [speech EXCEPT ![k].at = "play", ![k].mon =
               IF k = turn.k /\ full.at \in {"listening", "onset"} THEN "off" ELSE "wait"]
     ELSE UNCHANGED rt /\ speech' = [speech EXCEPT ![k] = Failed(@)]
  /\ UNCHANGED <<turn, cancel, full, player>>

\* The play lock is taken; an earlier stop request is forgotten.
PlaybackBegins(k) ==
  /\ speech[k].at = "play" /\ player.by = 0
  /\ player' = [player EXCEPT !.by = k, !.stop = FALSE]
  /\ Worker(k, "feed")
  /\ UNCHANGED <<rt, turn, cancel, full>>

\* A sentence is taken, synthesized and written to pw-play.
Feed(k) ==
  /\ speech[k].at = "feed" /\ ~player.stop
  /\ speech[k].queue > 0 /\ ~speech[k].muted
  /\ speech' = [speech EXCEPT ![k].queue = @ - 1, ![k].produced = TRUE]
  /\ player' = [player EXCEPT !.on = TRUE]
  /\ UNCHANGED <<rt, turn, cancel, full>>

\* The loop ends: stop requested, nothing left to say, or synthesis or pw-play
\* failed.  A stream that never gave audio is an error.
FeedEnds(k) ==
  /\ speech[k].at = "feed"
  /\ \/ player.stop /\ speech' = [speech EXCEPT ![k].at = "drain",
                         ![k].out = IF speech[k].produced THEN "interrupted" ELSE "failed"]
     \/ /\ ~player.stop
        /\ IF speech[k].queue > 0 THEN speech[k].muted ELSE speech[k].closed
        /\ speech' = [speech EXCEPT ![k].at = "drain",
                         ![k].out = IF speech[k].produced THEN "finished" ELSE "failed"]
     \/ speech' = [speech EXCEPT ![k].at = "drain", ![k].out = "failed"]
  /\ UNCHANGED <<rt, turn, cancel, full, player>>

\* pw-play plays what it has and exits, or was terminated: by this thread when
\* interrupted or failed, by stop() otherwise, and then its exit code decides.
PlaybackEnds(k) ==
  /\ speech[k].at = "drain"
  /\ player' = [player EXCEPT !.by = 0, !.on = FALSE]
  /\ \E out \in (IF speech[k].out = "finished" THEN {"finished", "failed"}
                                              ELSE {speech[k].out}) :
       speech' = [speech EXCEPT ![k].at = "judge", ![k].out = out]
  /\ UNCHANGED <<rt, turn, cancel, full>>

\* The worker ends in state `to` of the runtime, or fails when that is refused.
EndsIn(k, to, muted, heard) ==
  /\ Transition(to)
  /\ speech' = [speech EXCEPT ![k] =
       IF MayGo(rt, to)
       THEN [@ EXCEPT !.at = "ended", !.muted = @ \/ muted, !.closed = @ \/ muted \/ speech[k].muted,
                      !.heard = heard]
       ELSE Failed(@)]

\* After its monitor: _validate_barge_in_result() and the outcome of the speech.
Judge(k) ==
  /\ speech[k].at = "judge" /\ speech[k].mon \in {"off", "ended"}
  /\ LET out   == speech[k].out
         found == speech[k].found
     IN CASE \/ out = "failed" \/ found \in {"error", "stopFailed"}
             \/ found \in {"utterance", "incomplete"} /\ out # "interrupted"
               -> /\ Transition("ERROR")
                  /\ speech' = [speech EXCEPT ![k] = Failed(@)]
          [] OTHER -> IF found = "utterance"
                      THEN EndsIn(k, "LISTENING", TRUE, TRUE)
                      ELSE EndsIn(k, "IDLE", out = "interrupted", FALSE)
  /\ UNCHANGED <<turn, cancel, full, player>>

(***************************************************************************)
(* Barge-in: capture_interruption() of the two monitors, and stop().        *)
(***************************************************************************)
\* stop(): requested in any case; it stops a live process.
StopPlayer == player' = [player EXCEPT !.stop = TRUE, !.on = FALSE]

\* The full monitor hears speech begin.  A playback that ends just before
\* stop() makes it forget the onset and listen on.
FullOnset ==
  /\ full.at = "listening" /\ MoreTurns
  /\ IF player.on
     THEN \/ StopPlayer /\ full' = [full EXCEPT !.at = "onset", !.hushed = TRUE]
          \/ player.by # 0 /\ StopPlayer /\ UNCHANGED full
     ELSE full' = [full EXCEPT !.at = "onset"] /\ UNCHANGED player
  /\ UNCHANGED <<rt, turn, cancel, speech>>

\* Friday begins to speak while the owner does.
FullHush ==
  /\ full.at = "onset" /\ ~full.hushed /\ player.on
  /\ StopPlayer /\ full' = [full EXCEPT !.hushed = TRUE]
  /\ UNCHANGED <<rt, turn, cancel, speech>>

\* The utterance is complete, or the capture ends without one.
FullHeard ==
  /\ full.at = "onset"
  /\ \E what \in {"utterance", "incomplete"} :
       full' = [full EXCEPT !.at = "ended", !.found = what]
  /\ cancel' = TRUE
  /\ UNCHANGED <<rt, turn, speech, player>>

\* It is asked to end before any speech, or its capture fails.
FullEnds ==
  /\ full.at \in {"listening", "onset"}
  /\ full' = [full EXCEPT !.at = "ended"]
  /\ UNCHANGED <<rt, turn, cancel, speech, player>>

Monitor(k, step, found) ==
  speech' = [speech EXCEPT ![k].mon = step, ![k].found = found]

\* The playback monitor waits for audio: it comes, never comes, or is late.
PlaybackMonitorArms(k) ==
  /\ speech[k].mon = "wait"
  /\ \/ player.on /\ Monitor(k, "watch", "none")
     \/ ~player.on /\ Monitor(k, "ended", IF speech[k].at = "judge" THEN "none" ELSE "error")
  /\ UNCHANGED <<rt, turn, cancel, full, player>>

\* It hears speech and stops the playback, or just misses it; the playback
\* ends, perhaps before the capture began; the capture fails.
PlaybackMonitorWatches(k) ==
  /\ speech[k].mon = "watch"
  /\ \/ player.on /\ MoreTurns /\ StopPlayer /\ Monitor(k, "onset", "none")
     \/ player.on /\ MoreTurns /\ StopPlayer /\ Monitor(k, "ended", "stopFailed")
     \/ UNCHANGED player /\ Monitor(k, "ended", "error")
     \/ ~player.on /\ UNCHANGED player /\ Monitor(k, "ended", "none")
  /\ UNCHANGED <<rt, turn, cancel, full>>

\* The owner's utterance ends: no further model text is asked for.
PlaybackMonitorHears(k) ==
  /\ speech[k].mon = "onset"
  /\ \E what \in {"utterance", "incomplete"} :
       speech' = [speech EXCEPT ![k].mon = "ended", ![k].found = what, ![k].muted = TRUE]
  /\ UNCHANGED <<rt, turn, cancel, full, player>>

SessionThread ==
  \/ StartListening \/ Acknowledge \/ Acknowledged \/ Capture \/ Transcribe
  \/ Heard \/ Route \/ Generate \/ Complete \/ CheckChunk \/ Enqueue \/ Yielded
  \/ Flush \/ Wrap \/ CloseResponse \/ CancelRuntime \/ JoinSpeech
  \/ StopMonitor \/ JoinMonitor \/ Result
SpeechThread(k) ==
  SpeechBegins(k) \/ PlaybackBegins(k) \/ Feed(k) \/ FeedEnds(k)
  \/ PlaybackEnds(k) \/ Judge(k)
FullMonitor == FullOnset \/ FullHush \/ FullHeard \/ FullEnds
PlaybackMonitor(k) ==
  PlaybackMonitorArms(k) \/ PlaybackMonitorWatches(k) \/ PlaybackMonitorHears(k)

VoiceNext ==
  \/ Wake \/ SessionThread \/ FullMonitor
  \/ \E k \in Turns : SpeechThread(k) \/ PlaybackMonitor(k)

\* Threads run, model streams and playback end, utterances are bounded; the
\* owner need not say a wake phrase.
VoiceFairness ==
  /\ WF_voiceVars(SessionThread) /\ WF_voiceVars(FullMonitor)
  /\ \A k \in Turns : WF_voiceVars(SpeechThread(k)) /\ WF_voiceVars(PlaybackMonitor(k))

VoiceSpec == VoiceInit /\ [][VoiceNext]_voiceVars /\ VoiceFairness

(***************************************************************************)
(* Properties.                                                              *)
(***************************************************************************)
Speaking(k) == speech[k].at \notin {"none", "ended"}
Answering   == turn.at \in {"route", "generate", "complete", "check", "put", "yielded",
                            "flush", "wrap", "closing", "cancelRuntime", "join"}

\* A turn that returns has silenced its voice first: what it said is over, and
\* its monitor gone, before the session listens again.  Only a turn that raised
\* can leave Friday speaking.
SilentAfterTurn ==
  /\ \A k \in Turns : Speaking(k) => k \in turn.raised \/ (k = turn.k /\ Answering)
  /\ turn.at = "result" => full.at = "ended"

\* What the owner said over Friday's voice is the next turn: a session whose
\* turn returned never goes back to listening with an utterance in hand.
HeardIsAnswered ==
  turn.at \in {"start", "capture", "away"} /\ turn.k > 0 /\ turn.k \notin turn.raised =>
    full.found # "utterance" /\ speech[turn.k].found # "utterance"

\* Whatever the owner, the monitors and the workers do, and in any order, a
\* session no step of which raised can go on to its next listening.
SessionCanListen == turn.at = "start" /\ turn.raised = {} => CanListen(rt)

\* A turn ends: the session listens again, is over, or has failed.
TurnEnds == Answering ~> turn.at \in {"start", "transcribe", "failed"}

\* "Timeout or capture failure closes the pending LISTENING state to IDLE before
\* wake resumes" (docs/decisions/0013-production-voice-and-wake.md).
CaptureFailureClosesListening == turn.at = "failed" => CanListen(rt)
=============================================================================
