--------------------------- MODULE PhysicalGates ---------------------------
(***************************************************************************)
(* The ten physical gates of a Stage 32 session, as the operator           *)
(* orchestrator decides them.  The candidate publishes sequenced runtime   *)
(* events and wake counters; the main loop of the candidate orchestrator   *)
(* takes an owner confirmation, samples voice health, reads the events     *)
(* since its cursor and lets every event be evaluated against the gate     *)
(* that is shown.  The candidate, the owner and time go on between any two *)
(* of these steps.                                                         *)
(*                                                                         *)
(* An event is its kind and its voice turn.  Kinds stand for the event     *)
(* types and the metadata the gates look at: "asked" is a finalized        *)
(* transcript that matches the gate's phrase, "misheard" one that does     *)
(* not; "ack" is the completed listening acknowledgement.                  *)
(***************************************************************************)
EXTENDS Naturals, Sequences, FiniteSets, SequencesExt

CONSTANTS
    Turns,      \* voice turn identities
    MaxNoise    \* bound: events beside those a gate expects

ASSUME PGBoundsAssumption ==
    MaxNoise \in Nat /\ Turns \subseteq Nat \ {0} /\ {1, 2} \subseteq Turns

Gates == <<"wake", "learning_continuation", "learning_output", "barge_in",
           "spoken_stop", "no_stale_playback", "recovery_next_wake",
           "read_only_progress", "isolated_assessment",
           "ui_voice_synchronization">>

Spoken == {"speaks", "spoken"}
Responses == {"delta", "answer"} \cup Spoken
Kinds == Responses \cup
    {"ack", "asked", "misheard", "context", "cut", "stopped", "idle", "read",
     "pending", "submitted"}

VARIABLES
    log,        \* runtime events of the candidate, sequence = position
    wakes,      \* accepted wakes counted by the candidate
    noise,      \* events published beside the expected ones
    place,      \* where the main loop stands
    cursor,     \* the event cursor of the main loop
    batch,      \* last event of the snapshot being observed
    health,     \* wakes in last_voice_health
    gate,       \* gate_index, from 1
    since,      \* gate_started_sequence
    base,       \* gate_wake_baseline
    playback,   \* active_playback_sequence (0: None) and its turn
    halt,       \* stop_event_sequence
    window,     \* the five quiet seconds: "none", "open", "over"
    over,       \* the window was over when this iteration began
    ready,      \* quiet_check_ready
    phase,      \* assessment_phase
    click,      \* gate named by the pending owner confirmation, or 0
    gateResults,    \* gate_results: <<gate, passed>>
    restoring,  \* the restoration was requested
    stale       \* ghost: speech was published inside the quiet window

pgVars == <<log, wakes, noise, place, cursor, batch, health, gate, since, base,
            playback, halt, window, over, ready, phase, click, gateResults,
            restoring, stale>>
pgCandidate == <<log, wakes, noise, stale>>
pgGate == <<gate, since, base, playback, halt, window, ready, phase, gateResults,
            restoring>>

Shown == Gates[gate]
Confirmable == {"learning_output", "no_stale_playback",
                "ui_voice_synchronization"}

PGTypeOK ==
    /\ log \in Seq([k : Kinds, t : Turns])
    /\ wakes \in Nat /\ health \in 0 .. wakes /\ base \in 0 .. wakes
    /\ noise \in 0 .. MaxNoise
    /\ place \in {"consume", "health", "read", "observe", "judge", "expired",
                   "left"}
    /\ cursor \in 0 .. Len(log) /\ batch \in 0 .. Len(log)
    /\ gate \in 1 .. Len(Gates) /\ since \in 1 .. Len(log) + 1
    /\ playback \in [seq : 0 .. Len(log), t : Turns \cup {0}]
    /\ halt \in 0 .. Len(log)
    /\ window \in {"none", "open", "over"}
    /\ over \in BOOLEAN /\ ready \in BOOLEAN
    /\ phase \in {"answer", "confirm"}
    /\ click \in 0 .. Len(Gates)
    /\ gateResults \in Seq((1 .. Len(Gates)) \X BOOLEAN)
    /\ restoring \in BOOLEAN /\ stale \in BOOLEAN

-----------------------------------------------------------------------------
\* What a gate sees: positions of the observed events since it was shown

Seen == since .. cursor
Of(kinds) == {i \in Seen : log[i].k \in kinds}
After(kinds, i) == {j \in Of(kinds) : j > i}
LatestOf(S) == CHOOSE i \in S : \A j \in S : j <= i
EarliestOf(S) == CHOOSE i \in S : \A j \in S : i <= j
Transcripts == {"asked", "misheard"}

\* A verdict is "wait", "fail" or "pass".
Choose(fails, passes) ==
    IF fails THEN "fail" ELSE IF passes THEN "pass" ELSE "wait"

WakeVerdict ==
    Choose(health > base + 1, health = base + 1 /\ Of({"ack"}) # {})

ContinuationVerdict ==
    Choose(\/ Of({"misheard"}) # {}
           \/ /\ Of({"asked"}) # {} /\ Of({"answer"}) # {}
              /\ Of({"context"}) = {} \/ Of({"delta"}) = {},
           \A k \in {"asked", "context", "answer", "delta", "speaks"} :
              Of({k}) # {})

OutputVerdict ==
    Choose(playback.seq # 0 /\ After({"spoken"}, playback.seq) # {}, FALSE)

\* The follow-up of an interruption: one learning turn, and no other turn in
\* the response that comes after the transcript.
BargeInVerdict ==
    LET cuts == After({"cut"}, playback.seq)
        heard == After(Transcripts, EarliestOf(cuts))
        asks == After({"asked"}, EarliestOf(cuts))
        ask == EarliestOf(asks)
        contexts == After({"context"}, ask)
        reply == After({"delta", "speaks"}, ask)
        turn == log[EarliestOf(contexts)].t
    IN IF playback.seq = 0 THEN "wait"
       ELSE IF cuts = {}
       THEN Choose(After({"spoken"}, playback.seq) # {}, FALSE)
       ELSE IF asks = {} THEN Choose(heard # {}, FALSE)
       ELSE IF contexts = {} THEN Choose(reply # {}, FALSE)
       ELSE Choose(\/ Cardinality(contexts) > 1
                   \/ \E i \in reply : log[i].t # turn,
                   /\ After({"delta"}, ask) # {}
                   /\ After({"speaks"}, ask) # {})

\* A defective gate: a stop that came is accepted whatever was answered before.
StopEventually ==
    LET cuts == {i \in After({"cut"}, playback.seq) :
                    playback.t = 0 \/ log[i].t = playback.t}
        asks == After({"asked"}, EarliestOf(cuts))
        stops == After({"stopped"}, EarliestOf(asks))
    IN IF playback.seq = 0 \/ cuts = {} \/ asks = {} THEN "wait"
       ELSE Choose(FALSE, stops # {})

\* An explicit stop: interruption of the active playback, its transcript, the
\* stop, and no response in between.
StopVerdict ==
    LET cuts == {i \in After({"cut"}, playback.seq) :
                    playback.t = 0 \/ log[i].t = playback.t}
        cut == EarliestOf(cuts)
        heard == After(Transcripts, cut)
        asks == After({"asked"}, cut)
        stops == After({"stopped"}, EarliestOf(asks))
        answered == {i \in After(Responses, cut) :
                        asks # {} /\ stops # {} => i < EarliestOf(stops)}
    IN IF playback.seq = 0 THEN "wait"
       ELSE IF cuts = {}
       THEN Choose(\/ After({"spoken"}, playback.seq) # {}
                   \/ Of({"asked"}) # {}, FALSE)
       ELSE IF asks # {} /\ stops # {}
       THEN Choose(answered # {}, answered = {})
       ELSE Choose(\/ asks = {} /\ heard # {}
                   \/ asks = {} /\ After({"idle"}, cut) # {}
                   \/ answered # {}
                   \/ asks = {} /\ Of({"stopped"}) # {}, FALSE)

ProgressVerdict ==
    LET complete == \A k \in {"asked", "read", "answer", "spoken"} :
                       Of({k}) # {}
    IN Choose(\/ Of({"misheard"}) # {}
              \/ complete /\ LatestOf(Of({"read"})) < LatestOf(Of({"asked"})),
              complete)

\* The answer phase goes on to the confirmation phase instead of passing.
AssessmentVerdict ==
    IF phase = "answer"
    THEN LET spokenTo == LatestOf(Of(Transcripts))
             pending == After({"pending"}, spokenTo)
         IN Choose(FALSE, /\ Of(Transcripts) # {} /\ pending # {}
                          /\ After({"answer"}, LatestOf(pending)) # {}
                          /\ After({"spoken"}, LatestOf(pending)) # {})
    ELSE Choose(FALSE, /\ Of({"asked"}) # {}
                       /\ After({"submitted"}, LatestOf(Of({"asked"}))) # {})

StaleVerdict == Choose(After(Spoken, halt) # {}, FALSE)

Verdict ==
    CASE Shown \in {"wake", "recovery_next_wake"} -> WakeVerdict
      [] Shown = "learning_continuation" -> ContinuationVerdict
      [] Shown = "learning_output" -> OutputVerdict
      [] Shown = "barge_in" -> BargeInVerdict
      [] Shown = "spoken_stop" -> StopVerdict
      [] Shown = "no_stale_playback" -> StaleVerdict
      [] Shown = "read_only_progress" -> ProgressVerdict
      [] Shown = "isolated_assessment" -> AssessmentVerdict
      [] OTHER -> "wait"

-----------------------------------------------------------------------------
\* Recording a verdict and showing the next gate

Record(passed) == gateResults' = Append(gateResults, <<gate, passed>>)

\* _fail_gate: the result and the restoration, once.
FailGate ==
    /\ Record(FALSE)
    /\ restoring' = TRUE
    /\ UNCHANGED <<gate, since, base, playback, halt, window, ready, phase>>

\* _show_next_gate: evidence counts from `from`, wakes from the last sample.
ShowNext(from, sound, stop) ==
    /\ gate' = gate + 1
    /\ since' = from
    /\ base' = health
    /\ playback' = sound
    /\ halt' = stop
    /\ phase' = "answer"
    /\ IF Gates[gate'] = "no_stale_playback"
       THEN window' = "open" /\ ready' = FALSE
       ELSE UNCHANGED <<window, ready>>
    /\ UNCHANGED restoring

NoSound == [seq |-> 0, t |-> 0]
Next1 == cursor + 1

PassGate ==
    IF Shown = "isolated_assessment" /\ phase = "answer"
    THEN /\ phase' = "confirm" /\ since' = Next1
         /\ UNCHANGED <<gate, base, playback, halt, window, ready, gateResults,
                        restoring>>
    ELSE /\ Record(TRUE)
         /\ CASE Shown = "learning_continuation" ->
                   LET speech == LatestOf(Of({"speaks"}))
                   IN ShowNext(LatestOf(Of({"asked"})),
                        [seq |-> speech, t |-> log[LatestOf(Of({"answer"}))].t],
                        halt)
              [] Shown = "barge_in" ->
                   LET cut == EarliestOf(After({"cut"}, playback.seq))
                       ask == EarliestOf(After({"asked"}, cut))
                       speech == EarliestOf(After({"speaks"}, ask))
                   IN ShowNext(speech, [seq |-> speech, t |-> log[speech].t],
                               halt)
              [] Shown = "spoken_stop" ->
                   LET cut == EarliestOf({i \in After({"cut"}, playback.seq) :
                                  playback.t = 0 \/ log[i].t = playback.t})
                       stop == EarliestOf(After({"stopped"},
                                         EarliestOf(After({"asked"}, cut))))
                   IN ShowNext(stop, NoSound, stop)
              [] OTHER -> ShowNext(Next1, NoSound, halt)

\* One evaluation of the gate that is shown.  The quiet gate asks for the
\* owner's confirmation once its five seconds are over.
Evaluate ==
    CASE Verdict = "fail" -> FailGate
      [] Verdict = "pass" -> PassGate
      [] Shown = "no_stale_playback" /\ over /\ Verdict = "wait" ->
            /\ ready' = TRUE
            /\ UNCHANGED <<gate, since, base, playback, halt, window, phase,
                           gateResults, restoring>>
      [] OTHER -> UNCHANGED pgGate

-----------------------------------------------------------------------------
\* The candidate and the owner

\* What the candidate publishes when the owner follows the gate's prompt.
Expected ==
    CASE Shown \in {"wake", "recovery_next_wake"} -> <<"ack">>
      [] Shown = "learning_continuation" ->
            <<"asked", "context", "delta", "answer", "speaks">>
      [] Shown = "barge_in" -> <<"cut", "asked", "context", "delta", "speaks">>
      [] Shown = "spoken_stop" -> <<"cut", "asked", "stopped">>
      [] Shown = "read_only_progress" -> <<"asked", "read", "answer", "spoken">>
      [] Shown = "isolated_assessment" ->
            IF phase = "answer" THEN <<"asked", "pending", "answer", "spoken">>
            ELSE <<"asked", "submitted">>
      [] OTHER -> <<>>

\* Events of this gate so far that were expected ones, in their order.
Progress ==
    LET n == Len(SelectSeq(SubSeq(log, since, Len(log)),
                           LAMBDA e : e.k \in Range(Expected)))
    IN IF Shown \in {"barge_in", "spoken_stop"}
       THEN Cardinality({i \in playback.seq + 1 .. Len(log) :
                            log[i].k \in Range(Expected)})
       ELSE n

Publish(k, t) ==
    /\ log' = Append(log, [k |-> k, t |-> t])
    /\ wakes' = IF k = "ack" THEN wakes + 1 ELSE wakes
    /\ stale' = (stale \/ (window = "open" /\ k \in Spoken))
    /\ UNCHANGED <<place, cursor, batch, health, over, click>>
    /\ UNCHANGED pgGate

\* The owner's words open a voice turn of their own; an interruption belongs to
\* the turn that was playing.
ExpectedTurn ==
    LET sound == IF playback.t = 0 THEN 1 ELSE playback.t
    IN IF Expected[Progress + 1] = "cut" \/ Shown # "barge_in" THEN sound
       ELSE CHOOSE t \in Turns : t # sound

PublishExpected ==
    /\ place # "left" /\ Progress < Len(Expected)
    /\ Publish(Expected[Progress + 1], ExpectedTurn)
    /\ UNCHANGED noise

\* Anything else the live candidate may say at this point.
PublishNoise ==
    /\ place # "left" /\ noise < MaxNoise
    /\ noise' = noise + 1
    /\ \E k \in Kinds, t \in Turns : Publish(k, t)

\* The control server accepts one confirmation for the gate that is shown.
Confirm ==
    /\ place # "left" /\ click = 0
    /\ Shown \in Confirmable
    /\ Shown = "no_stale_playback" => ready
    /\ click' = gate
    /\ UNCHANGED <<place, cursor, batch, health, over>>
    /\ UNCHANGED pgCandidate /\ UNCHANGED pgGate

QuietSecondsPass ==
    /\ window = "open"
    /\ window' = "over"
    /\ UNCHANGED <<place, cursor, batch, health, over, click, gate, since, base,
                   playback, halt, ready, phase, gateResults, restoring>>
    /\ UNCHANGED pgCandidate

-----------------------------------------------------------------------------
\* The main loop

PGInit ==
    /\ log = <<>> /\ wakes = 0 /\ noise = 0
    /\ place = "consume" /\ cursor = 0 /\ batch = 0 /\ health = 0
    /\ gate = 1 /\ since = 1 /\ base = 0
    /\ playback = NoSound /\ halt = 0
    /\ window = "none" /\ over = FALSE /\ ready = FALSE
    /\ phase = "answer" /\ click = 0
    /\ gateResults = <<>> /\ restoring = FALSE /\ stale = FALSE

\* consume_owner_observation: the confirmation must still name the gate that
\* is shown; an audible playback must not have completed among the events that
\* were read.  The request file goes either way.
Consume ==
    /\ place = "consume"
    /\ place' = "health" /\ over' = (window = "over")
    /\ click' = 0
    /\ UNCHANGED cursor
    /\ IF click = 0 \/ click # gate THEN UNCHANGED pgGate
       ELSE CASE Shown = "learning_output" ->
                   IF After({"spoken"}, playback.seq) # {} THEN FailGate
                   ELSE /\ Record(TRUE)
                        /\ ShowNext(playback.seq, playback, halt)
              [] Shown = "no_stale_playback" ->
                   IF ready
                   THEN Record(TRUE) /\ ShowNext(Next1, NoSound, halt)
                   ELSE UNCHANGED pgGate
              [] OTHER ->
                   /\ Record(TRUE) /\ restoring' = TRUE
                   /\ UNCHANGED <<gate, since, base, playback, halt, window,
                                  ready, phase>>
    /\ UNCHANGED <<batch, health>> /\ UNCHANGED pgCandidate

\* Voice health is sampled before the events are read; without it the session
\* aborts.
SampleHealth ==
    /\ place = "health"
    /\ \/ place' = "read" /\ health' = wakes
       \/ place' = "left" /\ UNCHANGED health
    /\ UNCHANGED <<cursor, batch, over, click>>
    /\ UNCHANGED pgCandidate /\ UNCHANGED pgGate

\* event_snapshot: a request that fails gives the old cursor and no events.
\* A gate that was shown for 240 seconds fails at its next evaluation.
ReadEvents ==
    /\ place = "read"
    /\ batch' \in {cursor, Len(log)}
    /\ place' \in IF restoring THEN {"left"} ELSE {"observe", "expired"}
    /\ UNCHANGED <<cursor, health, over, click>>
    /\ UNCHANGED pgCandidate /\ UNCHANGED pgGate

Expire ==
    /\ place = "expired"
    /\ place' = "left"
    /\ FailGate
    /\ UNCHANGED <<cursor, batch, health, over, click>>
    /\ UNCHANGED pgCandidate

\* One event of the batch is added; speech after the stop fails the quiet gate
\* before anything is evaluated.
TakeEvent ==
    /\ place = "observe" /\ cursor < batch
    /\ cursor' = cursor + 1
    /\ IF Shown = "no_stale_playback" /\ log[cursor'].k \in Spoken
       THEN FailGate /\ place' = "left"
       ELSE UNCHANGED pgGate /\ place' = "judge"
    /\ UNCHANGED <<batch, health, over, click>> /\ UNCHANGED pgCandidate

\* The gate is evaluated after every event, and once more after the batch.
JudgeEvent ==
    /\ place = "judge"
    /\ Evaluate
    /\ place' = IF restoring' THEN "left" ELSE "observe"
    /\ UNCHANGED <<cursor, batch, health, over, click>>
    /\ UNCHANGED pgCandidate

JudgeBatch ==
    /\ place = "observe" /\ cursor = batch
    /\ Evaluate
    /\ place' = IF restoring' THEN "left" ELSE "consume"
    /\ UNCHANGED <<cursor, batch, health, over, click>>
    /\ UNCHANGED pgCandidate

MainLoop ==
    \/ Consume \/ SampleHealth \/ ReadEvents \/ Expire \/ TakeEvent
    \/ JudgeEvent \/ JudgeBatch

PGNext ==
    \/ PublishExpected \/ PublishNoise \/ Confirm \/ QuietSecondsPass
    \/ MainLoop

PGSpec == PGInit /\ [][PGNext]_pgVars

-----------------------------------------------------------------------------
\* Properties

\* The recorded gateResults are a run through the gates: one result for each gate
\* that was shown, in the order of the list, and only the last can be a
\* failure; a restoration without one comes after all ten have passed
\* (_record_gate, _fail_gate, consume_owner_observation).
VerdictsInOrder ==
    /\ \A i \in 1 .. Len(gateResults) :
          /\ gateResults[i][1] = i
          /\ ~gateResults[i][2] => i = Len(gateResults) /\ restoring
    /\ Len(gateResults) = gate - (IF restoring THEN 0 ELSE 1)
    /\ restoring => Len(gateResults) = Len(Gates) \/ ~gateResults[Len(gateResults)][2]

\* When the stop gate has passed, the candidate published no answer between
\* the interruption of the playback the gate was about and the accepted stop,
\* whatever was read when (_evaluate_spoken_stop).
StopWasHeededFirst ==
    \A n \in 1 .. Len(gateResults) :
        gateResults[n] = <<5, TRUE>> =>
            \E c, a \in 1 .. halt - 1 :
                /\ c < a /\ log[c].k = "cut" /\ log[a].k = "asked"
                /\ \A i \in c .. halt : log[i].k \notin Responses

\* The quiet gate passes only if no speech was published inside the quiet
\* window ("No speech resumed during the five-second check.").
QuietWindowWasQuiet ==
    \A n \in 1 .. Len(gateResults) : gateResults[n] = <<6, TRUE>> => ~stale
=============================================================================
