----------------------------- MODULE WakeDetector -----------------------------
(***************************************************************************)
(* The strict wake cascade: FridayWakeSupervisor.detect() (voice/wake.py)   *)
(* asks the primary detector and, on a miss, the fallback.  Each is a       *)
(* PersistentWakeDetector (voice/wake_runtime.py) in front of a resident    *)
(* worker process (voice/workers/), which it starts on demand and replaces  *)
(* after any failure.  There are no request identifiers: an answer belongs  *)
(* to a request only because every failed exchange ends the worker.         *)
(*                                                                          *)
(* Lines of a worker which are not protocol messages are noise.  readline() *)
(* takes all that the pipe holds into a buffer, while select() looks at the *)
(* pipe alone: a message behind noise may wait in the buffer, unseen.       *)
(***************************************************************************)
EXTENDS Naturals, Sequences

CONSTANTS
  MaxUtterances,   \* bound: utterances the wake capture hands over
  MaxLines,        \* bound: lines in a worker's output pipe
  MaxStarts        \* bound: workers started by each detector

ASSUME DetectorAssumption == {MaxUtterances, MaxLines, MaxStarts} \subseteq Nat \ {0}

VARIABLES
  resident,   \* per detector: _process and the worker behind it
  request,    \* per detector: the lines in the worker's stdin
  output,     \* per detector: the lines in its stdout pipe
  buffer,     \* per detector: the lines readline() has read ahead
  ioLock,     \* per detector: who holds _io_lock
  cascade,    \* the thread in FridayWakeSupervisor.detect()
  release     \* the thread in _close_resources_locked(): detectors still to close

detectorVars == <<resident, request, output, buffer, ioLock, cascade, release>>

Detectors  == {"primary", "fallback"}
Utterances == 1 .. MaxUtterances
Quit_      == MaxUtterances + 1     \* the __QUIT__ line
Line(kind, u, match) == [kind |-> kind, u |-> u, match |-> match]
Noise == Line("noise", 0, FALSE)
LineSet == [kind: {"ready", "result", "error", "bye", "noise"},
            u: 0 .. MaxUtterances, match: BOOLEAN]

DetectorTypeOK ==
  /\ resident \in [Detectors -> [at: {"none", "loading", "idle", "hearing", "exited"},
                                 u: 0 .. MaxUtterances, starts: 0 .. MaxStarts]]
  /\ request \in [Detectors -> Seq(1 .. Quit_)]
  /\ output \in [Detectors -> Seq(LineSet)] /\ buffer \in [Detectors -> Seq(LineSet)]
  /\ ioLock \in [Detectors -> {"free", "cascade", "release"}]
  /\ cascade \in [at: {"idle", "lock", "ready", "send", "answer"}, d: Detectors,
                  u: 0 .. MaxUtterances, heard: 0 .. MaxUtterances,
                  verdict: {"none", "wake", "miss", "failed"}]
  /\ release \in [at: {"none", "lock", "quit", "wait", "done"}, d: Detectors]

DetectorInit ==
  /\ resident = [d \in Detectors |-> [at |-> "none", u |-> 0, starts |-> 0]]
  /\ request = [d \in Detectors |-> <<>>]
  /\ output = [d \in Detectors |-> <<>>] /\ buffer = [d \in Detectors |-> <<>>]
  /\ ioLock = [d \in Detectors |-> "free"]
  /\ cascade = [at |-> "idle", d |-> "primary", u |-> 0, heard |-> 0, verdict |-> "none"]
  /\ release = [at |-> "none", d |-> "fallback"]

Running(d) == resident[d].at \notin {"none", "exited"}

(***************************************************************************)
(* The worker process: ready, then an answer to each line it reads.         *)
(***************************************************************************)
Emits(d, line) == Len(output[d]) < MaxLines /\ output' = [output EXCEPT ![d] = Append(@, line)]

ResidentReady(d) ==
  /\ resident[d].at = "loading"
  /\ Emits(d, Line("ready", 0, FALSE))
  /\ resident' = [resident EXCEPT ![d].at = "idle"]
  /\ UNCHANGED <<request, buffer, ioLock, cascade, release>>

ResidentReads(d) ==
  /\ resident[d].at = "idle" /\ request[d] # <<>>
  /\ request' = [request EXCEPT ![d] = Tail(@)]
  /\ IF Head(request[d]) = Quit_
     THEN Emits(d, Line("bye", 0, FALSE)) /\ resident' = [resident EXCEPT ![d].at = "exited"]
     ELSE /\ resident' = [resident EXCEPT ![d].at = "hearing", ![d].u = Head(request[d])]
          /\ UNCHANGED output
  /\ UNCHANGED <<buffer, ioLock, cascade, release>>

ResidentAnswers(d) ==
  /\ resident[d].at = "hearing"
  /\ \/ \E match \in BOOLEAN : Emits(d, Line("result", resident[d].u, match))
     \/ Emits(d, Line("error", 0, FALSE))
  /\ resident' = [resident EXCEPT ![d].at = "idle", ![d].u = 0]
  /\ UNCHANGED <<request, buffer, ioLock, cascade, release>>

ResidentChats(d) ==
  /\ Running(d) /\ output[d] = <<>> /\ Emits(d, Noise)
  /\ UNCHANGED <<resident, request, buffer, ioLock, cascade, release>>

ResidentDies(d) ==
  /\ Running(d)
  /\ resident' = [resident EXCEPT ![d].at = "exited"]
  /\ UNCHANGED <<request, output, buffer, ioLock, cascade, release>>

\* _terminate_process(): the process, its pipes and the read-ahead are gone.
Discard(d) ==
  /\ resident' = [resident EXCEPT ![d].at = "none", ![d].u = 0]
  /\ request' = [request EXCEPT ![d] = <<>>]
  /\ output' = [output EXCEPT ![d] = <<>>]
  /\ buffer' = [buffer EXCEPT ![d] = <<>>]

(***************************************************************************)
(* detect() of the supervisor and, under the I/O lock, of a detector.       *)
(***************************************************************************)
Utter ==
  /\ cascade.at = "idle" /\ cascade.u < MaxUtterances
  /\ cascade' = [at |-> "lock", d |-> "primary", u |-> cascade.u + 1,
                 heard |-> 0, verdict |-> "none"]
  /\ UNCHANGED <<resident, request, output, buffer, ioLock, release>>

\* An exception leaves the cascade; the lock is released on the way.
Abandon(d) ==
  /\ cascade' = [cascade EXCEPT !.at = "idle", !.verdict = "failed"]
  /\ ioLock' = [ioLock EXCEPT ![d] = "free"]

\* A live worker is kept; otherwise what is left of it is discarded and a new
\* one started, which may fail.
EnterDetect ==
  /\ cascade.at = "lock"
  /\ LET d == cascade.d IN
     /\ ioLock[d] = "free"
     /\ IF Running(d)
        THEN /\ cascade' = [cascade EXCEPT !.at = "send"]
             /\ ioLock' = [ioLock EXCEPT ![d] = "cascade"]
             /\ UNCHANGED <<resident, request, output, buffer>>
        ELSE \/ /\ resident[d].starts < MaxStarts
                /\ resident' = [resident EXCEPT ![d] =
                     [at |-> "loading", u |-> 0, starts |-> @.starts + 1]]
                /\ request' = [request EXCEPT ![d] = <<>>]
                /\ output' = [output EXCEPT ![d] = <<>>]
                /\ buffer' = [buffer EXCEPT ![d] = <<>>]
                /\ cascade' = [cascade EXCEPT !.at = "ready"]
                /\ ioLock' = [ioLock EXCEPT ![d] = "cascade"]
             \/ Discard(d) /\ Abandon(d)
  /\ UNCHANGED release

\* A plausible bug: the worker outlives the failed exchange.
FailOpen(d) == Abandon(d) /\ UNCHANGED <<resident, request, output, buffer>>

\* Any failure of an exchange ends the worker.
FailClosed(d) == Discard(d) /\ Abandon(d)

\* One turn of the loop of _read_message(): the worker has exited, the deadline
\* has passed with nothing in the pipe, or a line is read.
ReadMessage(d, handle(_)) ==
  \/ resident[d].at = "exited" /\ FailClosed(d)
  \/ Running(d) /\ output[d] = <<>> /\ FailClosed(d)
  \/ /\ Running(d) /\ output[d] # <<>>
     /\ LET lines == buffer[d] \o output[d] IN
        IF Head(lines).kind = "noise"
        THEN /\ output' = [output EXCEPT ![d] = <<>>]
             /\ buffer' = [buffer EXCEPT ![d] = Tail(lines)]
             /\ UNCHANGED <<resident, request, cascade, ioLock>>
        ELSE handle(lines)

Taken(d, lines) ==
  /\ output' = [output EXCEPT ![d] = <<>>]
  /\ buffer' = [buffer EXCEPT ![d] = Tail(lines)]
  /\ UNCHANGED <<resident, request>>

AwaitResident ==
  /\ cascade.at = "ready"
  /\ LET d == cascade.d
         handle(lines) ==
           IF Head(lines).kind = "ready"
           THEN Taken(d, lines) /\ cascade' = [cascade EXCEPT !.at = "send"] /\ UNCHANGED ioLock
           ELSE FailClosed(d)
     IN ReadMessage(d, handle)
  /\ UNCHANGED release

SendUtterance ==
  /\ cascade.at = "send"
  /\ LET d == cascade.d IN
     IF Running(d)
     THEN /\ request' = [request EXCEPT ![d] = Append(@, cascade.u)]
          /\ cascade' = [cascade EXCEPT !.at = "answer"]
          /\ UNCHANGED <<resident, output, buffer, ioLock>>
     ELSE FailClosed(d)
  /\ UNCHANGED release

\* A result settles the cascade on a match or with the fallback; a miss of the
\* primary goes on to the fallback.
AwaitAnswer ==
  /\ cascade.at = "answer"
  /\ LET d == cascade.d
         handle(lines) ==
           IF Head(lines).kind = "result"
           THEN /\ Taken(d, lines)
                /\ ioLock' = [ioLock EXCEPT ![d] = "free"]
                /\ LET judged == [cascade EXCEPT !.heard = Head(lines).u] IN
                   cascade' = IF Head(lines).match \/ d = "fallback"
                     THEN [judged EXCEPT !.at = "idle",
                             !.verdict = IF Head(lines).match THEN "wake" ELSE "miss"]
                     ELSE [judged EXCEPT !.at = "lock", !.d = "fallback"]
           ELSE FailClosed(d)
     IN ReadMessage(d, handle)
  /\ UNCHANGED release

(***************************************************************************)
(* _close_resources_locked(): close() of the fallback, then of the primary. *)
(* Nothing marks a detector as closed.                                      *)
(***************************************************************************)
ReleaseBegins ==
  /\ release.at = "none" /\ release' = [release EXCEPT !.at = "lock"]
  /\ UNCHANGED <<resident, request, output, buffer, ioLock, cascade>>

Closed(d) ==
  release' = IF d = "fallback" THEN [at |-> "lock", d |-> "primary"]
                               ELSE [release EXCEPT !.at = "done"]

ReleaseLocks ==
  /\ release.at = "lock" /\ ioLock[release.d] = "free"
  /\ IF resident[release.d].at = "none"
     THEN Closed(release.d) /\ UNCHANGED ioLock
     ELSE /\ release' = [release EXCEPT !.at = "quit"]
          /\ ioLock' = [ioLock EXCEPT ![release.d] = "release"]
  /\ UNCHANGED <<resident, request, output, buffer, cascade>>

ReleaseQuits ==
  /\ release.at = "quit"
  /\ request' = IF Running(release.d) THEN [request EXCEPT ![release.d] = Append(@, Quit_)]
                                      ELSE request
  /\ release' = [release EXCEPT !.at = "wait"]
  /\ UNCHANGED <<resident, output, buffer, ioLock, cascade>>

\* The worker has exited, or is terminated after the wait.
ReleaseEnds ==
  /\ release.at = "wait"
  /\ Discard(release.d) /\ Closed(release.d)
  /\ ioLock' = [ioLock EXCEPT ![release.d] = "free"]
  /\ UNCHANGED cascade

ResidentStep(d) ==
  ResidentReady(d) \/ ResidentReads(d) \/ ResidentAnswers(d) \/ ResidentChats(d) \/ ResidentDies(d)
CascadeStep == EnterDetect \/ AwaitResident \/ SendUtterance \/ AwaitAnswer
ReleaseStep == ReleaseLocks \/ ReleaseQuits \/ ReleaseEnds

DetectorNext ==
  \/ \E d \in Detectors : ResidentStep(d)
  \/ Utter \/ CascadeStep \/ ReleaseBegins \/ ReleaseStep

DetectorSpec == DetectorInit /\ [][DetectorNext]_detectorVars
                /\ WF_detectorVars(CascadeStep) /\ WF_detectorVars(ReleaseStep)

(***************************************************************************)
(* Properties.                                                              *)
(***************************************************************************)
\* A verdict is about the utterance that was asked about: a timeout, an error, a
\* death or a shutdown at any point of an exchange never leaves an answer behind
\* that a later utterance, perhaps of another voice, is judged by.
VerdictIsOfTheUtterance == cascade.heard \in {0, cascade.u}
=============================================================================
