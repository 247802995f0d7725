---------------------------- MODULE PiperSynthesis ----------------------------
(***************************************************************************)
(* The resident speech worker (voice/piper_worker.py) and the synthesizer   *)
(* that talks to it (PiperSpeechSynthesizer of voice/piper_runtime.py).     *)
(* Requests go down one pipe; acknowledgements, audio and ends come up      *)
(* another, through a reader thread and a bounded queue.  A request may     *)
(* time out, or its consumer may give it up half way: what the worker still *)
(* says of it must never be taken for the answer to a later request.        *)
(*                                                                          *)
(* One thread speaks sentence after sentence (the speech worker of a turn), *)
(* another closes the synthesizer at some time.  PCM, metrics and the       *)
(* standard error of the worker are left out; the joins of the reader       *)
(* thread are taken to succeed once it was told to stop.                    *)
(***************************************************************************)
EXTENDS Naturals, Sequences

CONSTANTS
  MaxRequests,   \* bound: sentences asked for
  MaxWorkers,    \* bound: worker processes started
  MaxAudio,      \* bound: audio frames of a sentence
  QueueItems,    \* PiperSpeechConfig.event_queue_max_items
  PipeItems      \* bound: frames the stdout pipe holds

ASSUME PiperAssumption ==
  /\ {MaxRequests, MaxWorkers, MaxAudio} \subseteq Nat
  /\ {QueueItems, PipeItems} \subseteq Nat \ {0}

VARIABLES
  process,      \* _process: the worker it refers to, 0 for None
  worker,       \* the worker processes: program counter and request
  inbox,        \* per worker: the requests in its stdin pipe
  pipe,         \* per worker: the frames in its stdout pipe
  reader,       \* the worker whose frames the reader thread queues, 0 for none
  events,       \* _events
  requestLock,  \* _request_lock: free, or the thread that holds it
  counter,      \* _request_counter
  caller,       \* stream(): program counter, request, worker
  shutdown,      \* close(): program counter and the process it took
  timedOut      \* history: a wait on the current worker has timed out

piperVars == <<process, worker, inbox, pipe, reader, events, requestLock,
               counter, caller, shutdown, timedOut>>

Workers  == 1 .. MaxWorkers
Requests == 1 .. MaxRequests
Quit     == MaxRequests + 1      \* the quit command, among the requests
Kinds    == {"ready", "accepted", "audio", "done", "error", "bye", "eof"}
Event(kind, id) == [kind |-> kind, id |-> id]
Events   == [kind: Kinds, id: 0 .. MaxRequests]
Alive(w) == w # 0 /\ worker[w].at # "gone"

PiperTypeOK ==
  /\ process \in 0 .. MaxWorkers /\ reader \in 0 .. MaxWorkers
  /\ worker \in [Workers -> [at: {"none", "loading", "idle", "synthesizing", "gone"},
                             id: 0 .. MaxRequests, frames: 0 .. MaxAudio]]
  /\ inbox \in [Workers -> Seq(1 .. Quit)]
  /\ pipe \in [Workers -> Seq(Events)] /\ events \in Seq(Events)
  /\ \A w \in Workers : Len(pipe[w]) <= PipeItems
  /\ Len(events) <= QueueItems
  /\ requestLock \in {"free", "caller", "closer"}
  /\ counter \in 0 .. MaxRequests
  /\ caller \in [at: {"idle", "start", "ready", "lock", "send", "accept", "listen", "yield", "drain"},
                 id: 0 .. MaxRequests, w: 0 .. MaxWorkers]
  /\ shutdown \in [at: {"open", "waiting", "locked", "bye", "closed"}, of: 0 .. MaxWorkers]
  /\ timedOut \in BOOLEAN

PiperInit ==
  /\ process = 0 /\ reader = 0 /\ events = <<>> /\ requestLock = "free"
  /\ worker = [w \in Workers |-> [at |-> "none", id |-> 0, frames |-> 0]]
  /\ inbox = [w \in Workers |-> <<>>] /\ pipe = [w \in Workers |-> <<>>]
  /\ counter = 0 /\ caller = [at |-> "idle", id |-> 0, w |-> 0]
  /\ shutdown = [at |-> "open", of |-> 0] /\ timedOut = FALSE

(***************************************************************************)
(* The worker process: load, then one request at a time, to its end.        *)
(***************************************************************************)
Says(w, e) == Len(pipe[w]) < PipeItems /\ pipe' = [pipe EXCEPT ![w] = Append(@, e)]
Becomes(w, at, id, frames) == worker' = [worker EXCEPT ![w] = [at |-> at, id |-> id, frames |-> frames]]

WorkerReady(w) ==
  /\ worker[w].at = "loading"
  /\ Says(w, Event("ready", 0)) /\ Becomes(w, "idle", 0, 0)
  /\ UNCHANGED <<process, inbox, reader, events, requestLock, counter, caller, shutdown, timedOut>>

\* A request is acknowledged before it is worked on; quit says bye and exits.
WorkerTakes(w) ==
  /\ worker[w].at = "idle" /\ inbox[w] # <<>>
  /\ inbox' = [inbox EXCEPT ![w] = Tail(@)]
  /\ IF Head(inbox[w]) = Quit
     THEN Says(w, Event("bye", 0)) /\ Becomes(w, "gone", 0, 0)
     ELSE Says(w, Event("accepted", Head(inbox[w]))) /\ Becomes(w, "synthesizing", Head(inbox[w]), 0)
  /\ UNCHANGED <<process, reader, events, requestLock, counter, caller, shutdown, timedOut>>

\* Audio frames, then done; or an error, which does not name its request.
WorkerSpeaks(w) ==
  /\ worker[w].at = "synthesizing"
  /\ LET job == worker[w] IN
     \/ job.frames < MaxAudio
        /\ Says(w, Event("audio", job.id)) /\ Becomes(w, "synthesizing", job.id, job.frames + 1)
     \/ Says(w, Event("done", job.id)) /\ Becomes(w, "idle", 0, 0)
     \/ Says(w, Event("error", 0)) /\ Becomes(w, "idle", 0, 0)
  /\ UNCHANGED <<process, inbox, reader, events, requestLock, counter, caller, shutdown, timedOut>>

WorkerDies(w) ==
  /\ worker[w].at \notin {"none", "gone"}
  /\ Becomes(w, "gone", 0, 0)
  /\ UNCHANGED <<process, inbox, pipe, reader, events, requestLock, counter, caller, shutdown, timedOut>>

(***************************************************************************)
(* The reader thread: frames into the bounded queue, the end of file last.  *)
(***************************************************************************)
\* A plausible bug: an event queue without its bound.
ReaderQueuesAll ==
  /\ reader # 0 /\ pipe[reader] # <<>>
  /\ events' = Append(events, Head(pipe[reader]))
  /\ pipe' = [pipe EXCEPT ![reader] = Tail(@)]
  /\ UNCHANGED <<reader, process, worker, inbox, requestLock, counter, caller, shutdown, timedOut>>

ReaderQueues ==
  /\ reader # 0 /\ Len(events) < QueueItems
  /\ IF pipe[reader] # <<>>
     THEN /\ events' = Append(events, Head(pipe[reader]))
          /\ pipe' = [pipe EXCEPT ![reader] = Tail(@)]
          /\ UNCHANGED reader
     ELSE /\ worker[reader].at = "gone"
          /\ events' = Append(events, Event("eof", 0)) /\ reader' = 0
          /\ UNCHANGED pipe
  /\ UNCHANGED <<process, worker, inbox, requestLock, counter, caller, shutdown, timedOut>>

\* _terminate(): the process is ended and the reader retired with it.
Terminate(w) ==
  /\ worker' = [worker EXCEPT ![w].at = "gone"]
  /\ reader' = 0

(***************************************************************************)
(* stream(), on the speech worker's thread.                                 *)
(***************************************************************************)
StreamEnter ==
  /\ caller.at = "idle" /\ counter < MaxRequests
  /\ caller' = [caller EXCEPT !.at = "start"]
  /\ UNCHANGED <<process, worker, inbox, pipe, reader, events, requestLock, counter, shutdown, timedOut>>

\* start(), under the lifecycle lock, which close() may hold: a live worker is
\* kept, a dead one replaced, with a new queue; the process may not start at all.
StartWorker ==
  /\ caller.at = "start" /\ shutdown.at \notin {"locked", "bye"}
  /\ IF Alive(process)
     THEN /\ caller' = [caller EXCEPT !.at = "lock"]
          /\ UNCHANGED <<process, worker, reader, events, timedOut>>
     ELSE \/ \E w \in Workers :
               /\ worker[w].at = "none" /\ (w > 1 => worker[w - 1].at # "none")
               /\ worker' = [worker EXCEPT ![w].at = "loading"]
               /\ process' = w /\ reader' = w /\ events' = <<>> /\ timedOut' = FALSE
               /\ caller' = [caller EXCEPT !.at = "ready", !.w = w]
          \/ /\ caller' = [caller EXCEPT !.at = "idle"]
             /\ process' = 0 /\ reader' = 0
             /\ UNCHANGED <<worker, events, timedOut>>
  /\ UNCHANGED <<inbox, pipe, requestLock, counter, shutdown>>

\* _next_event(): an event is taken, or the wait times out.
TakeEvent(handle(_)) ==
  \/ events # <<>> /\ events' = Tail(events) /\ handle(Head(events)) /\ UNCHANGED timedOut
  \/ events = <<>> /\ timedOut' = TRUE /\ UNCHANGED events /\ handle(Event("eof", 0))

\* The first event must be the ready of the worker; otherwise it is ended.
AwaitReady ==
  /\ caller.at = "ready"
  /\ LET handle(e) ==
           IF e.kind = "ready"
           THEN caller' = [caller EXCEPT !.at = "lock"] /\ UNCHANGED <<worker, reader, process>>
           ELSE Terminate(caller.w) /\ process' = 0 /\ caller' = [caller EXCEPT !.at = "idle"]
     IN TakeEvent(handle)
  /\ UNCHANGED <<inbox, pipe, requestLock, counter, shutdown>>

\* The request lock; the worker must still run.
TakeRequestLock ==
  /\ caller.at = "lock" /\ requestLock = "free"
  /\ IF Alive(process)
     THEN requestLock' = "caller" /\ caller' = [caller EXCEPT !.at = "send"]
     ELSE UNCHANGED requestLock /\ caller' = [caller EXCEPT !.at = "idle"]
  /\ UNCHANGED <<process, worker, inbox, pipe, reader, events, counter, shutdown, timedOut>>

GiveUp == requestLock' = "free" /\ caller' = [caller EXCEPT !.at = "idle"]

SendRequest ==
  /\ caller.at = "send"
  /\ counter' = counter + 1
  /\ IF Alive(process)
     THEN /\ inbox' = [inbox EXCEPT ![process] = Append(@, counter + 1)]
          /\ caller' = [caller EXCEPT !.at = "accept", !.id = counter + 1]
          /\ UNCHANGED requestLock
     ELSE GiveUp /\ UNCHANGED inbox
  /\ UNCHANGED <<process, worker, pipe, reader, events, shutdown, timedOut>>

\* The acknowledgement must be of this request; anything else fails at once,
\* outside the part of stream() that drains.
AwaitAccepted ==
  /\ caller.at = "accept"
  /\ LET handle(e) ==
           IF e = Event("accepted", caller.id)
           THEN caller' = [caller EXCEPT !.at = "listen"] /\ UNCHANGED requestLock
           ELSE GiveUp
     IN TakeEvent(handle)
  /\ UNCHANGED <<process, worker, inbox, pipe, reader, counter, shutdown>>

\* Audio and done must carry the request's identifier, or it is drained.
Listen ==
  /\ caller.at = "listen"
  /\ LET handle(e) ==
           CASE e = Event("audio", caller.id) ->
                  caller' = [caller EXCEPT !.at = "yield"] /\ UNCHANGED requestLock
             [] e.kind = "error" \/ e = Event("done", caller.id) -> GiveUp
             [] OTHER -> caller' = [caller EXCEPT !.at = "drain"] /\ UNCHANGED requestLock
     IN TakeEvent(handle)
  /\ UNCHANGED <<process, worker, inbox, pipe, reader, counter, shutdown>>

\* A plausible bug: an abandoned request is left to itself.
ConsumeAndLeave ==
  /\ caller.at = "yield"
  /\ \/ caller' = [caller EXCEPT !.at = "listen"] /\ UNCHANGED requestLock
     \/ GiveUp
  /\ UNCHANGED <<process, worker, inbox, pipe, reader, events, counter, shutdown, timedOut>>

\* The consumer plays the chunk: it asks for more, or closes the generator.
Consume ==
  /\ caller.at = "yield"
  /\ \E step \in {"listen", "drain"} : caller' = [caller EXCEPT !.at = step]
  /\ UNCHANGED <<process, worker, inbox, pipe, reader, events, requestLock, counter, shutdown, timedOut>>

\* _drain_request(): up to the end of this request, an error, or a timeout.
Drain ==
  /\ caller.at = "drain"
  /\ LET handle(e) ==
           IF e.kind \in {"error", "eof"} \/ e = Event("done", caller.id)
           THEN GiveUp ELSE UNCHANGED <<caller, requestLock>>
     IN TakeEvent(handle)
  /\ UNCHANGED <<process, worker, inbox, pipe, reader, counter, shutdown>>

(***************************************************************************)
(* close(): behind the request lock and then the lifecycle lock, quit is    *)
(* sent and bye awaited.  Nothing marks the synthesizer as closed: a later  *)
(* stream() starts a new worker.                                            *)
(***************************************************************************)
CloseWaits ==
  /\ shutdown.at = "open" /\ requestLock = "free"
  /\ shutdown' = [shutdown EXCEPT !.at = "waiting"] /\ requestLock' = "closer"
  /\ UNCHANGED <<process, worker, inbox, pipe, reader, events, counter, caller, timedOut>>

CloseLocks ==
  /\ shutdown.at = "waiting" /\ caller.at # "ready"
  /\ IF process = 0
     THEN shutdown' = [shutdown EXCEPT !.at = "closed"] /\ requestLock' = "free"
     ELSE shutdown' = [at |-> "locked", of |-> process] /\ UNCHANGED requestLock
  /\ UNCHANGED <<process, worker, inbox, pipe, reader, events, counter, caller, timedOut>>

CloseQuits ==
  /\ shutdown.at = "locked"
  /\ shutdown' = [shutdown EXCEPT !.at = "bye"]
  /\ inbox' = IF Alive(shutdown.of) THEN [inbox EXCEPT ![shutdown.of] = Append(@, Quit)] ELSE inbox
  /\ UNCHANGED <<process, worker, pipe, reader, events, requestLock, counter, caller, timedOut>>

\* Bye or not, the process is ended, its handles closed, the reference dropped.
CloseEnds ==
  /\ shutdown.at = "bye"
  /\ LET handle(e) ==
           /\ shutdown' = [shutdown EXCEPT !.at = "closed"]
           /\ Terminate(shutdown.of) /\ process' = 0 /\ requestLock' = "free"
     IN TakeEvent(handle)
  /\ UNCHANGED <<inbox, pipe, counter, caller>>

WorkerStep(w) == WorkerReady(w) \/ WorkerTakes(w) \/ WorkerSpeaks(w)
CallerStep ==
  \/ StartWorker \/ AwaitReady \/ TakeRequestLock
  \/ SendRequest \/ AwaitAccepted \/ Listen \/ Consume \/ Drain
CloserStep == CloseLocks \/ CloseQuits \/ CloseEnds

PiperNext ==
  \/ \E w \in Workers : WorkerStep(w) \/ WorkerDies(w)
  \/ ReaderQueues \/ StreamEnter \/ CallerStep \/ CloseWaits \/ CloserStep

\* The caller and the closer run; the worker may stall, time settles it.
PiperFairness == WF_piperVars(CallerStep) /\ WF_piperVars(CloserStep)

PiperSpec == PiperInit /\ [][PiperNext]_piperVars /\ PiperFairness

(***************************************************************************)
(* Properties.                                                              *)
(***************************************************************************)
Frames == {events[i] : i \in DOMAIN events} \cup
          (IF reader = 0 THEN {} ELSE {pipe[reader][i] : i \in DOMAIN pipe[reader]})

\* Given up half way or not, a request leaves nothing behind: when the lock is
\* free and no wait has timed out, the next request meets an empty channel and
\* an idle worker.
ChannelIsClean ==
  requestLock = "free" /\ ~timedOut /\ caller.at # "ready" /\ Alive(process) =>
    /\ \A e \in Frames : e.kind = "ready"
    /\ worker[process].at \in {"loading", "idle"} /\ inbox[process] = <<>>

\* A request ends, whatever the worker does, and gives the lock back.
RequestEnds == caller.at # "idle" ~> caller.at = "idle"
=============================================================================
