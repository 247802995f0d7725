------------------------ MODULE QualificationSession ------------------------
(***************************************************************************)
(* One Stage 32 qualification session: the microphone is taken from the    *)
(* production voice service, handed to an isolated candidate, and given    *)
(* back.  Five kinds of process take part and share only files and systemd *)
(* units: the candidate orchestrator, the operator control server, the     *)
(* resource guard, the 20-minute timer, and any number of restore          *)
(* services, of which a file lock lets one work at a time.                 *)
(*                                                                         *)
(* status.json is read, changed and written back without a lock by the     *)
(* orchestrator and the control server, and overwritten by the restore.    *)
(* A wait bounded by a deadline in the code is here a choice between the   *)
(* awaited outcome and the failure.                                        *)
(***************************************************************************)
EXTENDS Naturals

CONSTANTS
    Physical,       \* operator mode physical_voice
    NoSpeech,       \* operator mode resource_requalification_no_speech
    LastGate,       \* the number of physical gates
    MaxUnits        \* bound: restore services waiting for the lock at once

ASSUME QBoundsAssumption == LastGate \in Nat \ {0} /\ MaxUnits \in Nat \ {0}

VARIABLES
    mode,       \* the operator mode of the session
    voice,      \* production voice service: "up" or "down"
    cand,       \* the candidate process: "none" or "up"
    ui,         \* the candidate UI (vite) runs
    session,    \* session.json: it exists, it names the candidate's pid
    orch,       \* where the orchestrator's main stands
    op,         \* the operator object: life, gate, asked (restore_requested)
    status,     \* status.json: its status and whether it names a restore unit
    request,    \* control-request.json
    starts,     \* owner_start_count
    timer,      \* the 20-minute restore timer
    guard,      \* the resource guard: process, status file, its restore unit
    units,      \* restore services waiting for restore-service.lock
    restorer,   \* the one that holds it: place, session read, verdict
    report,     \* production-restoration-verification.json
    boot,       \* "first", "rebooted" (controller not yet started), "second"
    heard,      \* the candidate's speech counters passed their baseline
    quiet       \* no-speech-resource-observation.json

qVars == <<mode, voice, cand, ui, session, orch, op, status, request, starts,
           timer, guard, units, restorer, report, boot, heard, quiet>>

QModes == {Physical, NoSpeech}
Restored == {"RESTORING", "RESTORE_FAILED", "RESTORED_VERIFIED"}
Working == {"launch", "candidate", "record", "ready", "verify", "stable", "cue",
            "active"}
NoRestore == [pc |-> "idle", pid |-> FALSE, ok |-> FALSE]
FreshOp == [life |-> "PREPARING", gate |-> 0, asked |-> FALSE]
Waiting == {"operator", "timer", "guard", "qualify", "await", "switch", "stop",
            "check"}

QTypeOK ==
    /\ mode \in QModes
    /\ voice \in {"up", "down"} /\ cand \in {"none", "up"} /\ ui \in BOOLEAN
    /\ session \in [exists : BOOLEAN, pid : BOOLEAN]
    /\ orch \in Waiting \cup Working
                  \cup {"prepare", "except", "fatal", "finally", "ended"}
    /\ op \in [life : {"PREPARING", "AWAITING_OWNER_START", "CAPTURE_HANDOFF",
                       "START_SPEAKING_NOW"} \cup Restored,
               gate : 0 .. LastGate, asked : BOOLEAN]
    /\ status \in [st : {"none", "PREPARING", "AWAITING_OWNER_START",
                         "CAPTURE_HANDOFF", "SWITCHING_CAPTURE", "ACTIVE",
                         "ABORTING"} \cup Restored,
                   unit : BOOLEAN]
    /\ request \in {"none", "start", "abort"}
    /\ starts \in 0 .. 1
    /\ timer \in {"off", "armed", "spent", "stopped"}
    /\ guard \in [proc : {"off", "starting", "watching", "awaiting", "exited"},
                  file : {"none", "ARMED", "RESTORE_LAUNCHED", "FAILED",
                          "RESTORE_FAILED", "STOPPED"},
                  unit : BOOLEAN]
    /\ units \in 0 .. MaxUnits
    /\ restorer \in [pc : {"idle", "begin", "stop", "start", "verify",
                           "controllers", "report", "settle"},
                     pid : BOOLEAN, ok : BOOLEAN]
    /\ report \in {"none"} \cup Restored
    /\ boot \in {"first", "rebooted", "second"}
    /\ heard \in BOOLEAN /\ quiet \in {"none", "PASS"}

-----------------------------------------------------------------------------
\* Restore services

Free == units < MaxUnits

\* systemd-run starts one more restore service, outside the caller's cgroup.
LaunchRestoreService == units' = units + 1

\* _ensure_independent_restore, on the status file as `st`: a unit already
\* named there or by the guard is not launched again.  A launch that fails
\* leaves the status for the caller to mark.
EnsureRestore(st, marked) ==
    \/ /\ st.st = "RESTORED_VERIFIED" \/ st.unit
       /\ status' = st /\ UNCHANGED units
    \/ /\ st.st # "RESTORED_VERIFIED" /\ ~st.unit
       /\ \/ /\ guard.unit
             /\ UNCHANGED units
             /\ status' = [st |-> "RESTORING", unit |-> TRUE]
          \/ /\ ~guard.unit /\ Free
             /\ LaunchRestoreService
             /\ status' = [st |-> "RESTORING", unit |-> TRUE]
          \/ /\ ~guard.unit
             /\ UNCHANGED units
             /\ status' = [st EXCEPT !.st = marked]

\* _request_restore_once: the operator asks at most once.
RequestRestoreOnce ==
    IF op.asked THEN UNCHANGED <<op, status, units>>
    ELSE /\ op' = [op EXCEPT !.life = "RESTORING", !.asked = TRUE]
         /\ EnsureRestore([status EXCEPT !.st = "RESTORING"], "RESTORE_FAILED")

-----------------------------------------------------------------------------
\* The orchestrator

QInit ==
    /\ mode \in QModes
    /\ voice = "up" /\ cand = "none" /\ ui = FALSE
    /\ session = [exists |-> FALSE, pid |-> FALSE]
    /\ orch = "prepare"
    /\ op = FreshOp
    /\ status = [st |-> "none", unit |-> FALSE]
    /\ request = "none" /\ starts = 0
    /\ timer = "off"
    /\ guard = [proc |-> "off", file |-> "none", unit |-> FALSE]
    /\ units = 0
    /\ restorer = NoRestore
    /\ report = "none" /\ boot = "first"
    /\ heard = FALSE /\ quiet = "none"

\* The orchestrator's process ends, with the children in its cgroup and the
\* operator object in its memory.
EndOrchestrator ==
    orch' = "ended" /\ cand' = "none" /\ ui' = FALSE /\ op' = FreshOp

OrchestratorAt(place) == orch = place /\ boot = "first"

\* Read-only preflight; a check that fails before session.json exists ends the
\* attempt with nothing to restore.
PreflightRefuses ==
    /\ OrchestratorAt("prepare")
    /\ orch' = "ended"
    /\ UNCHANGED <<mode, voice, cand, ui, session, op, status, request, starts,
                   timer, guard, units, restorer, report, boot, heard, quiet>>

\* Baseline, fixture and session.json; the session now owes a restoration.
PrepareSession ==
    /\ OrchestratorAt("prepare")
    /\ session' = [session EXCEPT !.exists = TRUE]
    /\ status' = [status EXCEPT !.st = "PREPARING"]
    /\ orch' = "operator"
    /\ UNCHANGED <<mode, voice, cand, ui, op, request, starts, timer, guard,
                   units, restorer, report, boot, heard, quiet>>

\* The operator object and the control page.
StartControlServer ==
    /\ OrchestratorAt("operator")
    /\ status' = [status EXCEPT !.st = "PREPARING"]
    /\ orch' = "timer"
    /\ UNCHANGED <<mode, voice, cand, ui, session, op, request, starts, timer,
                   guard, units, restorer, report, boot, heard, quiet>>

ArmTimer ==
    /\ OrchestratorAt("timer")
    /\ timer' = "armed"
    /\ orch' = "guard"
    /\ UNCHANGED <<mode, voice, cand, ui, session, op, status, request, starts,
                   guard, units, restorer, report, boot, heard, quiet>>

StartGuard ==
    /\ OrchestratorAt("guard") /\ guard.proc = "off"
    /\ guard' = [guard EXCEPT !.proc = "starting"]
    /\ UNCHANGED <<mode, voice, cand, ui, session, orch, op, status, request,
                   starts, timer, units, restorer, report, boot, heard, quiet>>

SeeGuardArmed ==
    /\ OrchestratorAt("guard") /\ guard.file = "ARMED"
    /\ orch' = "qualify"
    /\ UNCHANGED <<mode, voice, cand, ui, session, op, status, request, starts,
                   timer, guard, units, restorer, report, boot, heard, quiet>>

\* record_preflight, qualify_resource_startup, arm_restoration and
\* await_owner_start; each publishes over what the status file says.
Qualify ==
    /\ OrchestratorAt("qualify") /\ timer = "armed"
    /\ op' = [op EXCEPT !.life = "AWAITING_OWNER_START"]
    /\ status' = [status EXCEPT !.st = "AWAITING_OWNER_START"]
    /\ orch' = "await"
    /\ UNCHANGED <<mode, voice, cand, ui, session, request, starts, timer,
                   guard, units, restorer, report, boot, heard, quiet>>

RestorationNotArmed ==
    /\ OrchestratorAt("qualify") /\ timer # "armed"
    /\ RequestRestoreOnce
    /\ orch' = "fatal"
    /\ UNCHANGED <<mode, voice, cand, ui, session, request, starts, timer,
                   guard, restorer, report, boot, heard, quiet>>

\* A step of the preparation raises.
PreparationRaises ==
    /\ OrchestratorAt(orch) /\ orch \in Waiting \ {"await"}
    /\ orch' = "fatal"
    /\ UNCHANGED <<mode, voice, cand, ui, session, op, status, request, starts,
                   timer, guard, units, restorer, report, boot, heard, quiet>>

\* poll_once: another process has begun the restoration.
PollSeesRestoration ==
    /\ OrchestratorAt("await") /\ status.st \in Restored
    /\ op' = [op EXCEPT !.life = status.st]
    /\ orch' = "ended"
    /\ UNCHANGED <<mode, voice, cand, ui, session, status, request, starts,
                   timer, guard, units, restorer, report, boot, heard, quiet>>

\* poll_once: an unhealthy check or an expired START lease.  The check reads
\* the guard, the timer and production, and its answer is kept for 3 seconds:
\* a poll may go on with an older healthy answer.
PollGivesUp ==
    /\ OrchestratorAt("await") /\ status.st \notin Restored
    /\ RequestRestoreOnce
    /\ orch' = "ended"
    /\ UNCHANGED <<mode, voice, cand, ui, session, request, starts, timer,
                   guard, restorer, report, boot, heard, quiet>>

PollSeesAbort ==
    /\ OrchestratorAt("await") /\ status.st \notin Restored
    /\ request = "abort"
    /\ op' = [op EXCEPT !.life = "RESTORING", !.asked = TRUE]
    /\ status' = [status EXCEPT !.st = "RESTORING"]
    /\ orch' = "ended"
    /\ UNCHANGED <<mode, voice, cand, ui, session, request, starts, timer,
                   guard, units, restorer, report, boot, heard, quiet>>

\* _consume_start: the request file is renamed away with the acceptance.
AcceptStart ==
    /\ OrchestratorAt("await") /\ status.st \notin Restored
    /\ request = "start" /\ starts = 0
    /\ starts' = 1 /\ request' = "none"
    /\ op' = [op EXCEPT !.life = "CAPTURE_HANDOFF"]
    /\ status' = [status EXCEPT !.st = "CAPTURE_HANDOFF"]
    /\ orch' = "switch"
    /\ UNCHANGED <<mode, voice, cand, ui, session, timer, guard, units,
                   restorer, report, boot, heard, quiet>>

BeginSwitch ==
    /\ OrchestratorAt("switch")
    /\ status' = [status EXCEPT !.st = "SWITCHING_CAPTURE"]
    /\ orch' = "stop"
    /\ UNCHANGED <<mode, voice, cand, ui, session, op, request, starts, timer,
                   guard, units, restorer, report, boot, heard, quiet>>

StopProduction ==
    /\ OrchestratorAt("stop")
    /\ voice' = "down"
    /\ orch' = "check"
    /\ UNCHANGED <<mode, cand, ui, session, op, status, request, starts, timer,
                   guard, units, restorer, report, boot, heard, quiet>>

ConfirmStopped ==
    /\ OrchestratorAt("check") /\ voice = "down"
    /\ orch' = "launch"
    /\ UNCHANGED <<mode, voice, cand, ui, session, op, status, request, starts, timer,
                   guard, units, restorer, report, boot, heard, quiet>>

LaunchUi ==
    /\ OrchestratorAt("launch")
    /\ ui' = TRUE
    /\ orch' = "candidate"
    /\ UNCHANGED <<mode, voice, cand, session, op, status, request, starts,
                   timer, guard, units, restorer, report, boot, heard, quiet>>

LaunchCandidate ==
    /\ OrchestratorAt("candidate")
    /\ cand' = "up"
    /\ orch' = "record"
    /\ UNCHANGED <<mode, voice, ui, session, op, status, request, starts,
                   timer, guard, units, restorer, report, boot, heard, quiet>>

RecordCandidate ==
    /\ OrchestratorAt("record")
    /\ session' = [session EXCEPT !.pid = TRUE]
    /\ orch' = "ready"
    /\ UNCHANGED <<mode, voice, cand, ui, op, status, request, starts, timer,
                   guard, units, restorer, report, boot, heard, quiet>>

\* The candidate listens with its three workers.
CandidateListens ==
    /\ OrchestratorAt("ready") /\ cand = "up" /\ request = "none"
    /\ orch' = "verify"
    /\ UNCHANGED <<mode, voice, cand, ui, session, op, status, request, starts,
                   timer, guard, units, restorer, report, boot, heard, quiet>>

\* Its echo canceller reads the real microphone, its UI answers, and the one
\* capture stream is its own.
CaptureVerified ==
    /\ OrchestratorAt("verify") /\ cand = "up" /\ ui
    /\ status' = [status EXCEPT !.st = "CAPTURE_HANDOFF"]
    /\ orch' = "stable"
    /\ UNCHANGED <<mode, voice, cand, ui, session, op, request, starts, timer,
                   guard, units, restorer, report, boot, heard, quiet>>

\* Fifteen stable seconds ...
CandidateStable ==
    /\ OrchestratorAt("stable") /\ cand = "up" /\ request = "none"
    /\ orch' = "cue"
    /\ UNCHANGED <<mode, voice, cand, ui, session, op, status, request, starts,
                   timer, guard, units, restorer, report, boot, heard, quiet>>

\* ... or a request, which skips the cue and ends the loop at once.
CancelBeforeCue ==
    /\ OrchestratorAt("stable") /\ request # "none"
    /\ orch' = "finally"
    /\ UNCHANGED <<mode, voice, cand, ui, session, op, status, request, starts,
                   timer, guard, units, restorer, report, boot, heard, quiet>>

\* The speaking cue, or the silent resource window.  A request is not looked
\* for again before it.
ShowCue ==
    /\ OrchestratorAt("cue") /\ op.life = "CAPTURE_HANDOFF"
    /\ op' = IF mode = Physical
             THEN [op EXCEPT !.life = "START_SPEAKING_NOW", !.gate = 1] ELSE op
    /\ status' = [status EXCEPT !.st = "ACTIVE"]
    /\ orch' = "active"
    /\ UNCHANGED <<mode, voice, cand, ui, session, request, starts, timer,
                   guard, units, restorer, report, boot, heard, quiet>>

\* A physical gate is decided.  The last one, or one that fails, asks for the
\* restoration and leaves the loop.
GatePasses ==
    /\ OrchestratorAt("active") /\ mode = Physical
    /\ request = "none" /\ cand = "up"
    /\ IF op.gate < LastGate
       THEN /\ op' = [op EXCEPT !.gate = @ + 1]
            /\ status' = [status EXCEPT !.st = "ACTIVE"]
            /\ UNCHANGED <<orch, units>>
       ELSE /\ RequestRestoreOnce
            /\ orch' = "finally"
    /\ UNCHANGED <<mode, voice, cand, ui, session, request, starts, timer,
                   guard, restorer, report, boot, heard, quiet>>

GateFails ==
    /\ OrchestratorAt("active") /\ mode = Physical
    /\ request = "none" /\ cand = "up"
    /\ RequestRestoreOnce
    /\ orch' = "finally"
    /\ UNCHANGED <<mode, voice, cand, ui, session, request, starts, timer,
                   guard, restorer, report, boot, heard, quiet>>

\* Somebody speaks in the silent window without a wake or a turn: only the
\* candidate's counters move.
SpeechInWindow ==
    /\ OrchestratorAt("active") /\ mode = NoSpeech /\ cand = "up"
    /\ heard' = TRUE
    /\ UNCHANGED <<mode, voice, cand, ui, session, orch, op, status, request,
                   starts, timer, guard, units, restorer, report, boot, quiet>>

\* abort() inside the health block: the status is written, the exception is
\* caught by that block, and in this mode nothing aborts again.
NoticeSpeech ==
    /\ OrchestratorAt("active") /\ mode = NoSpeech /\ heard
    /\ request = "none" /\ cand = "up"
    /\ status' = [status EXCEPT !.st = "ABORTING"]
    /\ UNCHANGED <<mode, voice, cand, ui, session, orch, op, request, starts,
                   timer, guard, units, restorer, report, boot, heard, quiet>>

\* 180 seconds have passed.
WindowEnds ==
    /\ OrchestratorAt("active") /\ mode = NoSpeech
    /\ request = "none" /\ cand = "up"
    /\ quiet' = "PASS"
    /\ request' = "abort"
    /\ RequestRestoreOnce
    /\ orch' = "finally"
    /\ UNCHANGED <<mode, voice, cand, ui, session, starts, timer, guard,
                   restorer, report, boot, heard>>

\* The active loop leaves: a request is there, or the candidate has gone.
LoopEnds ==
    /\ OrchestratorAt("active")
    /\ request # "none" \/ cand = "none"
    /\ orch' = "finally"
    /\ UNCHANGED <<mode, voice, cand, ui, session, op, status, request, starts,
                   timer, guard, units, restorer, report, boot, heard, quiet>>

\* abort(): a request during startup, pressure, lost health, production voice
\* that came back, the end of the 20-minute window.
Abort ==
    /\ OrchestratorAt(orch) /\ orch \in Working
    /\ status' = [status EXCEPT !.st = "ABORTING"]
    /\ orch' = "except"
    /\ UNCHANGED <<mode, voice, cand, ui, session, op, request, starts, timer,
                   guard, units, restorer, report, boot, heard, quiet>>

HandleAbort ==
    /\ OrchestratorAt("except")
    /\ request' = IF request = "none" THEN "abort" ELSE request
    /\ orch' = "finally"
    /\ UNCHANGED <<mode, voice, cand, ui, session, op, status, starts, timer,
                   guard, units, restorer, report, boot, heard, quiet>>

\* The finally block: its own children first, then the restoration.
Finally ==
    /\ OrchestratorAt("finally")
    /\ EndOrchestrator
    /\ EnsureRestore(status, "RESTORE_FAILED")
    /\ UNCHANGED <<mode, voice, session, request, starts, timer, guard,
                   restorer, report, boot, heard, quiet>>

\* The last handler of the script: a launch that fails is only logged.
FatalHandler ==
    /\ OrchestratorAt("fatal")
    /\ EnsureRestore(status, status.st)
    /\ EndOrchestrator
    /\ UNCHANGED <<mode, voice, session, request, starts, timer,
                   guard, restorer, report, boot, heard, quiet>>

-----------------------------------------------------------------------------
\* The operator control server

PostStart ==
    /\ boot # "rebooted" /\ session.exists
    /\ status.st = "AWAITING_OWNER_START"
    /\ request = "none" /\ starts = 0
    /\ request' = "start"
    /\ UNCHANGED <<mode, voice, cand, ui, session, orch, op, status, starts,
                   timer, guard, units, restorer, report, boot, heard, quiet>>

\* Abort or finish: a pending START is overwritten, the status says RESTORING
\* before the service is launched, and is marked when the launch fails.
PostAbort ==
    /\ boot # "rebooted" /\ session.exists
    /\ status.st \notin {"RESTORING", "RESTORED_VERIFIED"}
    /\ request' = "abort"
    /\ \/ /\ Free
          /\ LaunchRestoreService
          /\ status' = [st |-> "RESTORING", unit |-> TRUE]
       \/ /\ UNCHANGED units
          /\ status' = [status EXCEPT !.st = "RESTORE_FAILED"]
    /\ UNCHANGED <<mode, voice, cand, ui, session, orch, op, starts, timer,
                   guard, restorer, report, boot, heard, quiet>>

\* After a reboot the controller restores an interrupted session; START and
\* the capability of the earlier boot are void.
StartupReconcile ==
    /\ boot = "rebooted"
    /\ boot' = "second"
    /\ IF session.exists /\ report # "RESTORED_VERIFIED"
       THEN \/ /\ LaunchRestoreService
               /\ status' = [st |-> "RESTORING", unit |-> TRUE]
            \/ /\ UNCHANGED units
               /\ status' = [status EXCEPT !.st = "RESTORE_FAILED"]
       ELSE UNCHANGED <<status, units>>
    /\ UNCHANGED <<mode, voice, cand, ui, session, orch, op, request, starts,
                   timer, guard, restorer, report, heard, quiet>>

-----------------------------------------------------------------------------
\* The resource guard, restarted by systemd when it exits with an error

\* run_monitor up to its loop.  What the two status files say decides whether
\* it waits for a restoration, asks for one, or arms.
GuardStarts ==
    /\ guard.proc = "starting"
    /\ \/ /\ status.st \in Restored
             \/ guard.file \in {"RESTORE_LAUNCHED", "FAILED"}
          /\ guard' = [guard EXCEPT !.proc = "awaiting"]
          /\ UNCHANGED units
       \/ /\ status.st \notin Restored /\ guard.file \in {"none", "RESTORE_FAILED"}
          /\ orch # "ended"
          /\ guard' = [guard EXCEPT !.proc = "watching", !.file = "ARMED"]
          /\ UNCHANGED units
    /\ UNCHANGED <<mode, voice, cand, ui, session, orch, op, status, request,
                   starts, timer, restorer, report, boot, heard, quiet>>

\* _begin_independent_restore: the guard then awaits the outcome, or exits with
\* an error and is restarted.
BeginIndependentRestore ==
    /\ \/ /\ Free
          /\ LaunchRestoreService
          /\ guard' = [proc |-> "awaiting", file |-> "RESTORE_LAUNCHED",
                       unit |-> TRUE]
       \/ /\ UNCHANGED units
          /\ guard' = [proc |-> "starting", file |-> "FAILED", unit |-> FALSE]
    /\ UNCHANGED <<mode, voice, cand, ui, session, orch, op, status, request,
                   starts, timer, restorer, report, boot, heard, quiet>>

\* A pressure trigger or lost telemetry; the status was read before the sample,
\* a restoration may have begun since.
GuardTriggers == guard.proc = "watching" /\ BeginIndependentRestore

\* It was restarted while armed, or the orchestrator or its cgroup is gone.
GuardFailsClosed ==
    /\ guard.proc = "starting" /\ status.st \notin Restored
    /\ guard.file \in {"ARMED", "none", "RESTORE_FAILED"}
    /\ BeginIndependentRestore

GuardSeesRestoration ==
    /\ guard.proc = "watching" /\ status.st \in Restored
    /\ guard' = [guard EXCEPT !.proc = "awaiting"]
    /\ UNCHANGED <<mode, voice, cand, ui, session, orch, op, status, request,
                   starts, timer, units, restorer, report, boot, heard, quiet>>

\* _await_verified_restoration.
GuardAwaits ==
    /\ guard.proc = "awaiting"
    /\ \/ /\ report = "RESTORED_VERIFIED"
          /\ guard' = [guard EXCEPT !.proc = "exited", !.file = "STOPPED"]
       \/ /\ report = "RESTORE_FAILED" /\ guard.file # "RESTORE_FAILED"
          /\ guard' = [guard EXCEPT !.proc = "starting",
                                    !.file = "RESTORE_FAILED"]
    /\ UNCHANGED <<mode, voice, cand, ui, session, orch, op, status, request,
                   starts, timer, units, restorer, report, boot, heard, quiet>>

\* The guard dies; systemd starts it again and the files are what it knows.
GuardKilled ==
    /\ guard.proc = "watching"
    /\ guard' = [guard EXCEPT !.proc = "starting"]
    /\ UNCHANGED <<mode, voice, cand, ui, session, orch, op, status, request,
                   starts, timer, units, restorer, report, boot, heard, quiet>>

-----------------------------------------------------------------------------
\* The restore service

\* A defective unit: the timer belongs to the candidate's unit and goes with it.
TimerFiresWithOrchestrator ==
    /\ timer = "armed" /\ Free
    /\ orch \notin (Waiting \ {"check"}) \cup {"ended"}
    /\ timer' = "spent"
    /\ LaunchRestoreService
    /\ UNCHANGED <<mode, voice, cand, ui, session, orch, op, status, request,
                   starts, guard, restorer, report, boot, heard, quiet>>

\* The 20 minutes end long after the 300-second START lease.
TimerFires ==
    /\ timer = "armed" /\ Free
    /\ orch \notin Waiting \ {"check"}
    /\ timer' = "spent"
    /\ LaunchRestoreService
    /\ UNCHANGED <<mode, voice, cand, ui, session, orch, op, status, request,
                   starts, guard, restorer, report, boot, heard, quiet>>

TakeLock ==
    /\ restorer.pc = "idle" /\ units > 0
    /\ units' = units - 1
    /\ restorer' = [restorer EXCEPT !.pc = "begin"]
    /\ UNCHANGED <<mode, voice, cand, ui, session, orch, op, status, request,
                   starts, timer, guard, report, boot, heard, quiet>>

\* An exception around the watchdog: a unit that cannot be inspected, a report
\* that cannot be read.
RecordFailure ==
    /\ restorer.pc \in {"begin", "settle"}
    /\ report' = "RESTORE_FAILED"
    /\ status' = [status EXCEPT !.st = "RESTORE_FAILED"]
    /\ restorer' = NoRestore
    /\ UNCHANGED <<mode, voice, cand, ui, session, orch, op, request, starts,
                   timer, guard, units, boot, heard, quiet>>

\* A verified report makes the request idempotent; otherwise session.json is
\* read once for the whole restoration.
BeginRestore ==
    /\ restorer.pc = "begin"
    /\ IF report = "RESTORED_VERIFIED"
       THEN /\ status' = [st |-> "RESTORED_VERIFIED", unit |-> FALSE]
            /\ restorer' = [restorer EXCEPT !.pc = "settle"]
       ELSE /\ restorer' = [pc |-> "stop", pid |-> session.pid, ok |-> TRUE]
            /\ UNCHANGED status
    /\ UNCHANGED <<mode, voice, cand, ui, session, orch, op, request, starts,
                   timer, guard, units, report, boot, heard, quiet>>

\* stop_candidate and cleanup_aec; session.json is written back as it was read.
StopCandidate ==
    /\ restorer.pc = "stop"
    /\ \E clean \in BOOLEAN :
          restorer' = [restorer EXCEPT !.pc = "start", !.ok = clean]
    /\ cand' = IF restorer.pid /\ restorer'.ok THEN "none" ELSE cand
    /\ session' = [session EXCEPT !.pid = restorer.pid]
    /\ UNCHANGED <<mode, voice, ui, orch, op, status, request, starts, timer,
                   guard, units, report, boot, heard, quiet>>

\* verify_restore: production is started when it is not active ...
StartProduction ==
    /\ restorer.pc = "start"
    /\ \/ /\ voice' = "up"
          /\ restorer' = [restorer EXCEPT !.pc = "verify"]
       \/ /\ voice = "down" /\ UNCHANGED voice
          /\ restorer' = [restorer EXCEPT !.pc = "report", !.ok = FALSE]
    /\ UNCHANGED <<mode, cand, ui, session, orch, op, status, request, starts,
                   timer, guard, units, report, boot, heard, quiet>>

\* ... and must then listen, with its databases and workers as they were.
VerifyProduction ==
    /\ restorer.pc = "verify"
    /\ \E good \in BOOLEAN :
          /\ good => voice = "up"
          /\ restorer' = [restorer EXCEPT
                !.ok = good /\ restorer.ok,
                !.pc = IF good /\ restorer.ok THEN "controllers" ELSE "report"]
    /\ UNCHANGED <<mode, voice, cand, ui, session, orch, op, status, request,
                   starts, timer, guard, units, report, boot, heard, quiet>>

\* stop_test_controllers: the guard, then the whole candidate unit.
StopControllers ==
    /\ restorer.pc = "controllers"
    /\ \/ /\ EndOrchestrator
          /\ restorer' = [restorer EXCEPT !.pc = "report"]
       \/ /\ UNCHANGED <<orch, op, cand, ui>>
          /\ restorer' = [restorer EXCEPT !.pc = "report", !.ok = FALSE]
    /\ guard' = [guard EXCEPT !.proc = "off"]
    /\ UNCHANGED <<mode, voice, session, status, request, starts, timer,
                   units, report, boot, heard, quiet>>

\* The report and the status are written whole; the guard is stopped either
\* way, its file only after a verified restoration.
WriteReport ==
    /\ restorer.pc = "report"
    /\ report' = IF restorer.ok THEN "RESTORED_VERIFIED" ELSE "RESTORE_FAILED"
    /\ status' = [st |-> report', unit |-> FALSE]
    /\ guard' = [guard EXCEPT
          !.proc = "off",
          !.file = IF restorer.ok THEN "STOPPED" ELSE guard.file]
    /\ restorer' = [restorer EXCEPT !.pc = "settle"]
    /\ UNCHANGED <<mode, voice, cand, ui, session, orch, op, request, starts,
                   timer, units, boot, heard, quiet>>

\* Only a verified restoration stops the timer; the status then says what the
\* report says.
Settle ==
    /\ restorer.pc = "settle"
    /\ \/ /\ report = "RESTORED_VERIFIED"
          /\ timer' = IF timer = "armed" THEN "stopped" ELSE timer
          /\ UNCHANGED report
       \/ /\ report' = "RESTORE_FAILED"
          /\ UNCHANGED timer
    /\ status' = [status EXCEPT !.st = report']
    /\ restorer' = NoRestore
    /\ UNCHANGED <<mode, voice, cand, ui, session, orch, op, request, starts,
                   guard, units, boot, heard, quiet>>

-----------------------------------------------------------------------------
\* Faults

CandidateDies ==
    /\ cand = "up" /\ orch \in {"ready", "verify", "stable", "cue", "active"}
    /\ cand' = "none"
    /\ UNCHANGED <<mode, voice, ui, session, orch, op, status, request, starts,
                   timer, guard, units, restorer, report, boot, heard, quiet>>

\* The orchestrator's unit is killed with everything in its cgroup.
OrchestratorKilled ==
    /\ orch \notin {"prepare", "ended"} /\ boot = "first"
    /\ EndOrchestrator
    /\ UNCHANGED <<mode, voice, session, status, request, starts, timer,
                   guard, units, restorer, report, boot, heard, quiet>>

\* Transient units do not survive a reboot, files do; the production voice
\* service is enabled and comes up.
Reboot ==
    /\ boot = "first" /\ session.exists
    /\ boot' = "rebooted"
    /\ voice' = "up"
    /\ EndOrchestrator
    /\ timer' = IF timer = "armed" THEN "spent" ELSE timer
    /\ guard' = [guard EXCEPT !.proc = "off"]
    /\ units' = 0
    /\ restorer' = NoRestore
    /\ UNCHANGED <<mode, session, status, request, starts, report, heard, quiet>>

-----------------------------------------------------------------------------
Preparation ==
    \/ PreflightRefuses \/ PrepareSession \/ StartControlServer \/ ArmTimer
    \/ StartGuard \/ SeeGuardArmed \/ Qualify \/ RestorationNotArmed
    \/ PreparationRaises
AwaitStart ==
    PollSeesRestoration \/ PollGivesUp \/ PollSeesAbort \/ AcceptStart
Handoff ==
    \/ BeginSwitch \/ StopProduction \/ ConfirmStopped \/ LaunchUi
    \/ LaunchCandidate \/ RecordCandidate \/ CandidateListens
    \/ CaptureVerified \/ CandidateStable \/ CancelBeforeCue \/ ShowCue
ActiveLoop ==
    GatePasses \/ GateFails \/ NoticeSpeech \/ WindowEnds \/ LoopEnds
Ending == Abort \/ HandleAbort \/ Finally \/ FatalHandler
Restoration ==
    \/ TakeLock \/ RecordFailure \/ BeginRestore \/ StopCandidate
    \/ StartProduction \/ VerifyProduction \/ StopControllers \/ WriteReport
    \/ Settle
GuardSteps ==
    GuardStarts \/ GuardTriggers \/ GuardFailsClosed \/ GuardSeesRestoration
    \/ GuardAwaits

QNext ==
    \/ Preparation \/ AwaitStart \/ Handoff \/ ActiveLoop \/ Ending
    \/ SpeechInWindow \/ PostStart \/ PostAbort \/ StartupReconcile
    \/ GuardSteps \/ GuardKilled \/ TimerFires \/ Restoration
    \/ CandidateDies \/ OrchestratorKilled \/ Reboot

\* systemd runs the timer and the restore services it has started; the lock
\* passes on; a controller is started at boot.  Nothing is asked of the
\* orchestrator, the guard or the owner.
QFairness ==
    /\ WF_qVars(TimerFires) /\ WF_qVars(Restoration)
    /\ WF_qVars(StartupReconcile) /\ WF_qVars(Ending)

QSpec == QInit /\ [][QNext]_qVars /\ QFairness

-----------------------------------------------------------------------------
\* Properties

\* When the restoration is verified and no restore service is at work, nothing
\* of the test is left that could take the microphone again: no orchestrator,
\* no candidate, no guard that watches and no armed timer
\* (stop_test_controllers and the timer stop of _run_locked).
RestoredMeansTestOver ==
    report = "RESTORED_VERIFIED" /\ restorer.pc = "idle" =>
        /\ orch = "ended" /\ cand = "none" /\ ~ui
        /\ guard.proc \notin {"starting", "watching"}
        /\ timer # "armed"

\* While production is stopped, a way back exists that does not depend on the
\* orchestrator: the timer is armed, a restore service waits or works, or a
\* restoration has already left its report (arm_restoration before START, the
\* transient timer unit, _record_failure).
HandoffHasWayBack ==
    voice = "down" =>
        \/ timer = "armed" \/ units > 0 \/ restorer.pc # "idle"
        \/ report # "none"

\* Production that was stopped is answered for: whatever dies in between, a
\* restore service runs to its end and leaves a report, or the machine is
\* booted again and production with it.
HandoffIsAnswered ==
    voice = "down" ~>
        (restorer.pc = "idle" /\ (report # "none" \/ boot = "second"))

\* A report of a silent window is about a silent window: no speech counter
\* passed its baseline (resource_qualification.py takes it as the proof of "a
\* silent run").
SilentReportIsSilent == quiet = "PASS" => ~heard
=============================================================================
