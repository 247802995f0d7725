---------------------------- MODULE TaskRollback ----------------------------
(***************************************************************************)
(* The isolated worktree of an engineering task and its rollback           *)
(* (isolation/): WorktreeManager with its metadata record and its per-task *)
(* lock, CheckpointManager, TransactionalRollbackService.restore and the   *)
(* owner's one-time operations of OwnerRollbackService.  The code agent    *)
(* that executes the task shares the worktree.                             *)
(*                                                                         *)
(* The content of a worktree is a value; Partial is a worktree between the *)
(* reset and the end of a restore.  Everything but the calls survives the  *)
(* death of a process; a lock does not (flock).                            *)
(***************************************************************************)
EXTENDS Naturals, Sequences, TLC

CONSTANTS
  Ops,             \* rollback operations the owner reviews
  Keys,            \* idempotency keys
  Callers,         \* threads that execute an operation or a CLI rollback
  Contents,        \* contents of the worktree
  Baseline,        \* the content at the starting commit
  MaxCheckpoints,  \* CheckpointManager.max_checkpoints
  Agent,           \* the code agent's process, as a holder of the lock
  Agents,          \* TRUE when the agent executes the task too
  None,
  Partial

ASSUME RollbackAssumption ==
  /\ Baseline \in Contents /\ MaxCheckpoints \in Nat /\ Agents \in BOOLEAN
  /\ Agent \notin Callers /\ None \notin Callers \cup Ops \cup Keys \cup Contents \cup {Agent}
  /\ Partial \notin Contents \cup {None}

VARIABLES
  meta,    \* the persisted WorktreeIdentity.state
  tree,    \* the content of the worktree, None when there is none
  lock,    \* task_lock
  saved,   \* the checkpoints, in the order they were made
  task,    \* the status in TaskHistory: approved, executing, terminal
  ops,     \* the rows of rollback_operations
  events,  \* restore events of the timeline that carry an operation
  call,    \* per caller: where restore or execute stands
  agent,   \* where the code agent stands
  begun,   \* history: how often the restore of an operation began
  reached  \* history: operations whose target was reached

vars == <<meta, tree, lock, saved, task, ops, events, call, agent, begun, reached>>
worktree == <<meta, tree, lock, saved>>
ledger == <<ops, events>>
history == <<begun, reached>>

Results == {"restored", "failed_recovered", "recovery_required"}
OpState(result) == IF result = "restored" THEN "succeeded" ELSE result
Settled == {"succeeded", "failed_recovered", "recovery_required"}
Active == {"executing", "rollback_in_progress", "recovery_required"}
Metas == {"none", "creating", "ready", "promotion_ready", "cleaned"} \cup Active
Checkpoint == [label : {"baseline", "owner", "safety"}, content : Contents \cup {Partial}]

Op == [state : {"none", "reviewed", "executing", "expired", "stale"} \cup Settled,
       target : 0..MaxCheckpoints, fingerprint : Contents \cup {Partial, None},
       key : Keys \cup {None}]
Call == [pc : {"idle", "consume", "enter", "lock", "safety", "mark", "begin", "restoring",
               "compensate", "restored", "recovered", "double", "doubled", "settle", "finish"},
         op : Ops \cup {None}, key : Keys \cup {None}, target : 0..MaxCheckpoints,
         safety : 0..MaxCheckpoints, original : Metas, result : Results \cup {None}]

IdleCall == [pc |-> "idle", op |-> None, key |-> None, target |-> 0, safety |-> 0,
             original |-> "none", result |-> None]

TypeOK ==
  /\ meta \in Metas
  /\ tree \in Contents \cup {Partial, None}
  /\ lock \in Callers \cup {Agent, None}
  /\ saved \in Seq(Checkpoint) /\ Len(saved) <= MaxCheckpoints
  /\ task \in {"approved", "executing", "terminal"}
  /\ ops \in [Ops -> Op]
  /\ events \subseteq [op : Ops, result : Results]
  /\ call \in [Callers -> Call]
  /\ agent \in {"idle", "creating", "created", "marked", "running"}
  /\ begun \in [Ops -> 0..2] /\ reached \subseteq Ops

Init ==
  /\ meta = "none" /\ tree = None /\ lock = None /\ saved = <<>>
  /\ task = "approved"
  /\ ops = [o \in Ops |-> [state |-> "none", target |-> 0, fingerprint |-> None, key |-> None]]
  /\ events = {}
  /\ call = [c \in Callers |-> IdleCall]
  /\ agent = "idle"
  /\ begun = [o \in Ops |-> 0] /\ reached = {}

Goto(c, pc) == call' = [call EXCEPT ![c].pc = pc]
Return(c) == call' = [call EXCEPT ![c] = IdleCall]
Unlock(c) == lock' = IF lock = c THEN None ELSE lock
Free == lock = None

-----------------------------------------------------------------------------
(* OwnerRollbackService: review, and execute up to the kernel.             *)

Eligible(i) ==
  /\ i \in DOMAIN saved
  /\ meta = "ready" /\ task # "terminal"

Review(o, i) ==
  /\ ops[o].state = "none" /\ Eligible(i)
  /\ ops' = [ops EXCEPT ![o] = [state |-> "reviewed", target |-> i,
                                fingerprint |-> tree, key |-> None]]
  /\ UNCHANGED <<worktree, task, events, call, agent, history>>

(* _mark                                                                   *)
Mark(o, state) == ops' = [ops EXCEPT ![o].state = IF @ = "reviewed" THEN state ELSE @]

ExecuteRefuses(c, o) ==
  /\ call[c].pc = "idle" /\ ops[o].state = "reviewed"
  /\ \/ Mark(o, "expired")     \* its time is over
     \/ /\ ~Eligible(ops[o].target) \/ tree # ops[o].fingerprint
        /\ Mark(o, "stale")
  /\ UNCHANGED <<worktree, task, events, call, agent, history>>

Execute(c, o, k) ==
  /\ call[c].pc = "idle" /\ ops[o].state = "reviewed"
  /\ Eligible(ops[o].target) /\ tree = ops[o].fingerprint
  /\ call' = [call EXCEPT ![c] = [IdleCall EXCEPT !.pc = "consume", !.op = o, !.key = k,
                                                  !.target = ops[o].target]]
  /\ UNCHANGED <<worktree, task, ledger, agent, history>>

\* Faulty: the update does not look at the state it found.
ConsumeAnyway(c) ==
  LET o == call[c].op IN
  /\ call[c].pc = "consume"
  /\ ops' = [ops EXCEPT ![o].state = "executing", ![o].key = call[c].key]
  /\ Goto(c, "enter")
  /\ UNCHANGED <<worktree, task, events, agent, history>>

Consume(c) ==
  LET o == call[c].op IN
  /\ call[c].pc = "consume"
  /\ IF ops[o].state = "reviewed"
     THEN /\ ops' = [ops EXCEPT ![o].state = "executing", ![o].key = call[c].key]
          /\ Goto(c, "enter")
     ELSE Return(c) /\ UNCHANGED ops
  /\ UNCHANGED <<worktree, task, events, agent, history>>

(* _recover_result: the same key asks again                                *)
RecoverResult(o, k) ==
  /\ ops[o].state = "executing" /\ ops[o].key = k
  /\ \E e \in events : e.op = o /\ ops' = [ops EXCEPT ![o].state = OpState(e.result)]
  /\ UNCHANGED <<worktree, task, events, call, agent, history>>

Finish(c) ==
  LET o == call[c].op IN
  /\ call[c].pc = "finish"
  /\ IF o # None
     THEN ops' = [ops EXCEPT ![o].state = IF @ = "executing" THEN OpState(call[c].result) ELSE @]
     ELSE UNCHANGED ops
  /\ Return(c)
  /\ UNCHANGED <<worktree, task, events, agent, history>>

-----------------------------------------------------------------------------
(* TransactionalRollbackService.restore                                    *)

(* The CLI calls it with any checkpoint and no reviewed state.             *)
CliRollback(c, i) ==
  /\ call[c].pc = "idle" /\ i \in DOMAIN saved
  /\ call' = [call EXCEPT ![c] = [IdleCall EXCEPT !.pc = "enter", !.target = i]]
  /\ UNCHANGED <<worktree, task, ledger, agent, history>>

(* before the lock: the worktree loads, the task is neither active nor over *)
Enter(c) ==
  /\ call[c].pc = "enter"
  /\ IF tree # None /\ task = "approved" THEN Goto(c, "lock") ELSE Return(c)
  /\ UNCHANGED <<worktree, task, ledger, agent, history>>

\* Faulty: does not look at the lifecycle again.
TakeLockUnchecked(c) ==
  /\ call[c].pc = "lock"
  /\ IF Free /\ tree # None /\ (call[c].op = None \/ tree = ops[call[c].op].fingerprint)
     THEN lock' = c /\ Goto(c, "safety")
     ELSE Return(c) /\ UNCHANGED lock
  /\ UNCHANGED <<meta, tree, saved, task, ledger, agent, history>>

TakeLock(c) ==
  /\ call[c].pc = "lock"
  /\ IF /\ Free
        /\ meta \in {"ready", "recovery_required"}
        /\ call[c].op # None => tree = ops[call[c].op].fingerprint
     THEN lock' = c /\ Goto(c, "safety")
     ELSE Return(c) /\ UNCHANGED lock
  /\ UNCHANGED <<meta, tree, saved, task, ledger, agent, history>>

\* Faulty: the target serves as the safety checkpoint.
MakeNoSafety(c) ==
  /\ call[c].pc = "safety"
  /\ call' = [call EXCEPT ![c].pc = "mark", ![c].safety = call[c].target]
  /\ UNCHANGED <<worktree, task, ledger, agent, history>>

MakeSafety(c) ==
  /\ call[c].pc = "safety" /\ Len(saved) < MaxCheckpoints
  /\ saved' = Append(saved, [label |-> "safety", content |-> tree])
  /\ call' = [call EXCEPT ![c].pc = "mark", ![c].safety = Len(saved) + 1]
  /\ UNCHANGED <<meta, tree, lock, task, ledger, agent, history>>

MarkInProgress(c) ==
  /\ call[c].pc = "mark"
  /\ meta' = "rollback_in_progress"
  /\ call' = [call EXCEPT ![c].pc = "begin", ![c].original = meta]
  /\ UNCHANGED <<tree, lock, saved, task, ledger, agent, history>>

(* git reset --hard and git clean of the target's restore                  *)
BeginRestore(c) ==
  /\ call[c].pc = "begin"
  /\ tree' = Partial
  /\ Goto(c, "restoring")
  /\ begun' = [o \in Ops |-> IF o = call[c].op THEN begun[o] + 1 ELSE begun[o]]
  /\ UNCHANGED <<meta, lock, saved, task, ledger, agent, reached>>

RestoreTarget(c) ==
  /\ call[c].pc = "restoring"
  /\ \/ /\ tree' = saved[call[c].target].content   \* restored and verified
        /\ Goto(c, "restored")
        /\ reached' = reached \cup (Ops \cap {call[c].op})
     \/ /\ Goto(c, "compensate")
        /\ UNCHANGED <<tree, reached>>
  /\ UNCHANGED <<meta, lock, saved, task, ledger, agent, begun>>

Compensate(c) ==
  /\ call[c].pc = "compensate"
  /\ \/ tree' = saved[call[c].safety].content /\ Goto(c, "recovered")
     \/ Goto(c, "double") /\ UNCHANGED tree
  /\ UNCHANGED <<meta, lock, saved, task, ledger, agent, history>>

Record(c, result) ==
  events' = events \cup {[op |-> o, result |-> result] : o \in Ops \cap {call[c].op}}

RecordOutcome(c) ==
  /\ \/ /\ call[c].pc = "restored"
        /\ Record(c, "restored")
        /\ call' = [call EXCEPT ![c].pc = "settle", ![c].result = "restored"]
     \/ /\ call[c].pc = "recovered"
        /\ Record(c, "failed_recovered")
        /\ call' = [call EXCEPT ![c].pc = "settle", ![c].result = "failed_recovered"]
  /\ UNCHANGED <<worktree, task, ops, agent, history>>

Settle(c) ==
  /\ call[c].pc = "settle"
  /\ meta' = call[c].original
  /\ Unlock(c)
  /\ Goto(c, "finish")
  /\ UNCHANGED <<tree, saved, task, ledger, agent, history>>

RequireRecovery(c) ==
  /\ call[c].pc = "double"
  /\ meta' = "recovery_required"
  /\ Goto(c, "doubled")
  /\ UNCHANGED <<tree, lock, saved, task, ledger, agent, history>>

RecordDouble(c) ==
  /\ call[c].pc = "doubled"
  /\ Record(c, "recovery_required")
  /\ Unlock(c)
  /\ call' = [call EXCEPT ![c].pc = "finish", ![c].result = "recovery_required"]
  /\ UNCHANGED <<meta, tree, saved, task, ops, agent, history>>

(* Any step may raise, and the process may die: the lock is released.      *)
CallDies(c) ==
  /\ call[c].pc # "idle"
  /\ Unlock(c)
  /\ Return(c)
  /\ UNCHANGED <<meta, tree, saved, task, ledger, agent, history>>

-----------------------------------------------------------------------------
(* WorktreeManager and the checkpoint command, by the CLI and the agent.   *)

Creatable == Free /\ task = "approved" /\ meta \in {"none", "cleaned"} /\ tree = None

CliCreate ==
  /\ Creatable
  /\ meta' = "ready" /\ tree' = Baseline
  /\ UNCHANGED <<lock, saved, task, ledger, call, agent, history>>

CliCheckpoint ==
  /\ Free /\ meta = "ready" /\ Len(saved) < MaxCheckpoints
  /\ saved' = Append(saved, [label |-> "owner", content |-> tree])
  /\ UNCHANGED <<meta, tree, lock, task, ledger, call, agent, history>>

CliCleanup ==
  /\ Free /\ tree # None /\ meta \notin Active
  /\ meta' = "cleaned" /\ tree' = None
  /\ UNCHANGED <<lock, saved, task, ledger, call, agent, history>>

(* The owner edits files by hand while nothing works on the worktree.      *)
OwnerEdits(content) ==
  /\ Free /\ meta = "ready" /\ tree # content
  /\ tree' = content
  /\ UNCHANGED <<meta, lock, saved, task, ledger, call, agent, history>>

AgentCreates ==
  /\ Agents /\ agent = "idle" /\ Creatable
  /\ lock' = Agent /\ meta' = "creating" /\ agent' = "creating"
  /\ UNCHANGED <<tree, saved, task, ledger, call, history>>

AgentCreated ==
  /\ agent = "creating"
  /\ lock' = None /\ meta' = "ready" /\ tree' = Baseline /\ agent' = "created"
  /\ UNCHANGED <<saved, task, ledger, call, history>>

(* transition(identity, EXECUTING): with the identity create returned      *)
AgentMarks ==
  /\ agent = "created" /\ Free /\ tree # None
  /\ meta' = "executing" /\ agent' = "marked"
  /\ UNCHANGED <<tree, lock, saved, task, ledger, call, history>>

AgentRuns ==
  /\ agent = "marked"
  /\ IF \E i \in DOMAIN saved : saved[i].label = "baseline"
     THEN UNCHANGED saved
     ELSE /\ Len(saved) < MaxCheckpoints
          /\ saved' = Append(saved, [label |-> "baseline", content |-> tree])
  /\ task' = "executing" /\ agent' = "running"
  /\ UNCHANGED <<meta, tree, lock, ledger, call, history>>

AgentEdits(content) ==
  /\ agent = "running" /\ tree # content
  /\ tree' = content
  /\ UNCHANGED <<meta, lock, saved, task, ledger, call, agent, history>>

(* Setup fails, after the checkpoint too: cleanup, if the lock is free.    *)
AgentGivesUp ==
  /\ agent \in {"created", "marked"}
  /\ agent' = "idle"
  /\ \/ /\ agent = "marked" /\ Len(saved) < MaxCheckpoints
        /\ \A i \in DOMAIN saved : saved[i].label # "baseline"
        /\ saved' = Append(saved, [label |-> "baseline", content |-> tree])
     \/ UNCHANGED saved
  /\ IF Free /\ tree # None
     THEN meta' = "cleaned" /\ tree' = None
     ELSE UNCHANGED <<meta, tree>>
  /\ UNCHANGED <<lock, task, ledger, call, history>>

AgentEnds ==
  /\ agent = "running" /\ Free
  /\ task' = "terminal" /\ agent' = "idle"
  /\ \/ meta' = "promotion_ready" /\ UNCHANGED tree
     \/ meta' = "cleaned" /\ tree' = None
  /\ UNCHANGED <<lock, saved, ledger, call, history>>

AgentDies ==
  /\ agent # "idle"
  /\ agent' = "idle" /\ Unlock(Agent)
  /\ UNCHANGED <<meta, tree, saved, task, ledger, call, history>>

-----------------------------------------------------------------------------
OwnerStep ==
  \/ \E o \in Ops, i \in DOMAIN saved : Review(o, i)
  \/ \E o \in Ops, c \in Callers : ExecuteRefuses(c, o)
  \/ \E o \in Ops, c \in Callers, k \in Keys : Execute(c, o, k)
  \/ \E o \in Ops, k \in Keys : RecoverResult(o, k)

RestoreStep(c) ==
  \/ Consume(c) \/ Enter(c) \/ TakeLock(c) \/ MakeSafety(c) \/ MarkInProgress(c)
  \/ BeginRestore(c) \/ RestoreTarget(c) \/ Compensate(c) \/ RecordOutcome(c)
  \/ Settle(c) \/ RequireRecovery(c) \/ RecordDouble(c) \/ Finish(c) \/ CallDies(c)

AgentStep ==
  \/ AgentCreates \/ AgentCreated \/ AgentMarks \/ AgentRuns
  \/ \E content \in Contents : AgentEdits(content)
  \/ AgentGivesUp \/ AgentEnds \/ AgentDies

CliStep ==
  \/ CliCreate \/ CliCheckpoint \/ CliCleanup
  \/ \E c \in Callers, i \in DOMAIN saved : CliRollback(c, i)
  \/ \E content \in Contents : OwnerEdits(content)

Next == OwnerStep \/ AgentStep \/ CliStep \/ \E c \in Callers : RestoreStep(c)

Spec == Init /\ [][Next]_vars

-----------------------------------------------------------------------------
\* ADR 0029: the content a restore is about to destroy is in a checkpoint,
\* whoever wrote to the worktree between the review and the restore.
NoContentIsLost ==
  [][tree' = Partial => \/ tree = Partial
                        \/ \E i \in DOMAIN saved : saved[i].content = tree]_vars

\* ADR 0030: a consumed, stale, expired or interrupted operation cannot
\* perform a second restore, under any key, from any thread.
OneRestorePerReview == \A o \in Ops : begun[o] <= 1

\* ADR 0030: the restore of a review replaces the state that was reviewed.
OnlyReviewedStateIsReplaced ==
  [][\A o \in Ops : begun'[o] # begun[o] => tree = ops[o].fingerprint]_vars

\* The docstring of TransactionalRollbackService: execution, which edits
\* without the lock, and restore never have the worktree together.
AgentAndRestoreExclude ==
  agent = "running" =>
    \A c \in Callers : call[c].pc \notin {"begin", "restoring", "compensate", "restored"}

\* ADR 0030: what an operation is answered with, first or after a crash, is
\* what happened, and never changes.
AnswersAreTrue ==
  \A o \in Ops : /\ ops[o].state = "succeeded" => o \in reached
                 /\ ops[o].state \in {"failed_recovered", "recovery_required"} => o \notin reached
                 /\ ops[o].state \in {"expired", "stale"} => begun[o] = 0

(* For model checking: threads and idempotency keys are interchangeable.    *)
Symmetric == Permutations(Callers) \cup Permutations(Keys)
=============================================================================
