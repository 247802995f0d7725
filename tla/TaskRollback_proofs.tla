--------------------------- MODULE TaskRollback_proofs ---------------------------
(***************************************************************************)
(* What holds of a task's worktree and its rollback for every number of     *)
(* reviews, keys, callers and checkpoints.                                  *)
(***************************************************************************)
EXTENDS TaskRollback, SequenceTheorems, TLAPS

-----------------------------------------------------------------------------
(* The records have their fields, and a call restores checkpoints that exist. *)

Snapshot == [label : {"baseline", "owner", "safety"}, content : Contents \cup {Partial, None}]

CallShape(q) == DOMAIN q = {"pc", "op", "key", "target", "safety", "original", "result"}
OpShape(o)   == DOMAIN o = {"state", "target", "fingerprint", "key"}

Shape ==
  /\ DOMAIN call = Callers /\ \A c \in Callers : CallShape(call[c])
  /\ DOMAIN ops = Ops /\ \A o \in Ops : OpShape(ops[o])
  /\ DOMAIN begun = Ops

LEMMA ShapeStep == Shape /\ [Next]_vars => Shape'
<1> SUFFICES ASSUME Shape, [Next]_vars PROVE Shape'
  OBVIOUS
<1> USE DEF Shape, CallShape, OpShape
<1>1. CASE UNCHANGED vars
  BY <1>1 DEF vars, worktree, ledger, history
<1>2. ASSUME NEW o \in Ops, NEW i \in DOMAIN saved, Review(o, i) PROVE Shape'
  BY <1>2 DEF Review, Eligible, worktree, ledger, history
<1>3. ASSUME NEW o \in Ops, NEW c \in Callers, ExecuteRefuses(c, o) PROVE Shape'
  BY <1>3 DEF ExecuteRefuses, Mark, worktree, ledger, history
<1>4. ASSUME NEW o \in Ops, NEW c \in Callers, NEW k \in Keys, Execute(c, o, k) PROVE Shape'
  BY <1>4 DEF Execute, Eligible, IdleCall, worktree, ledger, history
<1>5. ASSUME NEW o \in Ops, NEW k \in Keys, RecoverResult(o, k) PROVE Shape'
  BY <1>5 DEF RecoverResult, OpState, worktree, ledger, history
<1>6. ASSUME NEW c \in Callers, Consume(c) PROVE Shape'
  BY <1>6 DEF Consume, Goto, Return, IdleCall, worktree, ledger, history
<1>7. ASSUME NEW c \in Callers, Enter(c) PROVE Shape'
  BY <1>7 DEF Enter, Goto, Return, IdleCall, worktree, ledger, history
<1>8. ASSUME NEW c \in Callers, TakeLock(c) PROVE Shape'
  BY <1>8 DEF TakeLock, Goto, Return, IdleCall, Free, worktree, ledger, history
<1>9. ASSUME NEW c \in Callers, MakeSafety(c) PROVE Shape'
  BY <1>9 DEF MakeSafety, worktree, ledger, history
<1>10. ASSUME NEW c \in Callers, MarkInProgress(c) PROVE Shape'
  BY <1>10 DEF MarkInProgress, worktree, ledger, history
<1>11. ASSUME NEW c \in Callers, BeginRestore(c) PROVE Shape'
  BY <1>11 DEF BeginRestore, Goto, worktree, ledger, history
<1>12. ASSUME NEW c \in Callers, RestoreTarget(c) PROVE Shape'
  BY <1>12 DEF RestoreTarget, Goto, worktree, ledger, history
<1>13. ASSUME NEW c \in Callers, Compensate(c) PROVE Shape'
  BY <1>13 DEF Compensate, Goto, worktree, ledger, history
<1>14. ASSUME NEW c \in Callers, RecordOutcome(c) PROVE Shape'
  BY <1>14 DEF RecordOutcome, Record, worktree, ledger, history
<1>15. ASSUME NEW c \in Callers, Settle(c) PROVE Shape'
  BY <1>15 DEF Settle, Goto, Unlock, worktree, ledger, history
<1>16. ASSUME NEW c \in Callers, RequireRecovery(c) PROVE Shape'
  BY <1>16 DEF RequireRecovery, Goto, worktree, ledger, history
<1>17. ASSUME NEW c \in Callers, RecordDouble(c) PROVE Shape'
  BY <1>17 DEF RecordDouble, Record, Unlock, worktree, ledger, history
<1>18. ASSUME NEW c \in Callers, Finish(c) PROVE Shape'
  BY <1>18 DEF Finish, Return, IdleCall, OpState, worktree, ledger, history
<1>19. ASSUME NEW c \in Callers, CallDies(c) PROVE Shape'
  BY <1>19 DEF CallDies, Unlock, Return, IdleCall, worktree, ledger, history
<1>20. ASSUME AgentCreates PROVE Shape'
  BY <1>20 DEF AgentCreates, Creatable, Free, worktree, ledger, history
<1>21. ASSUME AgentCreated PROVE Shape'
  BY <1>21 DEF AgentCreated, worktree, ledger, history
<1>22. ASSUME AgentMarks PROVE Shape'
  BY <1>22 DEF AgentMarks, Free, worktree, ledger, history
<1>23. ASSUME AgentRuns PROVE Shape'
  BY <1>23 DEF AgentRuns, worktree, ledger, history
<1>24. ASSUME NEW content \in Contents, AgentEdits(content) PROVE Shape'
  BY <1>24 DEF AgentEdits, worktree, ledger, history
<1>25. ASSUME AgentGivesUp PROVE Shape'
  BY <1>25 DEF AgentGivesUp, Free, worktree, ledger, history
<1>26. ASSUME AgentEnds PROVE Shape'
  BY <1>26 DEF AgentEnds, Free, worktree, ledger, history
<1>27. ASSUME AgentDies PROVE Shape'
  BY <1>27 DEF AgentDies, Unlock, worktree, ledger, history
<1>28. ASSUME CliCreate PROVE Shape'
  BY <1>28 DEF CliCreate, Creatable, Free, worktree, ledger, history
<1>29. ASSUME CliCheckpoint PROVE Shape'
  BY <1>29 DEF CliCheckpoint, Free, worktree, ledger, history
<1>30. ASSUME CliCleanup PROVE Shape'
  BY <1>30 DEF CliCleanup, Free, Active, worktree, ledger, history
<1>31. ASSUME NEW c \in Callers, NEW i \in DOMAIN saved, CliRollback(c, i) PROVE Shape'
  BY <1>31 DEF CliRollback, IdleCall, worktree, ledger, history
<1>32. ASSUME NEW content \in Contents, OwnerEdits(content) PROVE Shape'
  BY <1>32 DEF OwnerEdits, Free, worktree, ledger, history
<1> QED BY <1>1, <1>2, <1>3, <1>4, <1>5, <1>6, <1>7, <1>8, <1>9, <1>10, <1>11, <1>12, <1>13, 
           <1>14, <1>15, <1>16, <1>17, <1>18, <1>19, <1>20, <1>21, <1>22, <1>23, <1>24, 
           <1>25, <1>26, <1>27, <1>28, <1>29, <1>30, <1>31, <1>32
        DEF Next, OwnerStep, RestoreStep, AgentStep, CliStep

-----------------------------------------------------------------------------
(* The lock: a restore has it from the check of the lifecycle to its settlement, *)
(* and the agent that marked the task as executing keeps every restore from it.  *)

Locked == {"safety", "mark", "begin", "restoring", "compensate", "restored", "recovered",
           "double", "doubled", "settle"}

LockHolds ==
  /\ \A c \in Callers : call[c].pc \in Locked => lock = c
  /\ agent = "creating" => lock = Agent
  /\ agent \in {"marked", "running"} => meta = "executing" /\ lock \notin Callers

LEMMA LockStep == Shape /\ LockHolds /\ [Next]_vars => LockHolds'
<1> SUFFICES ASSUME Shape, LockHolds, [Next]_vars PROVE LockHolds'
  OBVIOUS
<1> USE RollbackAssumption DEF Shape, CallShape, OpShape, LockHolds, Locked
<1>1. CASE UNCHANGED vars
  BY <1>1 DEF vars, worktree, ledger, history
<1>2. ASSUME NEW o \in Ops, NEW i \in DOMAIN saved, Review(o, i) PROVE LockHolds'
  BY <1>2 DEF Review, Eligible, worktree, ledger, history
<1>3. ASSUME NEW o \in Ops, NEW c \in Callers, ExecuteRefuses(c, o) PROVE LockHolds'
  BY <1>3 DEF ExecuteRefuses, Mark, worktree, ledger, history
<1>4. ASSUME NEW o \in Ops, NEW c \in Callers, NEW k \in Keys, Execute(c, o, k) PROVE LockHolds'
  BY <1>4 DEF Execute, Eligible, IdleCall, worktree, ledger, history
<1>5. ASSUME NEW o \in Ops, NEW k \in Keys, RecoverResult(o, k) PROVE LockHolds'
  BY <1>5 DEF RecoverResult, OpState, worktree, ledger, history
<1>6. ASSUME NEW c \in Callers, Consume(c) PROVE LockHolds'
  BY <1>6 DEF Consume, Goto, Return, IdleCall, worktree, ledger, history
<1>7. ASSUME NEW c \in Callers, Enter(c) PROVE LockHolds'
  BY <1>7 DEF Enter, Goto, Return, IdleCall, worktree, ledger, history
<1>8. ASSUME NEW c \in Callers, TakeLock(c) PROVE LockHolds'
  BY <1>8 DEF TakeLock, Goto, Return, IdleCall, Free, worktree, ledger, history
<1>9. ASSUME NEW c \in Callers, MakeSafety(c) PROVE LockHolds'
  BY <1>9 DEF MakeSafety, worktree, ledger, history
<1>10. ASSUME NEW c \in Callers, MarkInProgress(c) PROVE LockHolds'
  BY <1>10 DEF MarkInProgress, worktree, ledger, history
<1>11. ASSUME NEW c \in Callers, BeginRestore(c) PROVE LockHolds'
  BY <1>11 DEF BeginRestore, Goto, worktree, ledger, history
<1>12. ASSUME NEW c \in Callers, RestoreTarget(c) PROVE LockHolds'
  BY <1>12 DEF RestoreTarget, Goto, worktree, ledger, history
<1>13. ASSUME NEW c \in Callers, Compensate(c) PROVE LockHolds'
  BY <1>13 DEF Compensate, Goto, worktree, ledger, history
<1>14. ASSUME NEW c \in Callers, RecordOutcome(c) PROVE LockHolds'
  BY <1>14 DEF RecordOutcome, Record, worktree, ledger, history
<1>15. ASSUME NEW c \in Callers, Settle(c) PROVE LockHolds'
  BY <1>15 DEF Settle, Goto, Unlock, worktree, ledger, history
<1>16. ASSUME NEW c \in Callers, RequireRecovery(c) PROVE LockHolds'
  BY <1>16 DEF RequireRecovery, Goto, worktree, ledger, history
<1>17. ASSUME NEW c \in Callers, RecordDouble(c) PROVE LockHolds'
  BY <1>17 DEF RecordDouble, Record, Unlock, worktree, ledger, history
<1>18. ASSUME NEW c \in Callers, Finish(c) PROVE LockHolds'
  BY <1>18 DEF Finish, Return, IdleCall, OpState, worktree, ledger, history
<1>19. ASSUME NEW c \in Callers, CallDies(c) PROVE LockHolds'
  BY <1>19 DEF CallDies, Unlock, Return, IdleCall, worktree, ledger, history
<1>20. ASSUME AgentCreates PROVE LockHolds'
  BY <1>20 DEF AgentCreates, Creatable, Free, worktree, ledger, history
<1>21. ASSUME AgentCreated PROVE LockHolds'
  BY <1>21 DEF AgentCreated, worktree, ledger, history
<1>22. ASSUME AgentMarks PROVE LockHolds'
  BY <1>22 DEF AgentMarks, Free, worktree, ledger, history
<1>23. ASSUME AgentRuns PROVE LockHolds'
  BY <1>23 DEF AgentRuns, worktree, ledger, history
<1>24. ASSUME NEW content \in Contents, AgentEdits(content) PROVE LockHolds'
  BY <1>24 DEF AgentEdits, worktree, ledger, history
<1>25. ASSUME AgentGivesUp PROVE LockHolds'
  BY <1>25 DEF AgentGivesUp, Free, worktree, ledger, history
<1>26. ASSUME AgentEnds PROVE LockHolds'
  BY <1>26 DEF AgentEnds, Free, worktree, ledger, history
<1>27. ASSUME AgentDies PROVE LockHolds'
  BY <1>27 DEF AgentDies, Unlock, worktree, ledger, history
<1>28. ASSUME CliCreate PROVE LockHolds'
  BY <1>28 DEF CliCreate, Creatable, Free, worktree, ledger, history
<1>29. ASSUME CliCheckpoint PROVE LockHolds'
  BY <1>29 DEF CliCheckpoint, Free, worktree, ledger, history
<1>30. ASSUME CliCleanup PROVE LockHolds'
  BY <1>30 DEF CliCleanup, Free, Active, worktree, ledger, history
<1>31. ASSUME NEW c \in Callers, NEW i \in DOMAIN saved, CliRollback(c, i) PROVE LockHolds'
  BY <1>31 DEF CliRollback, IdleCall, worktree, ledger, history
<1>32. ASSUME NEW content \in Contents, OwnerEdits(content) PROVE LockHolds'
  BY <1>32 DEF OwnerEdits, Free, worktree, ledger, history
<1> QED BY <1>1, <1>2, <1>3, <1>4, <1>5, <1>6, <1>7, <1>8, <1>9, <1>10, <1>11, <1>12, <1>13, 
           <1>14, <1>15, <1>16, <1>17, <1>18, <1>19, <1>20, <1>21, <1>22, <1>23, <1>24, 
           <1>25, <1>26, <1>27, <1>28, <1>29, <1>30, <1>31, <1>32
        DEF Next, OwnerStep, RestoreStep, AgentStep, CliStep

\* Execution, which edits the worktree without the lock, and a restore never have it together
\* (isolation/rollback.py TransactionalRollbackService against agent/code_agent.py).
THEOREM ExecutionAndRestoreExclude == Spec => []AgentAndRestoreExclude
<1>1. Init => Shape /\ LockHolds
  BY DEF Init, Shape, CallShape, OpShape, LockHolds, Locked, IdleCall
<1>2. LockHolds => AgentAndRestoreExclude
  BY RollbackAssumption DEF LockHolds, Locked, AgentAndRestoreExclude
<1> QED BY <1>1, <1>2, ShapeStep, LockStep, PTL DEF Spec

-----------------------------------------------------------------------------
(* One review, one restore.                                                 *)

\* The call has consumed its review and has not ended; Before: its restore has not begun.
Before == {"enter", "lock", "safety", "mark", "begin"}
Past   == Before \cup Locked \cup {"finish"}

ReviewHolds ==
  /\ \A e \in events : e.result \in Results
  /\ \A c \in Callers : call[c].pc \in {"settle", "finish"} => call[c].result \in Results
  /\ \A c \in Callers : call[c].pc = "consume" => call[c].op \in Ops
  /\ \A o \in Ops : begun[o] \in {0, 1}
  /\ \A o \in Ops : ops[o].state \in {"none", "reviewed"} =>
       begun[o] = 0 /\ \A c \in Callers : ~(call[c].op = o /\ call[c].pc \in Past)
  /\ \A o \in Ops, c \in Callers : call[c].op = o /\ call[c].pc \in Before => begun[o] = 0
  /\ \A o \in Ops, c, d \in Callers : 
       (/\ call[c].op = o /\ call[c].pc \in Past
        /\ call[d].op = o /\ call[d].pc \in Past) => c = d

LEMMA ReviewStep == Shape /\ ReviewHolds /\ [Next]_vars => ReviewHolds'
<1> SUFFICES ASSUME Shape, ReviewHolds, [Next]_vars PROVE ReviewHolds'
  OBVIOUS
<1> USE RollbackAssumption DEF Shape, CallShape, OpShape, ReviewHolds, Results, Past, Before, Locked
<1>1. CASE UNCHANGED vars
  BY <1>1 DEF vars, worktree, ledger, history
<1>2. ASSUME NEW o \in Ops, NEW i \in DOMAIN saved, Review(o, i) PROVE ReviewHolds'
  BY <1>2 DEF Review, Eligible, worktree, ledger, history
<1>3. ASSUME NEW o \in Ops, NEW c \in Callers, ExecuteRefuses(c, o) PROVE ReviewHolds'
  BY <1>3 DEF ExecuteRefuses, Mark, worktree, ledger, history
<1>4. ASSUME NEW o \in Ops, NEW c \in Callers, NEW k \in Keys, Execute(c, o, k) PROVE ReviewHolds'
  BY <1>4 DEF Execute, Eligible, IdleCall, worktree, ledger, history
<1>5. ASSUME NEW o \in Ops, NEW k \in Keys, RecoverResult(o, k) PROVE ReviewHolds'
  <2>1. PICK e \in events : e.op = o /\ ops' = [ops EXCEPT ![o].state = OpState(e.result)]
    BY <1>5 DEF RecoverResult
  <2>2. OpState(e.result) \notin {"none", "reviewed"}
    BY DEF OpState
  <2>3. UNCHANGED <<events, call, begun>> 
    BY <1>5 DEF RecoverResult, history
  <2> QED BY <2>1, <2>2, <2>3
<1>6. ASSUME NEW c \in Callers, Consume(c) PROVE ReviewHolds'
  BY <1>6 DEF Consume, Goto, Return, IdleCall, worktree, ledger, history
<1>7. ASSUME NEW c \in Callers, Enter(c) PROVE ReviewHolds'
  BY <1>7 DEF Enter, Goto, Return, IdleCall, worktree, ledger, history
<1>8. ASSUME NEW c \in Callers, TakeLock(c) PROVE ReviewHolds'
  BY <1>8 DEF TakeLock, Goto, Return, IdleCall, Free, worktree, ledger, history
<1>9. ASSUME NEW c \in Callers, MakeSafety(c) PROVE ReviewHolds'
  BY <1>9 DEF MakeSafety, worktree, ledger, history
<1>10. ASSUME NEW c \in Callers, MarkInProgress(c) PROVE ReviewHolds'
  BY <1>10 DEF MarkInProgress, worktree, ledger, history
<1>11. ASSUME NEW c \in Callers, BeginRestore(c) PROVE ReviewHolds'
  BY <1>11 DEF BeginRestore, Goto, worktree, ledger, history
<1>12. ASSUME NEW c \in Callers, RestoreTarget(c) PROVE ReviewHolds'
  BY <1>12 DEF RestoreTarget, Goto, worktree, ledger, history
<1>13. ASSUME NEW c \in Callers, Compensate(c) PROVE ReviewHolds'
  BY <1>13 DEF Compensate, Goto, worktree, ledger, history
<1>14. ASSUME NEW c \in Callers, RecordOutcome(c) PROVE ReviewHolds'
  BY <1>14 DEF RecordOutcome, Record, worktree, ledger, history
<1>15. ASSUME NEW c \in Callers, Settle(c) PROVE ReviewHolds'
  BY <1>15 DEF Settle, Goto, Unlock, worktree, ledger, history
<1>16. ASSUME NEW c \in Callers, RequireRecovery(c) PROVE ReviewHolds'
  BY <1>16 DEF RequireRecovery, Goto, worktree, ledger, history
<1>17. ASSUME NEW c \in Callers, RecordDouble(c) PROVE ReviewHolds'
  BY <1>17 DEF RecordDouble, Record, Unlock, worktree, ledger, history
<1>18. ASSUME NEW c \in Callers, Finish(c) PROVE ReviewHolds'
  <2>1. OpState(call[c].result) \notin {"none", "reviewed"}
    BY <1>18 DEF Finish, OpState
  <2>2. ops' = ops \/ ops' = [ops EXCEPT ![call[c].op].state =
                                IF @ = "executing" THEN OpState(call[c].result) ELSE @]
    BY <1>18 DEF Finish
  <2>3. \A o \in Ops : /\ OpShape(ops'[o]) 
                       /\ ops'[o].state \in {"none", "reviewed"} => ops[o].state = ops'[o].state
    BY <2>1, <2>2
  <2>4. call' = [call EXCEPT ![c] = IdleCall] /\ UNCHANGED <<events, begun>>
    BY <1>18 DEF Finish, Return, history
  <2> QED BY <2>3, <2>4 DEF IdleCall
<1>19. ASSUME NEW c \in Callers, CallDies(c) PROVE ReviewHolds'
  BY <1>19 DEF CallDies, Unlock, Return, IdleCall, worktree, ledger, history
<1>20. ASSUME AgentCreates PROVE ReviewHolds'
  BY <1>20 DEF AgentCreates, Creatable, Free, worktree, ledger, history
<1>21. ASSUME AgentCreated PROVE ReviewHolds'
  BY <1>21 DEF AgentCreated, worktree, ledger, history
<1>22. ASSUME AgentMarks PROVE ReviewHolds'
  BY <1>22 DEF AgentMarks, Free, worktree, ledger, history
<1>23. ASSUME AgentRuns PROVE ReviewHolds'
  BY <1>23 DEF AgentRuns, worktree, ledger, history
<1>24. ASSUME NEW content \in Contents, AgentEdits(content) PROVE ReviewHolds'
  BY <1>24 DEF AgentEdits, worktree, ledger, history
<1>25. ASSUME AgentGivesUp PROVE ReviewHolds'
  BY <1>25 DEF AgentGivesUp, Free, worktree, ledger, history
<1>26. ASSUME AgentEnds PROVE ReviewHolds'
  BY <1>26 DEF AgentEnds, Free, worktree, ledger, history
<1>27. ASSUME AgentDies PROVE ReviewHolds'
  BY <1>27 DEF AgentDies, Unlock, worktree, ledger, history
<1>28. ASSUME CliCreate PROVE ReviewHolds'
  BY <1>28 DEF CliCreate, Creatable, Free, worktree, ledger, history
<1>29. ASSUME CliCheckpoint PROVE ReviewHolds'
  BY <1>29 DEF CliCheckpoint, Free, worktree, ledger, history
<1>30. ASSUME CliCleanup PROVE ReviewHolds'
  BY <1>30 DEF CliCleanup, Free, Active, worktree, ledger, history
<1>31. ASSUME NEW c \in Callers, NEW i \in DOMAIN saved, CliRollback(c, i) PROVE ReviewHolds'
  BY <1>31 DEF CliRollback, IdleCall, worktree, ledger, history
<1>32. ASSUME NEW content \in Contents, OwnerEdits(content) PROVE ReviewHolds'
  BY <1>32 DEF OwnerEdits, Free, worktree, ledger, history
<1> QED BY ZenonT(40), <1>1, <1>2, <1>3, <1>4, <1>5, <1>6, <1>7, <1>8, <1>9, <1>10, <1>11, <1>12, <1>13, 
           <1>14, <1>15, <1>16, <1>17, <1>18, <1>19, <1>20, <1>21, <1>22, <1>23, <1>24, 
           <1>25, <1>26, <1>27, <1>28, <1>29, <1>30, <1>31, <1>32
        DEF Next, OwnerStep, RestoreStep, AgentStep, CliStep

\* A consumed, stale, expired or interrupted operation performs no second restore, under any
\* key, from any thread (isolation/owner_rollback.py execute).
THEOREM ReviewRestoresOnce == Spec => []OneRestorePerReview
<1>1. Init => Shape /\ ReviewHolds
  BY RollbackAssumption DEF Init, Shape, CallShape, OpShape, ReviewHolds, Past, Before, Locked, IdleCall
<1>2. ReviewHolds => OneRestorePerReview
  <2> SUFFICES ASSUME ReviewHolds, NEW o \in Ops PROVE begun[o] <= 1
    BY DEF OneRestorePerReview
  <2>1. begun[o] = 0 \/ begun[o] = 1
    BY DEF ReviewHolds
  <2> QED BY <2>1
<1> QED BY <1>1, <1>2, ShapeStep, ReviewStep, PTL DEF Spec

-----------------------------------------------------------------------------
(* What a restore destroys has been saved.                                  *)

Checkpoints == /\ saved \in Seq(Snapshot)
               /\ tree \in Contents \cup {Partial, None}
               /\ \A c \in Callers : call[c].pc \in Past => call[c].target \in DOMAIN saved
               /\ \A c \in Callers : call[c].pc = "consume" => call[c].target \in DOMAIN saved
               /\ \A o \in Ops : ops[o].state # "none" => ops[o].target \in DOMAIN saved

SafetyHolds ==
  /\ \A c \in Callers : call[c].pc \in {"mark", "begin"} =>
       call[c].safety \in DOMAIN saved /\ saved[call[c].safety].content = tree
  /\ \A c \in Callers : call[c].pc \in {"restoring", "compensate"} => 
       tree = Partial /\ call[c].safety \in DOMAIN saved

LEMMA SavedGrows ==
  ASSUME saved \in Seq(Snapshot), NEW row \in Snapshot, saved' = Append(saved, row)
  PROVE  /\ saved' \in Seq(Snapshot) /\ DOMAIN saved \subseteq DOMAIN saved'
         /\ \A i \in DOMAIN saved : saved'[i] = saved[i]
         /\ Len(saved) + 1 \in DOMAIN saved' /\ saved'[Len(saved) + 1] = row
BY LenProperties

\* What a restore works with exists: the checkpoints it was given, and the one it made.
LEMMA CheckpointStep == Shape /\ LockHolds /\ Checkpoints /\ SafetyHolds /\ [Next]_vars => Checkpoints'
<1> SUFFICES ASSUME Shape, LockHolds, Checkpoints, SafetyHolds, [Next]_vars PROVE Checkpoints'
  OBVIOUS
<1> USE RollbackAssumption DEF Shape, CallShape, OpShape, Checkpoints, Past, Before, Locked
<1>1. CASE UNCHANGED vars
  BY <1>1 DEF vars, worktree, ledger, history
<1>2. ASSUME NEW o \in Ops, NEW i \in DOMAIN saved, Review(o, i) PROVE Checkpoints'
  BY <1>2 DEF Review, Eligible, worktree, ledger, history
<1>3. ASSUME NEW o \in Ops, NEW c \in Callers, ExecuteRefuses(c, o) PROVE Checkpoints'
  BY <1>3 DEF ExecuteRefuses, Mark, worktree, ledger, history
<1>4. ASSUME NEW o \in Ops, NEW c \in Callers, NEW k \in Keys, Execute(c, o, k) PROVE Checkpoints'
  BY <1>4 DEF Execute, Eligible, IdleCall, worktree, ledger, history
<1>5. ASSUME NEW o \in Ops, NEW k \in Keys, RecoverResult(o, k) PROVE Checkpoints'
  BY <1>5 DEF RecoverResult, OpState, worktree, ledger, history
<1>6. ASSUME NEW c \in Callers, Consume(c) PROVE Checkpoints'
  BY SMTT(30), <1>6 DEF Consume, Goto, Return, IdleCall, worktree, ledger, history
<1>7. ASSUME NEW c \in Callers, Enter(c) PROVE Checkpoints'
  BY <1>7 DEF Enter, Goto, Return, IdleCall, worktree, ledger, history
<1>8. ASSUME NEW c \in Callers, TakeLock(c) PROVE Checkpoints'
  BY <1>8 DEF TakeLock, Goto, Return, IdleCall, Free, worktree, ledger, history
<1>9. ASSUME NEW c \in Callers, MakeSafety(c) PROVE Checkpoints'
  <2>1. CASE saved' = saved
    BY <1>9, <2>1 DEF MakeSafety, worktree, ledger, history
  <2>2. CASE saved' = Append(saved, [label |-> "safety", content |-> tree])
    <3> DEFINE row == [label |-> "safety", content |-> tree]
    <3>1. row \in Snapshot /\ row.content = tree
      BY DEF Snapshot
    <3> HIDE DEF row
    <3>2. /\ saved' \in Seq(Snapshot) /\ DOMAIN saved \subseteq DOMAIN saved'
          /\ \A i \in DOMAIN saved : saved'[i] = saved[i]
          /\ Len(saved) + 1 \in DOMAIN saved' /\ saved'[Len(saved) + 1] = row
      BY <2>2, <3>1, SavedGrows DEF row
    <3> QED BY <1>9, <3>1, <3>2 DEF MakeSafety, worktree, ledger, history
  <2> QED BY <1>9, <2>1, <2>2 DEF MakeSafety
<1>10. ASSUME NEW c \in Callers, MarkInProgress(c) PROVE Checkpoints'
  BY <1>10 DEF MarkInProgress, worktree, ledger, history
<1>11. ASSUME NEW c \in Callers, BeginRestore(c) PROVE Checkpoints'
  BY <1>11 DEF BeginRestore, Goto, worktree, ledger, history
<1>12. ASSUME NEW c \in Callers, RestoreTarget(c) PROVE Checkpoints'
  <2>1. saved[call[c].target] \in Snapshot /\ saved' = saved
    BY <1>12, LenProperties, ElementOfSeq DEF RestoreTarget
  <2>2. tree' \in Contents \cup {Partial, None}
    BY <1>12, <2>1 DEF RestoreTarget, Snapshot
  <2> QED BY <1>12, <2>1, <2>2 DEF RestoreTarget, Goto, worktree, ledger, history
<1>13. ASSUME NEW c \in Callers, Compensate(c) PROVE Checkpoints'
  <2>1. saved[call[c].safety] \in Snapshot /\ saved' = saved
    BY <1>13, LenProperties, ElementOfSeq DEF Compensate, SafetyHolds
  <2>2. tree' \in Contents \cup {Partial, None}
    BY <1>13, <2>1 DEF Compensate, Snapshot
  <2> QED BY <1>13, <2>1, <2>2 DEF Compensate, Goto, worktree, ledger, history
<1>14. ASSUME NEW c \in Callers, RecordOutcome(c) PROVE Checkpoints'
  BY <1>14 DEF RecordOutcome, Record, worktree, ledger, history
<1>15. ASSUME NEW c \in Callers, Settle(c) PROVE Checkpoints'
  BY <1>15 DEF Settle, Goto, Unlock, worktree, ledger, history
<1>16. ASSUME NEW c \in Callers, RequireRecovery(c) PROVE Checkpoints'
  BY <1>16 DEF RequireRecovery, Goto, worktree, ledger, history
<1>17. ASSUME NEW c \in Callers, RecordDouble(c) PROVE Checkpoints'
  BY <1>17 DEF RecordDouble, Record, Unlock, worktree, ledger, history
<1>18. ASSUME NEW c \in Callers, Finish(c) PROVE Checkpoints'
  BY <1>18 DEF Finish, Return, IdleCall, OpState, worktree, ledger, history
<1>19. ASSUME NEW c \in Callers, CallDies(c) PROVE Checkpoints'
  BY <1>19 DEF CallDies, Unlock, Return, IdleCall, worktree, ledger, history
<1>20. ASSUME AgentCreates PROVE Checkpoints'
  BY <1>20 DEF AgentCreates, Creatable, Free, worktree, ledger, history
<1>21. ASSUME AgentCreated PROVE Checkpoints'
  BY <1>21 DEF AgentCreated, worktree, ledger, history
<1>22. ASSUME AgentMarks PROVE Checkpoints'
  BY <1>22 DEF AgentMarks, Free, worktree, ledger, history
<1>23. ASSUME AgentRuns PROVE Checkpoints'
  <2>1. CASE saved' = saved
    BY <1>23, <2>1 DEF AgentRuns, worktree, ledger, history
  <2>2. CASE saved' = Append(saved, [label |-> "baseline", content |-> tree])
    <3> DEFINE row == [label |-> "baseline", content |-> tree]
    <3>1. row \in Snapshot /\ row.content = tree
      BY DEF Snapshot
    <3> HIDE DEF row
    <3>2. /\ saved' \in Seq(Snapshot) /\ DOMAIN saved \subseteq DOMAIN saved'
          /\ \A i \in DOMAIN saved : saved'[i] = saved[i]
          /\ Len(saved) + 1 \in DOMAIN saved' /\ saved'[Len(saved) + 1] = row
      BY <2>2, <3>1, SavedGrows DEF row
    <3> QED BY <1>23, <3>1, <3>2 DEF AgentRuns, worktree, ledger, history
  <2> QED BY <1>23, <2>1, <2>2 DEF AgentRuns
<1>24. ASSUME NEW content \in Contents, AgentEdits(content) PROVE Checkpoints'
  BY <1>24 DEF AgentEdits, worktree, ledger, history
<1>25. ASSUME AgentGivesUp PROVE Checkpoints'
  <2>1. CASE saved' = saved
    BY <1>25, <2>1 DEF AgentGivesUp, Free, worktree, ledger, history
  <2>2. CASE saved' = Append(saved, [label |-> "baseline", content |-> tree])
    <3> DEFINE row == [label |-> "baseline", content |-> tree]
    <3>1. row \in Snapshot /\ row.content = tree
      BY DEF Snapshot
    <3> HIDE DEF row
    <3>2. /\ saved' \in Seq(Snapshot) /\ DOMAIN saved \subseteq DOMAIN saved'
          /\ \A i \in DOMAIN saved : saved'[i] = saved[i]
          /\ Len(saved) + 1 \in DOMAIN saved' /\ saved'[Len(saved) + 1] = row
      BY <2>2, <3>1, SavedGrows DEF row
    <3> QED BY <1>25, <3>1, <3>2 DEF AgentGivesUp, Free, worktree, ledger, history
  <2> QED BY <1>25, <2>1, <2>2 DEF AgentGivesUp, Free
<1>26. ASSUME AgentEnds PROVE Checkpoints'
  BY <1>26 DEF AgentEnds, Free, worktree, ledger, history
<1>27. ASSUME AgentDies PROVE Checkpoints'
  BY <1>27 DEF AgentDies, Unlock, worktree, ledger, history
<1>28. ASSUME CliCreate PROVE Checkpoints'
  BY <1>28 DEF CliCreate, Creatable, Free, worktree, ledger, history
<1>29. ASSUME CliCheckpoint PROVE Checkpoints'
  <2>1. CASE saved' = saved
    BY <1>29, <2>1 DEF CliCheckpoint, Free, worktree, ledger, history
  <2>2. CASE saved' = Append(saved, [label |-> "owner", content |-> tree])
    <3> DEFINE row == [label |-> "owner", content |-> tree]
    <3>1. row \in Snapshot /\ row.content = tree
      BY DEF Snapshot
    <3> HIDE DEF row
    <3>2. /\ saved' \in Seq(Snapshot) /\ DOMAIN saved \subseteq DOMAIN saved'
          /\ \A i \in DOMAIN saved : saved'[i] = saved[i]
          /\ Len(saved) + 1 \in DOMAIN saved' /\ saved'[Len(saved) + 1] = row
      BY <2>2, <3>1, SavedGrows DEF row
    <3> QED BY <1>29, <3>1, <3>2 DEF CliCheckpoint, Free, worktree, ledger, history
  <2> QED BY <1>29, <2>1, <2>2 DEF CliCheckpoint, Free
<1>30. ASSUME CliCleanup PROVE Checkpoints'
  BY <1>30 DEF CliCleanup, Free, Active, worktree, ledger, history
<1>31. ASSUME NEW c \in Callers, NEW i \in DOMAIN saved, CliRollback(c, i) PROVE Checkpoints'
  BY <1>31 DEF CliRollback, IdleCall, worktree, ledger, history
<1>32. ASSUME NEW content \in Contents, OwnerEdits(content) PROVE Checkpoints'
  BY <1>32 DEF OwnerEdits, Free, worktree, ledger, history
<1> QED BY <1>1, <1>2, <1>3, <1>4, <1>5, <1>6, <1>7, <1>8, <1>9, <1>10, <1>11, <1>12, <1>13, 
           <1>14, <1>15, <1>16, <1>17, <1>18, <1>19, <1>20, <1>21, <1>22, <1>23, <1>24, 
           <1>25, <1>26, <1>27, <1>28, <1>29, <1>30, <1>31, <1>32
        DEF Next, OwnerStep, RestoreStep, AgentStep, CliStep

\* Nobody writes to a worktree whose restore has saved it and not yet destroyed it.
LEMMA SafetyStep == Shape /\ LockHolds /\ Checkpoints /\ SafetyHolds /\ [Next]_vars => SafetyHolds'
<1> SUFFICES ASSUME Shape, LockHolds, Checkpoints, SafetyHolds, [Next]_vars PROVE SafetyHolds'
  OBVIOUS
<1> USE RollbackAssumption DEF Shape, CallShape, OpShape, LockHolds, SafetyHolds, Locked
<1>0. saved \in Seq(Snapshot) /\ tree \in Contents \cup {Partial, None}
  BY DEF Checkpoints
<1>1. CASE UNCHANGED vars
  BY <1>1 DEF vars, worktree, ledger, history
<1>2. ASSUME NEW o \in Ops, NEW i \in DOMAIN saved, Review(o, i) PROVE SafetyHolds'
  BY <1>2 DEF Review, Eligible, worktree, ledger, history
<1>3. ASSUME NEW o \in Ops, NEW c \in Callers, ExecuteRefuses(c, o) PROVE SafetyHolds'
  BY <1>3 DEF ExecuteRefuses, Mark, worktree, ledger, history
<1>4. ASSUME NEW o \in Ops, NEW c \in Callers, NEW k \in Keys, Execute(c, o, k) PROVE SafetyHolds'
  BY <1>4 DEF Execute, Eligible, IdleCall, worktree, ledger, history
<1>5. ASSUME NEW o \in Ops, NEW k \in Keys, RecoverResult(o, k) PROVE SafetyHolds'
  BY <1>5 DEF RecoverResult, OpState, worktree, ledger, history
<1>6. ASSUME NEW c \in Callers, Consume(c) PROVE SafetyHolds'
  BY <1>6 DEF Consume, Goto, Return, IdleCall, worktree, ledger, history
<1>7. ASSUME NEW c \in Callers, Enter(c) PROVE SafetyHolds'
  BY <1>7 DEF Enter, Goto, Return, IdleCall, worktree, ledger, history
<1>8. ASSUME NEW c \in Callers, TakeLock(c) PROVE SafetyHolds'
  BY <1>8 DEF TakeLock, Goto, Return, IdleCall, Free, worktree, ledger, history
<1>9. ASSUME NEW c \in Callers, MakeSafety(c) PROVE SafetyHolds'
  <2>1. CASE saved' = saved
    BY <1>9, <2>1 DEF MakeSafety, worktree, ledger, history
  <2>2. CASE saved' = Append(saved, [label |-> "safety", content |-> tree])
    <3> DEFINE row == [label |-> "safety", content |-> tree]
    <3>1. row \in Snapshot /\ row.content = tree
      BY <1>0 DEF Snapshot
    <3> HIDE DEF row
    <3>2. /\ saved' \in Seq(Snapshot) /\ DOMAIN saved \subseteq DOMAIN saved'
          /\ \A i \in DOMAIN saved : saved'[i] = saved[i]
          /\ Len(saved) + 1 \in DOMAIN saved' /\ saved'[Len(saved) + 1] = row
      BY <2>2, <1>0, <3>1, SavedGrows DEF row
    <3> QED BY <1>9, <3>1, <3>2 DEF MakeSafety, worktree, ledger, history
  <2> QED BY <1>9, <2>1, <2>2 DEF MakeSafety
<1>10. ASSUME NEW c \in Callers, MarkInProgress(c) PROVE SafetyHolds'
  BY <1>10 DEF MarkInProgress, worktree, ledger, history
<1>11. ASSUME NEW c \in Callers, BeginRestore(c) PROVE SafetyHolds'
  BY <1>11 DEF BeginRestore, Goto, worktree, ledger, history
<1>12. ASSUME NEW c \in Callers, RestoreTarget(c) PROVE SafetyHolds'
  BY <1>12 DEF RestoreTarget, Goto, worktree, ledger, history
<1>13. ASSUME NEW c \in Callers, Compensate(c) PROVE SafetyHolds'
  BY <1>13 DEF Compensate, Goto, worktree, ledger, history
<1>14. ASSUME NEW c \in Callers, RecordOutcome(c) PROVE SafetyHolds'
  BY <1>14 DEF RecordOutcome, Record, worktree, ledger, history
<1>15. ASSUME NEW c \in Callers, Settle(c) PROVE SafetyHolds'
  BY <1>15 DEF Settle, Goto, Unlock, worktree, ledger, history
<1>16. ASSUME NEW c \in Callers, RequireRecovery(c) PROVE SafetyHolds'
  BY <1>16 DEF RequireRecovery, Goto, worktree, ledger, history
<1>17. ASSUME NEW c \in Callers, RecordDouble(c) PROVE SafetyHolds'
  BY <1>17 DEF RecordDouble, Record, Unlock, worktree, ledger, history
<1>18. ASSUME NEW c \in Callers, Finish(c) PROVE SafetyHolds'
  BY <1>18 DEF Finish, Return, IdleCall, OpState, worktree, ledger, history
<1>19. ASSUME NEW c \in Callers, CallDies(c) PROVE SafetyHolds'
  BY <1>19 DEF CallDies, Unlock, Return, IdleCall, worktree, ledger, history
<1>20. ASSUME AgentCreates PROVE SafetyHolds'
  BY <1>20 DEF AgentCreates, Creatable, Free, worktree, ledger, history
<1>21. ASSUME AgentCreated PROVE SafetyHolds'
  BY <1>21 DEF AgentCreated, worktree, ledger, history
<1>22. ASSUME AgentMarks PROVE SafetyHolds'
  BY <1>22 DEF AgentMarks, Free, worktree, ledger, history
<1>23. ASSUME AgentRuns PROVE SafetyHolds'
  <2>1. CASE saved' = saved
    BY <1>23, <2>1 DEF AgentRuns, worktree, ledger, history
  <2>2. CASE saved' = Append(saved, [label |-> "baseline", content |-> tree])
    <3> DEFINE row == [label |-> "baseline", content |-> tree]
    <3>1. row \in Snapshot /\ row.content = tree
      BY <1>0 DEF Snapshot
    <3> HIDE DEF row
    <3>2. /\ saved' \in Seq(Snapshot) /\ DOMAIN saved \subseteq DOMAIN saved'
          /\ \A i \in DOMAIN saved : saved'[i] = saved[i]
          /\ Len(saved) + 1 \in DOMAIN saved' /\ saved'[Len(saved) + 1] = row
      BY <2>2, <1>0, <3>1, SavedGrows DEF row
    <3> QED BY <1>23, <3>1, <3>2 DEF AgentRuns, worktree, ledger, history
  <2> QED BY <1>23, <2>1, <2>2 DEF AgentRuns
<1>24. ASSUME NEW content \in Contents, AgentEdits(content) PROVE SafetyHolds'
  BY <1>24 DEF AgentEdits, worktree, ledger, history
<1>25. ASSUME AgentGivesUp PROVE SafetyHolds'
  <2>1. CASE saved' = saved
    BY <1>25, <2>1 DEF AgentGivesUp, Free, worktree, ledger, history
  <2>2. CASE saved' = Append(saved, [label |-> "baseline", content |-> tree])
    <3> DEFINE row == [label |-> "baseline", content |-> tree]
    <3>1. row \in Snapshot /\ row.content = tree
      BY <1>0 DEF Snapshot
    <3> HIDE DEF row
    <3>2. /\ saved' \in Seq(Snapshot) /\ DOMAIN saved \subseteq DOMAIN saved'
          /\ \A i \in DOMAIN saved : saved'[i] = saved[i]
          /\ Len(saved) + 1 \in DOMAIN saved' /\ saved'[Len(saved) + 1] = row
      BY <2>2, <1>0, <3>1, SavedGrows DEF row
    <3> QED BY <1>25, <3>1, <3>2 DEF AgentGivesUp, Free, worktree, ledger, history
  <2> QED BY <1>25, <2>1, <2>2 DEF AgentGivesUp, Free
<1>26. ASSUME AgentEnds PROVE SafetyHolds'
  BY <1>26 DEF AgentEnds, Free, worktree, ledger, history
<1>27. ASSUME AgentDies PROVE SafetyHolds'
  BY <1>27 DEF AgentDies, Unlock, worktree, ledger, history
<1>28. ASSUME CliCreate PROVE SafetyHolds'
  BY <1>28 DEF CliCreate, Creatable, Free, worktree, ledger, history
<1>29. ASSUME CliCheckpoint PROVE SafetyHolds'
  <2>1. CASE saved' = saved
    BY <1>29, <2>1 DEF CliCheckpoint, Free, worktree, ledger, history
  <2>2. CASE saved' = Append(saved, [label |-> "owner", content |-> tree])
    <3> DEFINE row == [label |-> "owner", content |-> tree]
    <3>1. row \in Snapshot /\ row.content = tree
      BY <1>0 DEF Snapshot
    <3> HIDE DEF row
    <3>2. /\ saved' \in Seq(Snapshot) /\ DOMAIN saved \subseteq DOMAIN saved'
          /\ \A i \in DOMAIN saved : saved'[i] = saved[i]
          /\ Len(saved) + 1 \in DOMAIN saved' /\ saved'[Len(saved) + 1] = row
      BY <2>2, <1>0, <3>1, SavedGrows DEF row
    <3> QED BY <1>29, <3>1, <3>2 DEF CliCheckpoint, Free, worktree, ledger, history
  <2> QED BY <1>29, <2>1, <2>2 DEF CliCheckpoint, Free
<1>30. ASSUME CliCleanup PROVE SafetyHolds'
  BY <1>30 DEF CliCleanup, Free, Active, worktree, ledger, history
<1>31. ASSUME NEW c \in Callers, NEW i \in DOMAIN saved, CliRollback(c, i) PROVE SafetyHolds'
  BY <1>31 DEF CliRollback, IdleCall, worktree, ledger, history
<1>32. ASSUME NEW content \in Contents, OwnerEdits(content) PROVE SafetyHolds'
  BY <1>32 DEF OwnerEdits, Free, worktree, ledger, history
<1> QED BY <1>1, <1>2, <1>3, <1>4, <1>5, <1>6, <1>7, <1>8, <1>9, <1>10, <1>11, <1>12, <1>13, 
           <1>14, <1>15, <1>16, <1>17, <1>18, <1>19, <1>20, <1>21, <1>22, <1>23, <1>24, 
           <1>25, <1>26, <1>27, <1>28, <1>29, <1>30, <1>31, <1>32
        DEF Next, OwnerStep, RestoreStep, AgentStep, CliStep

\* The content a restore is about to destroy is in a checkpoint, whoever wrote to the worktree
\* between the review and the restore (isolation/rollback.py restore).
THEOREM NothingIsDestroyedUnsaved == Spec => NoContentIsLost
<1> DEFINE Inv  == Shape /\ LockHolds /\ Checkpoints /\ SafetyHolds
           Kept == tree' = Partial => \/ tree = Partial
                                      \/ \E i \in DOMAIN saved : saved[i].content = tree
<1>1. Init => Inv
  <2> SUFFICES ASSUME Init PROVE Inv
    OBVIOUS
  <2>1. \A c \in Callers : call[c] = IdleCall BY DEF Init
  <2>2. \A o \in Ops : ops[o].state = "none" BY DEF Init
  <2>3. Shape BY DEF Init, Shape, CallShape, OpShape, IdleCall
  <2>4. LockHolds BY <2>1 DEF Init, LockHolds, Locked, IdleCall
  <2>5. Checkpoints BY <2>1, <2>2, EmptySeq DEF Init, Checkpoints, Past, Before, Locked, IdleCall
  <2>6. SafetyHolds BY <2>1 DEF SafetyHolds, IdleCall
  <2> QED BY <2>3, <2>4, <2>5, <2>6
<1>2. Inv /\ [Next]_vars => Inv'
  BY ShapeStep, LockStep, CheckpointStep, SafetyStep
<1>3. Inv /\ [Next]_vars => [Kept]_vars
  <2> SUFFICES ASSUME Inv, Next PROVE Kept
    OBVIOUS
  <2>1. CASE tree' = tree
    BY <2>1
  <2>2. ASSUME NEW c \in Callers, BeginRestore(c) PROVE Kept
    BY <2>2 DEF BeginRestore, SafetyHolds
  <2>3. ASSUME NEW c \in Callers, RestoreTarget(c) \/ Compensate(c) PROVE Kept
    BY <2>3 DEF RestoreTarget, Compensate, SafetyHolds
  <2>4. CASE tree' \in Contents \cup {None}
    BY <2>4, RollbackAssumption
  <2> HIDE DEF Kept
  <2> USE RollbackAssumption
  <2>5. CASE OwnerStep
    BY <2>1, <2>5 DEF OwnerStep, Review, ExecuteRefuses, Execute, RecoverResult, worktree
  <2>6. CASE AgentStep
    BY <2>1, <2>4, <2>6 DEF AgentStep, AgentCreates, AgentCreated, AgentMarks, AgentRuns, AgentEdits,
       AgentGivesUp, AgentEnds, AgentDies
  <2>7. CASE CliStep
    BY <2>1, <2>4, <2>7 DEF CliStep, CliCreate, CliCheckpoint, CliCleanup, CliRollback, OwnerEdits, worktree
  <2>8. ASSUME NEW c \in Callers, RestoreStep(c) PROVE Kept
    BY <2>1, <2>2, <2>3, <2>8 DEF RestoreStep, Consume, Enter, TakeLock, MakeSafety, MarkInProgress,
       RecordOutcome, Settle, RequireRecovery, RecordDouble, Finish, CallDies, worktree
  <2> QED BY <2>5, <2>6, <2>7, <2>8 DEF Next
<1> QED BY <1>1, <1>2, <1>3, PTL DEF Spec, NoContentIsLost

-----------------------------------------------------------------------------
(* What the owner reviewed, and what the owner is told.                     *)

\* From the check under the lock until the restore begins, the worktree is as it was reviewed.
ReviewedHolds ==
  \A c \in Callers : call[c].pc \in {"safety", "mark", "begin"} /\ call[c].op \in Ops =>
    tree = ops[call[c].op].fingerprint

LEMMA ReviewedStep ==
  Shape /\ LockHolds /\ ReviewHolds /\ ReviewedHolds /\ [Next]_vars => ReviewedHolds'
<1> SUFFICES ASSUME Shape, LockHolds, ReviewHolds, ReviewedHolds, [Next]_vars PROVE ReviewedHolds'
  OBVIOUS
<1> USE RollbackAssumption DEF Shape, CallShape, OpShape, LockHolds, ReviewedHolds, Locked
<1>1. CASE UNCHANGED vars
  BY <1>1 DEF vars, worktree, ledger, history
<1>2. ASSUME NEW o \in Ops, NEW i \in DOMAIN saved, Review(o, i) PROVE ReviewedHolds'
  <2>1. \A d \in Callers : ~(call[d].op = o /\ call[d].pc \in Past)
    BY <1>2 DEF Review, ReviewHolds
  <2> QED BY <1>2, <2>1 DEF Review, Past, Before, worktree, ledger, history
<1>3. ASSUME NEW o \in Ops, NEW c \in Callers, ExecuteRefuses(c, o) PROVE ReviewedHolds'
  BY <1>3 DEF ExecuteRefuses, Mark, worktree, ledger, history
<1>4. ASSUME NEW o \in Ops, NEW c \in Callers, NEW k \in Keys, Execute(c, o, k) PROVE ReviewedHolds'
  BY <1>4 DEF Execute, Eligible, IdleCall, worktree, ledger, history
<1>5. ASSUME NEW o \in Ops, NEW k \in Keys, RecoverResult(o, k) PROVE ReviewedHolds'
  BY <1>5 DEF RecoverResult, OpState, worktree, ledger, history
<1>6. ASSUME NEW c \in Callers, Consume(c) PROVE ReviewedHolds'
  BY <1>6 DEF Consume, Goto, Return, IdleCall, worktree, ledger, history
<1>7. ASSUME NEW c \in Callers, Enter(c) PROVE ReviewedHolds'
  BY <1>7 DEF Enter, Goto, Return, IdleCall, worktree, ledger, history
<1>8. ASSUME NEW c \in Callers, TakeLock(c) PROVE ReviewedHolds'
  BY <1>8 DEF TakeLock, Goto, Return, IdleCall, Free, worktree, ledger, history
<1>9. ASSUME NEW c \in Callers, MakeSafety(c) PROVE ReviewedHolds'
  BY <1>9 DEF MakeSafety, worktree, ledger, history
<1>10. ASSUME NEW c \in Callers, MarkInProgress(c) PROVE ReviewedHolds'
  BY <1>10 DEF MarkInProgress, worktree, ledger, history
<1>11. ASSUME NEW c \in Callers, BeginRestore(c) PROVE ReviewedHolds'
  BY <1>11 DEF BeginRestore, Goto, worktree, ledger, history
<1>12. ASSUME NEW c \in Callers, RestoreTarget(c) PROVE ReviewedHolds'
  BY <1>12 DEF RestoreTarget, Goto, worktree, ledger, history
<1>13. ASSUME NEW c \in Callers, Compensate(c) PROVE ReviewedHolds'
  BY <1>13 DEF Compensate, Goto, worktree, ledger, history
<1>14. ASSUME NEW c \in Callers, RecordOutcome(c) PROVE ReviewedHolds'
  BY <1>14 DEF RecordOutcome, Record, worktree, ledger, history
<1>15. ASSUME NEW c \in Callers, Settle(c) PROVE ReviewedHolds'
  BY <1>15 DEF Settle, Goto, Unlock, worktree, ledger, history
<1>16. ASSUME NEW c \in Callers, RequireRecovery(c) PROVE ReviewedHolds'
  BY <1>16 DEF RequireRecovery, Goto, worktree, ledger, history
<1>17. ASSUME NEW c \in Callers, RecordDouble(c) PROVE ReviewedHolds'
  BY <1>17 DEF RecordDouble, Record, Unlock, worktree, ledger, history
<1>18. ASSUME NEW c \in Callers, Finish(c) PROVE ReviewedHolds'
  BY <1>18 DEF Finish, Return, IdleCall, OpState, worktree, ledger, history
<1>19. ASSUME NEW c \in Callers, CallDies(c) PROVE ReviewedHolds'
  BY <1>19 DEF CallDies, Unlock, Return, IdleCall, worktree, ledger, history
<1>20. ASSUME AgentCreates PROVE ReviewedHolds'
  BY <1>20 DEF AgentCreates, Creatable, Free, worktree, ledger, history
<1>21. ASSUME AgentCreated PROVE ReviewedHolds'
  BY <1>21 DEF AgentCreated, worktree, ledger, history
<1>22. ASSUME AgentMarks PROVE ReviewedHolds'
  BY <1>22 DEF AgentMarks, Free, worktree, ledger, history
<1>23. ASSUME AgentRuns PROVE ReviewedHolds'
  BY <1>23 DEF AgentRuns, worktree, ledger, history
<1>24. ASSUME NEW content \in Contents, AgentEdits(content) PROVE ReviewedHolds'
  BY <1>24 DEF AgentEdits, worktree, ledger, history
<1>25. ASSUME AgentGivesUp PROVE ReviewedHolds'
  BY <1>25 DEF AgentGivesUp, Free, worktree, ledger, history
<1>26. ASSUME AgentEnds PROVE ReviewedHolds'
  BY <1>26 DEF AgentEnds, Free, worktree, ledger, history
<1>27. ASSUME AgentDies PROVE ReviewedHolds'
  BY <1>27 DEF AgentDies, Unlock, worktree, ledger, history
<1>28. ASSUME CliCreate PROVE ReviewedHolds'
  BY <1>28 DEF CliCreate, Creatable, Free, worktree, ledger, history
<1>29. ASSUME CliCheckpoint PROVE ReviewedHolds'
  BY <1>29 DEF CliCheckpoint, Free, worktree, ledger, history
<1>30. ASSUME CliCleanup PROVE ReviewedHolds'
  BY <1>30 DEF CliCleanup, Free, Active, worktree, ledger, history
<1>31. ASSUME NEW c \in Callers, NEW i \in DOMAIN saved, CliRollback(c, i) PROVE ReviewedHolds'
  BY <1>31 DEF CliRollback, IdleCall, worktree, ledger, history
<1>32. ASSUME NEW content \in Contents, OwnerEdits(content) PROVE ReviewedHolds'
  BY <1>32 DEF OwnerEdits, Free, worktree, ledger, history
<1> QED BY <1>1, <1>2, <1>3, <1>4, <1>5, <1>6, <1>7, <1>8, <1>9, <1>10, <1>11, <1>12, <1>13, 
           <1>14, <1>15, <1>16, <1>17, <1>18, <1>19, <1>20, <1>21, <1>22, <1>23, <1>24, 
           <1>25, <1>26, <1>27, <1>28, <1>29, <1>30, <1>31, <1>32
        DEF Next, OwnerStep, RestoreStep, AgentStep, CliStep

\* The restore of a review replaces the state that was reviewed: it begins only while the
\* worktree still is what the fingerprint of the review says.
THEOREM ReviewedIsReplaced == Spec => OnlyReviewedStateIsReplaced
<1> DEFINE Inv == Shape /\ LockHolds /\ ReviewHolds /\ ReviewedHolds
           Told == \A o \in Ops : begun'[o] # begun[o] => tree = ops[o].fingerprint
<1>1. Init => Inv
  <2> SUFFICES ASSUME Init PROVE Inv
    OBVIOUS
  <2>1. \A c \in Callers : call[c] = IdleCall BY DEF Init
  <2>2. Shape BY DEF Init, Shape, CallShape, OpShape, IdleCall
  <2>3. LockHolds BY <2>1 DEF Init, LockHolds, Locked, IdleCall
  <2>4. ReviewHolds BY <2>1, RollbackAssumption DEF Init, ReviewHolds, Past, Before, Locked, IdleCall
  <2>5. ReviewedHolds BY <2>1 DEF ReviewedHolds, IdleCall
  <2> QED BY <2>2, <2>3, <2>4, <2>5
<1>2. Inv /\ [Next]_vars => Inv'
  BY ShapeStep, LockStep, ReviewStep, ReviewedStep
<1>3. Inv /\ [Next]_vars => [Told]_vars
  <2> SUFFICES ASSUME Inv, Next PROVE Told
    OBVIOUS
  <2>1. CASE begun' = begun
    BY <2>1
  <2>2. ASSUME NEW c \in Callers, BeginRestore(c) PROVE Told
    BY <2>2 DEF BeginRestore, ReviewedHolds, Shape
  <2> HIDE DEF Told
  <2>3. CASE OwnerStep
    BY <2>1, <2>3 DEF OwnerStep, Review, ExecuteRefuses, Execute, RecoverResult, history
  <2>4. CASE AgentStep
    BY <2>1, <2>4 DEF AgentStep, AgentCreates, AgentCreated, AgentMarks, AgentRuns, AgentEdits,
       AgentGivesUp, AgentEnds, AgentDies, history
  <2>5. CASE CliStep
    BY <2>1, <2>5 DEF CliStep, CliCreate, CliCheckpoint, CliCleanup, CliRollback, OwnerEdits, history
  <2>6. ASSUME NEW c \in Callers, RestoreStep(c) PROVE Told
    BY <2>1, <2>2, <2>6 DEF RestoreStep, Consume, Enter, TakeLock, MakeSafety, MarkInProgress,
       RestoreTarget, Compensate, RecordOutcome, Settle, RequireRecovery, RecordDouble, Finish,
       CallDies, history
  <2> QED BY <2>3, <2>4, <2>5, <2>6 DEF Next
<1> QED BY <1>1, <1>2, <1>3, PTL DEF Spec, OnlyReviewedStateIsReplaced

\* The call's restore has not been recorded; Untouched: it cannot have reached its target.
Unrecorded == Past \ {"settle", "finish"}
Untouched  == Unrecorded \ {"restored"}
Unused     == {"none", "reviewed", "expired", "stale"}

AnswersHold ==
  /\ \A o \in Ops : ops[o].state \in Unused =>
       /\ begun[o] = 0 /\ o \notin reached
       /\ \A e \in events : e.op # o
       /\ \A c \in Callers : ~(call[c].op = o /\ call[c].pc \in Past)
  /\ \A e \in events : e.result \in Results /\ (e.result = "restored" <=> e.op \in reached)
  /\ \A c \in Callers : call[c].pc \in Unrecorded /\ call[c].op \in Ops =>
       ops[call[c].op].state = "executing" /\ \A e \in events : e.op # call[c].op
  /\ \A c \in Callers : call[c].pc \in Untouched => call[c].op \notin reached
  /\ \A c \in Callers : call[c].pc = "restored" /\ call[c].op \in Ops => call[c].op \in reached
  /\ \A c \in Callers : call[c].pc \in {"settle", "finish"} /\ call[c].op \in Ops =>
       call[c].result \in Results /\ (call[c].result = "restored" <=> call[c].op \in reached)
  /\ reached \subseteq Ops
  /\ AnswersAreTrue

LEMMA AnswersStep == Shape /\ ReviewHolds /\ AnswersHold /\ [Next]_vars => AnswersHold'
<1> SUFFICES ASSUME Shape, ReviewHolds, AnswersHold, [Next]_vars PROVE AnswersHold'
  OBVIOUS
<1> USE RollbackAssumption DEF Shape, CallShape, OpShape, ReviewHolds, AnswersHold, AnswersAreTrue,
        Results, OpState, Unrecorded, Untouched, Unused, Past, Before, Locked
<1>1. CASE UNCHANGED vars
  BY <1>1 DEF vars, worktree, ledger, history
<1>2. ASSUME NEW o \in Ops, NEW i \in DOMAIN saved, Review(o, i) PROVE AnswersHold'
  BY <1>2 DEF Review, Eligible, worktree, ledger, history
<1>3. ASSUME NEW o \in Ops, NEW c \in Callers, ExecuteRefuses(c, o) PROVE AnswersHold'
  BY <1>3 DEF ExecuteRefuses, Mark, worktree, ledger, history
<1>4. ASSUME NEW o \in Ops, NEW c \in Callers, NEW k \in Keys, Execute(c, o, k) PROVE AnswersHold'
  BY <1>4 DEF Execute, Eligible, IdleCall, worktree, ledger, history
<1>5. ASSUME NEW o \in Ops, NEW k \in Keys, RecoverResult(o, k) PROVE AnswersHold'
  BY <1>5 DEF RecoverResult, OpState, worktree, ledger, history
<1>6. ASSUME NEW c \in Callers, Consume(c) PROVE AnswersHold'
  BY <1>6 DEF Consume, Goto, Return, IdleCall, worktree, ledger, history
<1>7. ASSUME NEW c \in Callers, Enter(c) PROVE AnswersHold'
  BY <1>7 DEF Enter, Goto, Return, IdleCall, worktree, ledger, history
<1>8. ASSUME NEW c \in Callers, TakeLock(c) PROVE AnswersHold'
  BY <1>8 DEF TakeLock, Goto, Return, IdleCall, Free, worktree, ledger, history
<1>9. ASSUME NEW c \in Callers, MakeSafety(c) PROVE AnswersHold'
  BY <1>9 DEF MakeSafety, worktree, ledger, history
<1>10. ASSUME NEW c \in Callers, MarkInProgress(c) PROVE AnswersHold'
  BY <1>10 DEF MarkInProgress, worktree, ledger, history
<1>11. ASSUME NEW c \in Callers, BeginRestore(c) PROVE AnswersHold'
  BY <1>11 DEF BeginRestore, Goto, worktree, ledger, history
<1>12. ASSUME NEW c \in Callers, RestoreTarget(c) PROVE AnswersHold'
  BY <1>12 DEF RestoreTarget, Goto, worktree, ledger, history
<1>13. ASSUME NEW c \in Callers, Compensate(c) PROVE AnswersHold'
  BY <1>13 DEF Compensate, Goto, worktree, ledger, history
<1>14. ASSUME NEW c \in Callers, RecordOutcome(c) PROVE AnswersHold'
  BY <1>14 DEF RecordOutcome, Record, worktree, ledger, history
<1>15. ASSUME NEW c \in Callers, Settle(c) PROVE AnswersHold'
  BY <1>15 DEF Settle, Goto, Unlock, worktree, ledger, history
<1>16. ASSUME NEW c \in Callers, RequireRecovery(c) PROVE AnswersHold'
  BY <1>16 DEF RequireRecovery, Goto, worktree, ledger, history
<1>17. ASSUME NEW c \in Callers, RecordDouble(c) PROVE AnswersHold'
  BY <1>17 DEF RecordDouble, Record, Unlock, worktree, ledger, history
<1>18. ASSUME NEW c \in Callers, Finish(c) PROVE AnswersHold'
  BY <1>18 DEF Finish, Return, IdleCall, OpState, worktree, ledger, history
<1>19. ASSUME NEW c \in Callers, CallDies(c) PROVE AnswersHold'
  BY <1>19 DEF CallDies, Unlock, Return, IdleCall, worktree, ledger, history
<1>20. ASSUME AgentCreates PROVE AnswersHold'
  BY <1>20 DEF AgentCreates, Creatable, Free, worktree, ledger, history
<1>21. ASSUME AgentCreated PROVE AnswersHold'
  BY <1>21 DEF AgentCreated, worktree, ledger, history
<1>22. ASSUME AgentMarks PROVE AnswersHold'
  BY <1>22 DEF AgentMarks, Free, worktree, ledger, history
<1>23. ASSUME AgentRuns PROVE AnswersHold'
  BY <1>23 DEF AgentRuns, worktree, ledger, history
<1>24. ASSUME NEW content \in Contents, AgentEdits(content) PROVE AnswersHold'
  BY <1>24 DEF AgentEdits, worktree, ledger, history
<1>25. ASSUME AgentGivesUp PROVE AnswersHold'
  BY <1>25 DEF AgentGivesUp, Free, worktree, ledger, history
<1>26. ASSUME AgentEnds PROVE AnswersHold'
  BY <1>26 DEF AgentEnds, Free, worktree, ledger, history
<1>27. ASSUME AgentDies PROVE AnswersHold'
  BY <1>27 DEF AgentDies, Unlock, worktree, ledger, history
<1>28. ASSUME CliCreate PROVE AnswersHold'
  BY <1>28 DEF CliCreate, Creatable, Free, worktree, ledger, history
<1>29. ASSUME CliCheckpoint PROVE AnswersHold'
  BY <1>29 DEF CliCheckpoint, Free, worktree, ledger, history
<1>30. ASSUME CliCleanup PROVE AnswersHold'
  BY <1>30 DEF CliCleanup, Free, Active, worktree, ledger, history
<1>31. ASSUME NEW c \in Callers, NEW i \in DOMAIN saved, CliRollback(c, i) PROVE AnswersHold'
  BY <1>31 DEF CliRollback, IdleCall, worktree, ledger, history
<1>32. ASSUME NEW content \in Contents, OwnerEdits(content) PROVE AnswersHold'
  BY <1>32 DEF OwnerEdits, Free, worktree, ledger, history
<1> QED BY <1>1, <1>2, <1>3, <1>4, <1>5, <1>6, <1>7, <1>8, <1>9, <1>10, <1>11, <1>12, <1>13, 
           <1>14, <1>15, <1>16, <1>17, <1>18, <1>19, <1>20, <1>21, <1>22, <1>23, <1>24, 
           <1>25, <1>26, <1>27, <1>28, <1>29, <1>30, <1>31, <1>32
        DEF Next, OwnerStep, RestoreStep, AgentStep, CliStep

\* What an operation is answered with, first or when the same key asks again after a crash, is
\* what happened to the worktree (isolation/owner_rollback.py _recover_result).
THEOREM AnswersTellWhatHappened == Spec => []AnswersAreTrue
<1> DEFINE Inv == Shape /\ ReviewHolds /\ AnswersHold
<1>1. Init => Inv
  <2> SUFFICES ASSUME Init PROVE Inv
    OBVIOUS
  <2>1. \A c \in Callers : call[c] = IdleCall BY DEF Init
  <2>2. \A o \in Ops : ops[o].state = "none" /\ begun[o] = 0 BY DEF Init
  <2>3. Shape BY DEF Init, Shape, CallShape, OpShape, IdleCall
  <2>4. ReviewHolds BY <2>1, RollbackAssumption DEF Init, ReviewHolds, Past, Before, Locked, IdleCall
  <2>5. events = {} /\ reached = {} BY DEF Init
  <2>6. AnswersHold
    BY <2>1, <2>2, <2>5, RollbackAssumption
       DEF AnswersHold, AnswersAreTrue, Unrecorded, Untouched, Unused, Past, Before, Locked, IdleCall
  <2> QED BY <2>3, <2>4, <2>6
<1>2. Inv /\ [Next]_vars => Inv'
  BY ShapeStep, ReviewStep, AnswersStep
<1>3. Inv => AnswersAreTrue
  BY DEF AnswersHold
<1> QED BY <1>1, <1>2, <1>3, PTL DEF Spec
==================================================================================
