--------------------------- MODULE TaskLifecycle_proofs --------------------------
(***************************************************************************)
(* What holds of one coding task for every number of requests, plans,       *)
(* attempts, restarts and lapsed leases: the claim of the live worker, the  *)
(* plan that is edited under, and what a rollback leaves in the worktree.   *)
(***************************************************************************)
EXTENDS TaskLifecycle, SequenceTheorems, TLAPS

-----------------------------------------------------------------------------
(* Sequences of whatever: attempts and futures.                             *)

IsSeq(s) == \E S : s \in Seq(S)

LEMMA SeqIndices ==
  ASSUME NEW s, IsSeq(s)
  PROVE  Len(s) \in Nat /\ DOMAIN s = 1..Len(s)
BY LenProperties DEF IsSeq

LEMMA SeqGrows ==
  ASSUME NEW s, IsSeq(s), NEW e
  PROVE  /\ IsSeq(Append(s, e)) /\ Len(Append(s, e)) = Len(s) + 1
         /\ Len(s) \in Nat /\ DOMAIN s = 1..Len(s) /\ DOMAIN Append(s, e) = 1..(Len(s) + 1)
         /\ \A i \in DOMAIN s : Append(s, e)[i] = s[i]
         /\ Append(s, e)[Len(s) + 1] = e
<1>1. PICK S : s \in Seq(S) BY DEF IsSeq
<1>2. s \in Seq(S \cup {e}) BY <1>1, SeqMonotonic
<1>3. Append(s, e) \in Seq(S \cup {e}) /\ Len(Append(s, e)) = Len(s) + 1
  BY <1>2
<1> QED BY <1>2, <1>3, LenProperties DEF IsSeq

LEMMA SeqRedrawn ==
  ASSUME NEW s, IsSeq(s), NEW t, DOMAIN t = DOMAIN s, t = [i \in DOMAIN t |-> t[i]]
  PROVE  IsSeq(t) /\ Len(t) = Len(s)
<1>1. Len(s) \in Nat /\ DOMAIN s = 1..Len(s) BY SeqIndices
<1> DEFINE T == {t[i] : i \in DOMAIN t}
<1>2. t \in [1..Len(s) -> T] BY <1>1
<1>3. t \in Seq(T) BY <1>1, <1>2, SeqDef
<1>4. Len(t) \in Nat /\ DOMAIN t = 1..Len(t) BY <1>3, LenProperties
<1> HIDE DEF T
<1>5. IsSeq(t) BY <1>3 DEF IsSeq
<1>6. Len(t) = Len(s) BY <1>1, <1>4
<1> QED BY <1>5, <1>6

LEMMA SeqTail ==
  ASSUME NEW s, IsSeq(s), s # << >>
  PROVE  IsSeq(Tail(s)) /\ Len(Tail(s)) = Len(s) - 1 /\ Len(s) \in Nat \ {0}
         /\ \A i \in DOMAIN Tail(s) : i + 1 \in DOMAIN s /\ Tail(s)[i] = s[i + 1]
<1>1. PICK S : s \in Seq(S) BY DEF IsSeq
<1>2. Tail(s) \in Seq(S) /\ Len(Tail(s)) = Len(s) - 1 BY <1>1
<1>3. Len(s) \in Nat \ {0} BY <1>1, EmptySeq
<1> QED BY <1>1, <1>2, <1>3, LenProperties DEF IsSeq

-----------------------------------------------------------------------------
(* The rows have their fields.                                              *)

CallerShape(q) == DOMAIN q = {"pc", "seen", "plan", "attempt", "key", "restored"}

RecordShape ==
  /\ DOMAIN task = {"status", "plan", "approval", "cancel", "fresh", "validated"}
  /\ DOMAIN claim = {"plan", "planLapsed", "exec", "execLapsed"}
  /\ DOMAIN plans = {"rows", "file"}
  /\ DOMAIN spent = {"calls", "restarts", "lapses", "overlapped", "expired"}
  /\ DOMAIN worker = {"pc", "result", "passed", "cancelled", "ok", "outcome", "again"}
  /\ DOMAIN approvals = Plans
  /\ DOMAIN callers = Callers /\ \A c \in Callers : CallerShape(callers[c])

LEMMA RecordStep == RecordShape /\ [Next]_vars => RecordShape'
<1> SUFFICES ASSUME RecordShape, [Next]_vars PROVE RecordShape'
  OBVIOUS
<1> USE DEF RecordShape, CallerShape
<1>1. CASE UNCHANGED vars
  BY <1>1 DEF vars, record, process
<1>2. ASSUME NEW c \in Callers, ClaimPlanning(c) PROVE RecordShape'
  BY <1>2 DEF ClaimPlanning, Arrives, Holding, Idle, record, process
<1>3. ASSUME NEW c \in Callers, BeginPlanning(c) PROVE RecordShape'
  BY <1>3 DEF BeginPlanning, At, Goto, Moved, record, process
<1>4. ASSUME NEW c \in Callers, GeneratePlan(c) PROVE RecordShape'
  BY <1>4 DEF GeneratePlan, At, Arrives, Goto, Holding, Idle, record, process
<1>5. ASSUME NEW c \in Callers, AttachPlan(c) PROVE RecordShape'
  BY ZenonT(40), <1>5 DEF AttachPlan, At, Holding, Idle, record, process
<1>6. ASSUME NEW c \in Callers, ReplacePlan(c) PROVE RecordShape'
  BY <1>6 DEF ReplacePlan, At, Holding, Idle, record, process
<1>7. ASSUME NEW c \in Callers, RequireReapproval(c) PROVE RecordShape'
  BY ZenonT(40), <1>7 DEF RequireReapproval, At, NextOrRelease, Goto, Holding, Idle, MovedIfAllowed, Moved,
       record, process
<1>8. ASSUME NEW c \in Callers, FinishPlanning(c) PROVE RecordShape'
  BY <1>8 DEF FinishPlanning, At, Moved, Holding, Idle, record, process
<1>9. ASSUME NEW c \in Callers, ReleasePlanning(c) PROVE RecordShape'
  BY <1>9 DEF ReleasePlanning, At, Returns, Idle, record, process
<1>10. ASSUME NEW c \in Callers, ReviewPlan(c) PROVE RecordShape'
  BY <1>10 DEF ReviewPlan, Arrives, Holding, Idle, record, process
<1>11. ASSUME NEW c \in Callers, AttachApproval(c) PROVE RecordShape'
  BY <1>11 DEF AttachApproval, At, Returns, Holding, Idle, record, process
<1>12. ASSUME NEW c \in Callers, MoveToApproved(c) PROVE RecordShape'
  BY <1>12 DEF MoveToApproved, At, MovedIfAllowed, Moved, Returns, Idle, record, process
<1>13. ASSUME NEW c \in Callers, ReadForCancel(c) PROVE RecordShape'
  BY <1>13 DEF ReadForCancel, Arrives, Holding, Idle, record, process
<1>14. ASSUME NEW c \in Callers, FlagCancel(c) PROVE RecordShape'
  BY ZenonT(40), <1>14 DEF FlagCancel, At, Holding, Idle, Returns, record, process
<1>15. ASSUME NEW c \in Callers, MoveToCancelled(c) PROVE RecordShape'
  BY <1>15 DEF MoveToCancelled, At, MovedIfAllowed, Moved, Returns, Idle, record, process
<1>16. ASSUME NEW c \in Callers, ClaimExecution(c) PROVE RecordShape'
  BY <1>16 DEF ClaimExecution, Arrives, Holding, Idle, record, process
<1>17. ASSUME NEW c \in Callers, CreateAttempt(c) PROVE RecordShape'
  BY ZenonT(40), <1>17 DEF CreateAttempt, At, Admitted, Dispatching, Idle, Returns, record, process
<1>18. ASSUME NEW c \in Callers, Dispatch(c) PROVE RecordShape'
  BY ZenonT(40), <1>18 DEF Dispatch, At, Submit, Returns, Idle, FinishAttempts, NextOrReturn, Goto, record,
       process
<1>19. ASSUME NEW c \in Callers, UndoRetry(c) PROVE RecordShape'
  BY <1>19 DEF UndoRetry, At, MovedIfAllowed, Moved, Returns, Idle, record, process
<1>20. ASSUME NEW c \in Callers, InspectInterruption(c) PROVE RecordShape'
  BY <1>20 DEF InspectInterruption, ArrivesAmid, Holding, Idle, record, process
<1>21. ASSUME NEW c \in Callers, MarkRecoveryRequired(c) PROVE RecordShape'
  BY ZenonT(40), <1>21 DEF MarkRecoveryRequired, At, Moved, Goto, NextOrReturn, Returns, Idle, record, process
<1>22. ASSUME NEW c \in Callers, BeginRecoveryAttempt(c) PROVE RecordShape'
  BY ZenonT(40), <1>22 DEF BeginRecoveryAttempt, At, Admitted, Dispatching, Moved, Returns, Idle, record,
       process
<1>23. ASSUME NEW c \in Callers, InspectRollback(c) PROVE RecordShape'
  BY <1>23 DEF InspectRollback, ArrivesAmid, Holding, Idle, record, process
<1>24. ASSUME NEW c \in Callers, BeginRolledBackRetry(c) PROVE RecordShape'
  <2>1. CASE UNCHANGED task /\ UNCHANGED claim /\ Returns(c)
    BY <1>24, <2>1 DEF BeginRolledBackRetry, At, Returns, Idle, process
  <2>2. CASE task' = Moved("executing") /\ Dispatching(c)
             /\ claim' = [claim EXCEPT !.exec = Len(attempts) + 1, !.execLapsed = FALSE]
    BY <1>24, <2>2 DEF BeginRolledBackRetry, At, Dispatching, Moved, Idle, process
  <2> QED BY <1>24, <2>1, <2>2 DEF BeginRolledBackRetry, Admitted
<1>25. ASSUME NEW c \in Callers, InspectFailedValidation(c) PROVE RecordShape'
  BY <1>25 DEF InspectFailedValidation, ArrivesAmid, Reconciles, record, process
<1>26. ASSUME NEW c \in Callers, ResumeFinishedRollback(c) PROVE RecordShape'
  BY <1>26 DEF ResumeFinishedRollback, ArrivesAmid, Reconciles, record, process
<1>27. ASSUME NEW c \in Callers, StartRollback(c) PROVE RecordShape'
  BY <1>27 DEF StartRollback, At, Goto, Returns, Idle, record, process
<1>28. ASSUME NEW c \in Callers, RequireRecovery(c) PROVE RecordShape'
  BY <1>28 DEF RequireRecovery, At, MovedIfAllowed, Moved, NextOrReturn, Goto, Returns, Idle,
       record, process
<1>29. ASSUME NEW c \in Callers, IsolateForRecovery(c) PROVE RecordShape'
  BY <1>29 DEF IsolateForRecovery, At, Goto, Returns, Idle, record, process
<1>30. ASSUME NEW c \in Callers, RestoreBaseline(c) PROVE RecordShape'
  BY <1>30 DEF RestoreBaseline, At, Goto, Returns, Idle, record, process
<1>31. ASSUME NEW c \in Callers, MarkRolledBack(c) PROVE RecordShape'
  BY <1>31 DEF MarkRolledBack, At, Goto, Returns, Idle, record, process
<1>32. ASSUME NEW c \in Callers, FinalizeRollback(c) PROVE RecordShape'
  BY <1>32 DEF FinalizeRollback, At, MovedIfAllowed, Moved, NextOrReturn, Goto, Returns, Idle,
       record, process
<1>33. ASSUME NEW c \in Callers, CleanRolledBack(c) PROVE RecordShape'
  BY <1>33 DEF CleanRolledBack, At, Returns, Idle, record, process
<1>34. ASSUME NEW c \in Callers, InspectFailedRetrySetup(c) PROVE RecordShape'
  BY <1>34 DEF InspectFailedRetrySetup, Arrives, Holding, Idle, record, process
<1>35. ASSUME NEW c \in Callers, ReconcileFailedRetrySetup(c) PROVE RecordShape'
  BY <1>35 DEF ReconcileFailedRetrySetup, At, Moved, Returns, Idle, record, process
<1>36. ASSUME LoadPlan PROVE RecordShape'
  BY <1>36 DEF LoadPlan, WorkerAt, WorkerGoto, Fails, IdleWorker, record, process
<1>37. ASSUME SetUpWorktree PROVE RecordShape'
  BY <1>37 DEF SetUpWorktree, WorkerAt, WorkerGoto, Fails, IdleWorker, record, process
<1>38. ASSUME MarkExecutionStarted PROVE RecordShape'
  BY <1>38 DEF MarkExecutionStarted, WorkerAt, WorkerGoto, Moved, record, process
<1>39. ASSUME Edit PROVE RecordShape'
  BY <1>39 DEF Edit, WorkerAt, Fails, IdleWorker, record, process
<1>40. ASSUME CheckCancelled PROVE RecordShape'
  BY <1>40 DEF CheckCancelled, WorkerAt, record, process
<1>41. ASSUME MarkValidationStarted PROVE RecordShape'
  BY <1>41 DEF MarkValidationStarted, WorkerAt, WorkerGoto, Moved, record, process
<1>42. ASSUME MarkWorktreeValidating PROVE RecordShape'
  BY <1>42 DEF MarkWorktreeValidating, WorkerAt, WorkerGoto, record, process
<1>43. ASSUME Validate PROVE RecordShape'
  BY <1>43 DEF Validate, WorkerAt, Fails, IdleWorker, record, process
<1>44. ASSUME ImportValidation PROVE RecordShape'
  BY <1>44 DEF ImportValidation, WorkerAt, WorkerGoto, Advanced, Moved, HistoricalApproval,
       record, process
<1>45. ASSUME Decide PROVE RecordShape'
  BY <1>45 DEF Decide, WorkerAt, Fails, IdleWorker, record, process
<1>46. ASSUME PersistExecution PROVE RecordShape'
  BY <1>46 DEF PersistExecution, WorkerAt, WorkerGoto, Advanced, Moved, HistoricalApproval,
       record, process
<1>47. ASSUME FinalizeHistory PROVE RecordShape'
  <2>1. task' = task \/ \E s : task' = Moved(s)
    BY <1>47 DEF FinalizeHistory
  <2> QED BY <1>47, <2>1 DEF FinalizeHistory, WorkerAt, WorkerGoto, Moved, record, process
<1>48. ASSUME LeaveWorktree PROVE RecordShape'
  BY <1>48 DEF LeaveWorktree, WorkerAt, IdleWorker, record, process
<1>49. ASSUME CompleteFuture PROVE RecordShape'
  BY <1>49 DEF CompleteFuture, WorkerAt, FinishAttempts, IdleWorker, record, process
<1>50. ASSUME LeaseLapses PROVE RecordShape'
  BY <1>50 DEF LeaseLapses, record, process
<1>51. ASSUME ProcessRestarts PROVE RecordShape'
  BY <1>51 DEF ProcessRestarts, IdleWorker, Idle, record, process
<1> QED BY <1>1, <1>2, <1>3, <1>4, <1>5, <1>6, <1>7, <1>8, <1>9, <1>10, <1>11, <1>12, <1>13,
           <1>14, <1>15, <1>16, <1>17, <1>18, <1>19, <1>20, <1>21, <1>22, <1>23, <1>24,
           <1>25, <1>26, <1>27, <1>28, <1>29, <1>30, <1>31, <1>32, <1>33, <1>34, <1>35,
           <1>36, <1>37, <1>38, <1>39, <1>40, <1>41, <1>42, <1>43, <1>44, <1>45, <1>46,
           <1>47, <1>48, <1>49, <1>50, <1>51
        DEF Next, Planning, Approval, Cancellation, Execution, Recovery, Retry,
            Reconciliation, Worker

















-----------------------------------------------------------------------------
(* Which steps touch the attempts, their futures and the claim on them.     *)

(* No attempt, future or claim changes, and no request comes to dispatch.   *)
Untouched ==
  /\ UNCHANGED <<attempts, jobs, spent.expired>>
  /\ claim'.exec = claim.exec /\ claim'.execLapsed = claim.execLapsed
  /\ worker.pc = "idle" => worker'.pc = "idle" \/ jobs # << >>
  /\ \A d \in Callers : callers'[d].pc = "dispatch" =>
        callers[d].pc = "dispatch" /\ callers'[d].attempt = callers[d].attempt

Admissions(c) ==
  ClaimExecution(c) \/ CreateAttempt(c) \/ Dispatch(c) \/ MarkRecoveryRequired(c)
  \/ BeginRecoveryAttempt(c) \/ BeginRolledBackRetry(c) \/ ReconcileFailedRetrySetup(c)

Disturbs ==
  \/ \E c \in Callers : Admissions(c)
  \/ ImportValidation \/ PersistExecution \/ CompleteFuture
  \/ LeaseLapses \/ ProcessRestarts

(* Every other step leaves them alone.                                      *)
LEMMA QuietSteps == RecordShape /\ [Next]_vars => Untouched \/ Disturbs
<1> SUFFICES ASSUME RecordShape, [Next]_vars PROVE Untouched \/ Disturbs
  OBVIOUS
<1> USE DEF RecordShape, CallerShape
<1>1. CASE UNCHANGED vars
  BY <1>1 DEF vars, record, process, Untouched
<1>2. ASSUME NEW c \in Callers, ClaimPlanning(c) PROVE Untouched \/ Disturbs
  BY <1>2 DEF ClaimPlanning, Arrives, Holding, Idle, record, process, Untouched
<1>3. ASSUME NEW c \in Callers, BeginPlanning(c) PROVE Untouched \/ Disturbs
  BY <1>3 DEF BeginPlanning, At, Goto, Moved, record, process, Untouched
<1>4. ASSUME NEW c \in Callers, GeneratePlan(c) PROVE Untouched \/ Disturbs
  <2>1. \E q : q.pc # "dispatch" /\ callers' = [callers EXCEPT ![c] = q]
    BY <1>4 DEF GeneratePlan, At, Arrives, Goto, Holding, Idle, record, process
  <2>2. PICK q : q.pc # "dispatch" /\ callers' = [callers EXCEPT ![c] = q]
    BY <2>1
  <2>3. \A d \in Callers : callers'[d].pc = "dispatch" =>
                callers[d].pc = "dispatch" /\ callers'[d] = callers[d]
    BY <2>2
  <2>4. UNCHANGED <<attempts, jobs, claim, worker>> /\ spent'.expired = spent.expired
    BY <1>4 DEF GeneratePlan, At, Arrives, Goto, Holding, Idle, record, process
  <2> QED BY <2>3, <2>4 DEF Untouched
<1>5. ASSUME NEW c \in Callers, AttachPlan(c) PROVE Untouched \/ Disturbs
  <2>1. \E q : q.pc # "dispatch" /\ callers' = [callers EXCEPT ![c] = q]
    BY <1>5 DEF AttachPlan, At, Holding, Idle, record, process
  <2>2. PICK q : q.pc # "dispatch" /\ callers' = [callers EXCEPT ![c] = q]
    BY <2>1
  <2>3. \A d \in Callers : callers'[d].pc = "dispatch" =>
                callers[d].pc = "dispatch" /\ callers'[d] = callers[d]
    BY <2>2
  <2>4. UNCHANGED <<attempts, jobs, claim, worker>> /\ spent'.expired = spent.expired
    BY <1>5 DEF AttachPlan, At, Holding, Idle, record, process
  <2> QED BY <2>3, <2>4 DEF Untouched
<1>6. ASSUME NEW c \in Callers, ReplacePlan(c) PROVE Untouched \/ Disturbs
  BY <1>6 DEF ReplacePlan, At, Holding, Idle, record, process, Untouched
<1>7. ASSUME NEW c \in Callers, RequireReapproval(c) PROVE Untouched \/ Disturbs
  <2>1. \E q : q.pc # "dispatch" /\ callers' = [callers EXCEPT ![c] = q]
    BY <1>7 DEF RequireReapproval, At, NextOrRelease, Goto, Holding, Idle, MovedIfAllowed, Moved,
         record, process
  <2>2. PICK q : q.pc # "dispatch" /\ callers' = [callers EXCEPT ![c] = q]
    BY <2>1
  <2>3. \A d \in Callers : callers'[d].pc = "dispatch" =>
                callers[d].pc = "dispatch" /\ callers'[d] = callers[d]
    BY <2>2
  <2>4. UNCHANGED <<attempts, jobs, claim, worker>> /\ spent'.expired = spent.expired
    BY <1>7 DEF RequireReapproval, At, NextOrRelease, Goto, Holding, Idle, MovedIfAllowed, Moved,
         record, process
  <2> QED BY <2>3, <2>4 DEF Untouched
<1>8. ASSUME NEW c \in Callers, FinishPlanning(c) PROVE Untouched \/ Disturbs
  BY <1>8 DEF FinishPlanning, At, Moved, Holding, Idle, record, process, Untouched
<1>9. ASSUME NEW c \in Callers, ReleasePlanning(c) PROVE Untouched \/ Disturbs
  BY <1>9 DEF ReleasePlanning, At, Returns, Idle, record, process, Untouched
<1>10. ASSUME NEW c \in Callers, ReviewPlan(c) PROVE Untouched \/ Disturbs
  BY <1>10 DEF ReviewPlan, Arrives, Holding, Idle, record, process, Untouched
<1>11. ASSUME NEW c \in Callers, AttachApproval(c) PROVE Untouched \/ Disturbs
  <2>1. \E q : q.pc # "dispatch" /\ callers' = [callers EXCEPT ![c] = q]
    BY <1>11 DEF AttachApproval, At, Returns, Holding, Idle, record, process
  <2>2. PICK q : q.pc # "dispatch" /\ callers' = [callers EXCEPT ![c] = q]
    BY <2>1
  <2>3. \A d \in Callers : callers'[d].pc = "dispatch" =>
                callers[d].pc = "dispatch" /\ callers'[d] = callers[d]
    BY <2>2
  <2>4. UNCHANGED <<attempts, jobs, claim, worker>> /\ spent'.expired = spent.expired
    BY <1>11 DEF AttachApproval, At, Returns, Holding, Idle, record, process
  <2> QED BY <2>3, <2>4 DEF Untouched
<1>12. ASSUME NEW c \in Callers, MoveToApproved(c) PROVE Untouched \/ Disturbs
  BY <1>12 DEF MoveToApproved, At, MovedIfAllowed, Moved, Returns, Idle, record, process, Untouched
<1>13. ASSUME NEW c \in Callers, ReadForCancel(c) PROVE Untouched \/ Disturbs
  BY <1>13 DEF ReadForCancel, Arrives, Holding, Idle, record, process, Untouched
<1>14. ASSUME NEW c \in Callers, FlagCancel(c) PROVE Untouched \/ Disturbs
  <2>1. \E q : q.pc # "dispatch" /\ callers' = [callers EXCEPT ![c] = q]
    BY <1>14 DEF FlagCancel, At, Holding, Idle, Returns, record, process
  <2>2. PICK q : q.pc # "dispatch" /\ callers' = [callers EXCEPT ![c] = q]
    BY <2>1
  <2>3. \A d \in Callers : callers'[d].pc = "dispatch" =>
                callers[d].pc = "dispatch" /\ callers'[d] = callers[d]
    BY <2>2
  <2>4. UNCHANGED <<attempts, jobs, claim, worker>> /\ spent'.expired = spent.expired
    BY <1>14 DEF FlagCancel, At, Holding, Idle, Returns, record, process
  <2> QED BY <2>3, <2>4 DEF Untouched
<1>15. ASSUME NEW c \in Callers, MoveToCancelled(c) PROVE Untouched \/ Disturbs
  BY <1>15 DEF MoveToCancelled, At, MovedIfAllowed, Moved, Returns, Idle, record, process, Untouched
<1>16. ASSUME NEW c \in Callers, ClaimExecution(c) PROVE Untouched \/ Disturbs
  BY <1>16 DEF Disturbs, Admissions
<1>17. ASSUME NEW c \in Callers, CreateAttempt(c) PROVE Untouched \/ Disturbs
  BY <1>17 DEF Disturbs, Admissions
<1>18. ASSUME NEW c \in Callers, Dispatch(c) PROVE Untouched \/ Disturbs
  BY <1>18 DEF Disturbs, Admissions
<1>19. ASSUME NEW c \in Callers, UndoRetry(c) PROVE Untouched \/ Disturbs
  BY <1>19 DEF UndoRetry, At, MovedIfAllowed, Moved, Returns, Idle, record, process, Untouched
<1>20. ASSUME NEW c \in Callers, InspectInterruption(c) PROVE Untouched \/ Disturbs
  BY <1>20 DEF InspectInterruption, ArrivesAmid, Holding, Idle, record, process, Untouched
<1>21. ASSUME NEW c \in Callers, MarkRecoveryRequired(c) PROVE Untouched \/ Disturbs
  BY <1>21 DEF Disturbs, Admissions
<1>22. ASSUME NEW c \in Callers, BeginRecoveryAttempt(c) PROVE Untouched \/ Disturbs
  BY <1>22 DEF Disturbs, Admissions
<1>23. ASSUME NEW c \in Callers, InspectRollback(c) PROVE Untouched \/ Disturbs
  BY <1>23 DEF InspectRollback, ArrivesAmid, Holding, Idle, record, process, Untouched
<1>24. ASSUME NEW c \in Callers, BeginRolledBackRetry(c) PROVE Untouched \/ Disturbs
  BY <1>24 DEF Disturbs, Admissions
<1>25. ASSUME NEW c \in Callers, InspectFailedValidation(c) PROVE Untouched \/ Disturbs
  BY <1>25 DEF InspectFailedValidation, ArrivesAmid, Reconciles, record, process, Untouched
<1>26. ASSUME NEW c \in Callers, ResumeFinishedRollback(c) PROVE Untouched \/ Disturbs
  BY <1>26 DEF ResumeFinishedRollback, ArrivesAmid, Reconciles, record, process, Untouched
<1>27. ASSUME NEW c \in Callers, StartRollback(c) PROVE Untouched \/ Disturbs
  BY <1>27 DEF StartRollback, At, Goto, Returns, Idle, record, process, Untouched
<1>28. ASSUME NEW c \in Callers, RequireRecovery(c) PROVE Untouched \/ Disturbs
  BY <1>28 DEF RequireRecovery, At, MovedIfAllowed, Moved, NextOrReturn, Goto, Returns, Idle,
       record, process, Untouched
<1>29. ASSUME NEW c \in Callers, IsolateForRecovery(c) PROVE Untouched \/ Disturbs
  BY <1>29 DEF IsolateForRecovery, At, Goto, Returns, Idle, record, process, Untouched
<1>30. ASSUME NEW c \in Callers, RestoreBaseline(c) PROVE Untouched \/ Disturbs
  BY <1>30 DEF RestoreBaseline, At, Goto, Returns, Idle, record, process, Untouched
<1>31. ASSUME NEW c \in Callers, MarkRolledBack(c) PROVE Untouched \/ Disturbs
  BY <1>31 DEF MarkRolledBack, At, Goto, Returns, Idle, record, process, Untouched
<1>32. ASSUME NEW c \in Callers, FinalizeRollback(c) PROVE Untouched \/ Disturbs
  BY <1>32 DEF FinalizeRollback, At, MovedIfAllowed, Moved, NextOrReturn, Goto, Returns, Idle,
       record, process, Untouched
<1>33. ASSUME NEW c \in Callers, CleanRolledBack(c) PROVE Untouched \/ Disturbs
  BY <1>33 DEF CleanRolledBack, At, Returns, Idle, record, process, Untouched
<1>34. ASSUME NEW c \in Callers, InspectFailedRetrySetup(c) PROVE Untouched \/ Disturbs
  BY <1>34 DEF InspectFailedRetrySetup, Arrives, Holding, Idle, record, process, Untouched
<1>35. ASSUME NEW c \in Callers, ReconcileFailedRetrySetup(c) PROVE Untouched \/ Disturbs
  BY <1>35 DEF Disturbs, Admissions
<1>36. ASSUME LoadPlan PROVE Untouched \/ Disturbs
  BY <1>36 DEF LoadPlan, WorkerAt, WorkerGoto, Fails, IdleWorker, record, process, Untouched
<1>37. ASSUME SetUpWorktree PROVE Untouched \/ Disturbs
  BY <1>37 DEF SetUpWorktree, WorkerAt, WorkerGoto, Fails, IdleWorker, record, process, Untouched
<1>38. ASSUME MarkExecutionStarted PROVE Untouched \/ Disturbs
  BY <1>38 DEF MarkExecutionStarted, WorkerAt, WorkerGoto, Moved, record, process, Untouched
<1>39. ASSUME Edit PROVE Untouched \/ Disturbs
  BY <1>39 DEF Edit, WorkerAt, Fails, IdleWorker, record, process, Untouched
<1>40. ASSUME CheckCancelled PROVE Untouched \/ Disturbs
  BY <1>40 DEF CheckCancelled, WorkerAt, record, process, Untouched
<1>41. ASSUME MarkValidationStarted PROVE Untouched \/ Disturbs
  BY <1>41 DEF MarkValidationStarted, WorkerAt, WorkerGoto, Moved, record, process, Untouched
<1>42. ASSUME MarkWorktreeValidating PROVE Untouched \/ Disturbs
  BY <1>42 DEF MarkWorktreeValidating, WorkerAt, WorkerGoto, record, process, Untouched
<1>43. ASSUME Validate PROVE Untouched \/ Disturbs
  BY <1>43 DEF Validate, WorkerAt, Fails, IdleWorker, record, process, Untouched
<1>44. ASSUME ImportValidation PROVE Untouched \/ Disturbs
  BY <1>44 DEF Disturbs
<1>45. ASSUME Decide PROVE Untouched \/ Disturbs
  BY <1>45 DEF Decide, WorkerAt, Fails, IdleWorker, record, process, Untouched
<1>46. ASSUME PersistExecution PROVE Untouched \/ Disturbs
  BY <1>46 DEF Disturbs
<1>47. ASSUME FinalizeHistory PROVE Untouched \/ Disturbs
  BY <1>47 DEF FinalizeHistory, WorkerAt, WorkerGoto, Moved, record, process, Untouched
<1>48. ASSUME LeaveWorktree PROVE Untouched \/ Disturbs
  BY <1>48 DEF LeaveWorktree, WorkerAt, IdleWorker, record, process, Untouched
<1>49. ASSUME CompleteFuture PROVE Untouched \/ Disturbs
  BY <1>49 DEF Disturbs
<1>50. ASSUME LeaseLapses PROVE Untouched \/ Disturbs
  BY <1>50 DEF Disturbs
<1>51. ASSUME ProcessRestarts PROVE Untouched \/ Disturbs
  BY <1>51 DEF Disturbs
<1> QED BY <1>1, <1>2, <1>3, <1>4, <1>5, <1>6, <1>7, <1>8, <1>9, <1>10, <1>11, <1>12, <1>13,
           <1>14, <1>15, <1>16, <1>17, <1>18, <1>19, <1>20, <1>21, <1>22, <1>23, <1>24,
           <1>25, <1>26, <1>27, <1>28, <1>29, <1>30, <1>31, <1>32, <1>33, <1>34, <1>35,
           <1>36, <1>37, <1>38, <1>39, <1>40, <1>41, <1>42, <1>43, <1>44, <1>45, <1>46,
           <1>47, <1>48, <1>49, <1>50, <1>51
        DEF Next, Planning, Approval, Cancellation, Execution, Recovery, Retry,
            Reconciliation, Worker

-----------------------------------------------------------------------------
(* Attempts are only added and closed; futures and claims name them.        *)

AttemptFields ==
  {"kind", "state", "plan", "key", "exec", "valid", "artifact", "reconciled"}

AttemptRows == IsSeq(attempts) /\ \A i \in DOMAIN attempts : DOMAIN attempts[i] = AttemptFields

FutureRows ==
  /\ IsSeq(jobs)
  /\ \A n \in DOMAIN jobs : /\ DOMAIN jobs[n] = {"attempt", "calls"}
                            /\ jobs[n].attempt \in DOMAIN attempts
                            /\ jobs[n].calls \subseteq DOMAIN attempts
  /\ worker.pc # "idle" => jobs # << >>

NamedAttempts ==
  /\ \A c \in Callers : callers[c].pc = "dispatch" => callers[c].attempt \in DOMAIN attempts
  /\ claim.exec \in Nat => claim.exec \in DOMAIN attempts

Rows == RecordShape /\ AttemptRows /\ FutureRows /\ NamedAttempts

AttemptsGrow ==
  /\ DOMAIN attempts \subseteq DOMAIN attempts'
  /\ \A i \in DOMAIN attempts : attempts'[i].plan = attempts[i].plan

LEMMA AttemptAdded ==
  ASSUME AttemptRows, NEW kind, NEW p, NEW k, Admitted(kind, p, k)
  PROVE  /\ AttemptRows' /\ AttemptsGrow
         /\ Len(attempts) + 1 \in DOMAIN attempts' /\ Len(attempts) \in Nat
         /\ attempts'[Len(attempts) + 1].state = "running"
         /\ \A i \in DOMAIN attempts : attempts'[i] = attempts[i]
<1> DEFINE a == NewAttempt(kind, p, k)
<1>1. attempts' = Append(attempts, a) BY DEF Admitted
<1>2. DOMAIN a = AttemptFields /\ a.state = "running" BY DEF NewAttempt, AttemptFields
<1> HIDE DEF a
<1>3. IsSeq(attempts) BY DEF AttemptRows
<1>4. /\ IsSeq(attempts') /\ Len(attempts) \in Nat /\ DOMAIN attempts = 1..Len(attempts)
      /\ DOMAIN attempts' = 1..(Len(attempts) + 1)
      /\ \A i \in DOMAIN attempts : attempts'[i] = attempts[i]
      /\ attempts'[Len(attempts) + 1] = a
  BY <1>1, <1>3, SeqGrows
<1>5. \A i \in DOMAIN attempts' : i \in DOMAIN attempts \/ i = Len(attempts) + 1
  BY <1>4
<1>6. \A i \in DOMAIN attempts' : DOMAIN attempts'[i] = AttemptFields
  BY <1>2, <1>4, <1>5 DEF AttemptRows
<1>7. Len(attempts) + 1 \in DOMAIN attempts' /\ DOMAIN attempts \subseteq DOMAIN attempts'
  BY <1>4
<1> QED BY <1>2, <1>4, <1>6, <1>7 DEF AttemptRows, AttemptsGrow

LEMMA AttemptsFinished ==
  ASSUME AttemptRows, NEW S, NEW failed, FinishAttempts(S, failed)
  PROVE  /\ AttemptRows' /\ AttemptsGrow /\ DOMAIN attempts' = DOMAIN attempts
         /\ \A i \in DOMAIN attempts : i \notin Unfinished(S) => attempts'[i] = attempts[i]
<1>1. /\ DOMAIN attempts' = DOMAIN attempts
      /\ attempts' = [i \in DOMAIN attempts' |-> attempts'[i]]
  BY DEF FinishAttempts
<1>2. IsSeq(attempts') BY <1>1, SeqRedrawn DEF AttemptRows
<1>3. \A i \in DOMAIN attempts : \/ attempts'[i] = attempts[i]
                                 \/ \E s : attempts'[i] = [attempts[i] EXCEPT !.state = s]
  BY DEF FinishAttempts
<1>4. \A i \in DOMAIN attempts : DOMAIN attempts'[i] = AttemptFields
  BY <1>3 DEF AttemptRows
<1>5. \A i \in DOMAIN attempts : attempts'[i].plan = attempts[i].plan
  BY <1>3 DEF AttemptRows, AttemptFields
<1>6. \A i \in DOMAIN attempts : i \notin Unfinished(S) => attempts'[i] = attempts[i]
  BY DEF FinishAttempts
<1> QED BY <1>1, <1>2, <1>4, <1>5, <1>6 DEF AttemptRows, AttemptsGrow

(* A report, or a reconciliation, rewrites one row but not its plan or      *)
(* state.                                                                   *)
LEMMA AttemptRedrawn ==
  ASSUME AttemptRows, NEW j, NEW r, attempts' = [attempts EXCEPT ![j] = r],
         j \in DOMAIN attempts =>
           DOMAIN r = AttemptFields /\ r.plan = attempts[j].plan /\ r.state = attempts[j].state
  PROVE  /\ AttemptRows' /\ AttemptsGrow /\ DOMAIN attempts' = DOMAIN attempts
         /\ \A i \in DOMAIN attempts : attempts'[i].state = attempts[i].state
<1>1. /\ DOMAIN attempts' = DOMAIN attempts
      /\ attempts' = [i \in DOMAIN attempts' |-> attempts'[i]]
      /\ \A i \in DOMAIN attempts : attempts'[i] = IF i = j THEN r ELSE attempts[i]
  OBVIOUS
<1>2. IsSeq(attempts') BY <1>1, SeqRedrawn DEF AttemptRows
<1> QED BY <1>1, <1>2 DEF AttemptRows, AttemptsGrow

LEMMA ReportsRedraw ==
  ASSUME Rows, ImportValidation \/ PersistExecution
  PROVE  \E j, r : /\ attempts' = attempts \/ attempts' = [attempts EXCEPT ![j] = r]
                   /\ j \in DOMAIN attempts =>
                        /\ DOMAIN r = AttemptFields
                        /\ r.plan = attempts[j].plan /\ r.state = attempts[j].state
<1>1. \A i \in DOMAIN attempts : DOMAIN attempts[i] = AttemptFields
  BY DEF Rows, AttemptRows
<1>2. CASE attempts' = attempts
  <2>1. Len(attempts) + 1 \notin DOMAIN attempts
    BY SeqIndices DEF Rows, AttemptRows
  <2> QED BY <1>2, <2>1
<1>3. CASE \E v : attempts' = [attempts EXCEPT ![Mine].valid = v]
  <2>1. PICK v : attempts' = [attempts EXCEPT ![Mine].valid = v] BY <1>3
  <2>2. PICK j : j = Mine OBVIOUS
  <2>3. PICK r : r = [attempts[j] EXCEPT !.valid = v] OBVIOUS
  <2>4. attempts' = [attempts EXCEPT ![j] = r] BY <2>1, <2>2, <2>3
  <2>5. DOMAIN r = DOMAIN attempts[j] BY <2>3
  <2>6. j \in DOMAIN attempts => r.plan = attempts[j].plan /\ r.state = attempts[j].state
    BY <1>1, <2>3 DEF AttemptFields
  <2> QED BY <1>1, <2>4, <2>5, <2>6
<1>4. CASE attempts' = [attempts EXCEPT
               ![Mine].exec = worker.outcome,
               ![Mine].artifact = @ \/ attempts[Mine].state = "running"]
  <2>1. PICK j : j = Mine OBVIOUS
  <2>2. PICK r : r = [[attempts[j] EXCEPT !.exec = worker.outcome] EXCEPT
                        !.artifact = @ \/ attempts[j].state = "running"]
    OBVIOUS
  <2>3. attempts' = [attempts EXCEPT ![j] = r] BY <1>4, <2>1, <2>2
  <2>4. j \in DOMAIN attempts => r.plan = attempts[j].plan /\ r.state = attempts[j].state
    BY <1>1, <2>2 DEF AttemptFields
  <2>5. DOMAIN r = DOMAIN attempts[j] BY <2>2
  <2> QED BY <1>1, <2>3, <2>4, <2>5
<1> QED BY <1>2, <1>3, <1>4 DEF ImportValidation, PersistExecution

LEMMA AttemptsStep ==
  Rows /\ [Next]_vars => AttemptRows' /\ AttemptsGrow
<1> SUFFICES ASSUME Rows, [Next]_vars PROVE AttemptRows' /\ AttemptsGrow
  OBVIOUS
<1> USE DEF Rows
<1>1. CASE UNCHANGED attempts
  BY <1>1 DEF AttemptRows, AttemptsGrow
<1>2. ASSUME NEW kind, NEW p, NEW k, Admitted(kind, p, k) PROVE AttemptRows' /\ AttemptsGrow
  BY <1>2, AttemptAdded
<1>3. ASSUME NEW S, NEW failed, FinishAttempts(S, failed) PROVE AttemptRows' /\ AttemptsGrow
  BY <1>3, AttemptsFinished
<1>4. CASE ImportValidation \/ PersistExecution
  <2>1. PICK j, r : /\ attempts' = attempts \/ attempts' = [attempts EXCEPT ![j] = r]
                    /\ j \in DOMAIN attempts =>
                         /\ DOMAIN r = AttemptFields
                         /\ r.plan = attempts[j].plan /\ r.state = attempts[j].state
    BY <1>4, ReportsRedraw
  <2> QED BY <1>1, <2>1, AttemptRedrawn
<1>5. CASE attempts' = [attempts EXCEPT ![Len(attempts)].reconciled = TRUE]
  <2>1. PICK j : j = Len(attempts) OBVIOUS
  <2>2. PICK r : r = [attempts[j] EXCEPT !.reconciled = TRUE] OBVIOUS
  <2>3. attempts' = [attempts EXCEPT ![j] = r] BY <1>5, <2>1, <2>2
  <2>4. j \in DOMAIN attempts =>
          DOMAIN r = AttemptFields /\ r.plan = attempts[j].plan /\ r.state = attempts[j].state
    BY <2>2 DEF AttemptRows, AttemptFields
  <2> QED BY <2>3, <2>4, AttemptRedrawn
<1>6. CASE CompleteFuture
  <2>1. PICK S, failed : S = jobs[1].calls /\ failed = ~worker.ok OBVIOUS
  <2>2. FinishAttempts(S, failed) BY <1>6, <2>1 DEF CompleteFuture
  <2> QED BY <1>3, <2>2
<1>7. ASSUME NEW c \in Callers, Dispatch(c) PROVE AttemptRows' /\ AttemptsGrow
  <2>1. PICK i : i = callers[c].attempt OBVIOUS
  <2>2. UNCHANGED attempts \/ FinishAttempts({i}, TRUE) BY <1>7, <2>1 DEF Dispatch
  <2> QED BY <1>1, <1>3, <2>2
<1>8. ASSUME NEW c \in Callers,
             CreateAttempt(c) \/ BeginRecoveryAttempt(c) \/ BeginRolledBackRetry(c)
      PROVE  AttemptRows' /\ AttemptsGrow
  <2>1. PICK p, k : p = callers[c].plan /\ k = callers[c].key OBVIOUS
  <2>2. \/ UNCHANGED attempts \/ Admitted("initial", p, None)
        \/ Admitted("recovery", p, k) \/ Admitted("retry", p, k)
    BY <1>8, <2>1 DEF CreateAttempt, BeginRecoveryAttempt, BeginRolledBackRetry
  <2> QED BY <1>1, <1>2, <2>2
<1>9. ASSUME NEW c \in Callers, ClaimExecution(c) \/ MarkRecoveryRequired(c)
      PROVE  UNCHANGED attempts
  BY <1>9 DEF ClaimExecution, MarkRecoveryRequired
<1>10. ASSUME NEW c \in Callers, ReconcileFailedRetrySetup(c)
       PROVE  \/ UNCHANGED attempts
              \/ attempts' = [attempts EXCEPT ![Len(attempts)].reconciled = TRUE]
  BY <1>10 DEF ReconcileFailedRetrySetup
<1>11. CASE LeaseLapses \/ ProcessRestarts
  BY <1>1, <1>11 DEF LeaseLapses, ProcessRestarts
<1>12. CASE Untouched
  BY <1>1, <1>12 DEF Untouched
<1> QED BY <1>1, <1>4, <1>5, <1>6, <1>7, <1>8, <1>9, <1>10, <1>11, <1>12, QuietSteps
        DEF Disturbs, Admissions

LEMMA SubmitShape ==
  ASSUME Rows, NEW i, i \in DOMAIN attempts, Submit(i), AttemptsGrow
  PROVE  /\ IsSeq(jobs') /\ jobs' # << >>
         /\ \A n \in DOMAIN jobs' : /\ DOMAIN jobs'[n] = {"attempt", "calls"}
                                    /\ jobs'[n].attempt \in DOMAIN attempts'
                                    /\ jobs'[n].calls \subseteq DOMAIN attempts'
         /\ jobs # << >> => jobs'[1].attempt = jobs[1].attempt
         /\ jobs = << >> => Len(jobs') = 1 /\ jobs'[1].calls = {i}
<1> USE DEF Rows, FutureRows
<1>1. Len(jobs) \in Nat /\ DOMAIN jobs = 1..Len(jobs) /\ (jobs = << >> <=> Len(jobs) = 0)
  BY SeqIndices, EmptySeq DEF IsSeq
<1>2. CASE \E n \in DOMAIN jobs :
              jobs' = [m \in DOMAIN jobs |-> IF m = Len(jobs)
                                             THEN [jobs[m] EXCEPT !.calls = @ \cup {i}]
                                             ELSE jobs[m]]
  <2>1. /\ DOMAIN jobs' = DOMAIN jobs /\ jobs' = [n \in DOMAIN jobs' |-> jobs'[n]]
        /\ jobs # << >>
    BY <1>1, <1>2
  <2>2. IsSeq(jobs') /\ Len(jobs') = Len(jobs) BY <2>1, SeqRedrawn
  <2>3. \A n \in DOMAIN jobs : \/ jobs'[n] = jobs[n]
                               \/ jobs'[n] = [jobs[n] EXCEPT !.calls = @ \cup {i}]
    BY <1>2
  <2>4. \A n \in DOMAIN jobs : DOMAIN jobs'[n] = {"attempt", "calls"}
    BY <2>3
  <2>5. \A n \in DOMAIN jobs : jobs'[n].attempt = jobs[n].attempt
    BY <2>3
  <2>6. \A n \in DOMAIN jobs : jobs'[n].calls \subseteq jobs[n].calls \cup {i}
    BY <2>3
  <2>7. 1 \in DOMAIN jobs BY <1>1, <2>1
  <2>8. Len(jobs') # 0 BY <1>1, <2>1, <2>2
  <2>9. jobs' # << >> BY <2>8
  <2> QED BY <2>1, <2>2, <2>4, <2>5, <2>6, <2>7, <2>9 DEF AttemptsGrow
<1>3. CASE jobs' = Append(jobs, [attempt |-> i, calls |-> {i}])
  <2>1. PICK e : e = [attempt |-> i, calls |-> {i}] OBVIOUS
  <2>2. /\ IsSeq(jobs') /\ Len(jobs') = Len(jobs) + 1
        /\ DOMAIN jobs' = 1..(Len(jobs) + 1)
        /\ \A n \in DOMAIN jobs : jobs'[n] = jobs[n]
        /\ jobs'[Len(jobs) + 1] = e
    BY <1>3, <2>1, SeqGrows
  <2>3. \A n \in DOMAIN jobs' : n \in DOMAIN jobs \/ n = Len(jobs) + 1
    BY <1>1, <2>2
  <2>4. DOMAIN e = {"attempt", "calls"} /\ e.attempt = i /\ e.calls = {i}
    BY <2>1
  <2>5. Len(jobs') # 0 BY <1>1, <2>2
  <2>6. jobs' # << >> BY <2>5
  <2>7. jobs # << >> => 1 \in DOMAIN jobs BY <1>1
  <2> QED BY <1>1, <2>2, <2>3, <2>4, <2>6, <2>7 DEF AttemptsGrow
<1> QED BY <1>2, <1>3 DEF Submit

(* The worker's future stays the oldest one until it is done.               *)
FutureStays == jobs' # << >> /\ jobs'[1].attempt = jobs[1].attempt

LEMMA FuturesStep ==
  Rows /\ [Next]_vars =>
    /\ FutureRows'
    /\ (jobs # << >> => FutureStays \/ worker'.pc = "idle")
<1> SUFFICES ASSUME Rows, [Next]_vars
             PROVE  FutureRows' /\ (jobs # << >> => FutureStays \/ worker'.pc = "idle")
  OBVIOUS
<1>1. AttemptRows' /\ AttemptsGrow BY AttemptsStep
<1> USE DEF Rows, FutureRows
<1>2. CASE UNCHANGED jobs /\ (worker.pc = "idle" => worker'.pc = "idle" \/ jobs # << >>)
  BY <1>1, <1>2 DEF AttemptsGrow, FutureStays
<1>3. ASSUME NEW c \in Callers, Dispatch(c), ~UNCHANGED jobs
      PROVE  FutureRows' /\ (jobs # << >> => FutureStays \/ worker'.pc = "idle")
  <2>1. PICK i : i = callers[c].attempt OBVIOUS
  <2>2. i \in DOMAIN attempts BY <1>3, <2>1 DEF Dispatch, At, NamedAttempts
  <2>3. Submit(i) BY <1>3, <2>1 DEF Dispatch
  <2>4. /\ IsSeq(jobs') /\ jobs' # << >>
        /\ \A n \in DOMAIN jobs' : /\ DOMAIN jobs'[n] = {"attempt", "calls"}
                                   /\ jobs'[n].attempt \in DOMAIN attempts'
                                   /\ jobs'[n].calls \subseteq DOMAIN attempts'
        /\ jobs # << >> => jobs'[1].attempt = jobs[1].attempt
    BY <1>1, <2>2, <2>3, SubmitShape
  <2> QED BY <2>4 DEF FutureStays
<1>4. CASE CompleteFuture
  <2>1. /\ jobs # << >> /\ jobs' = Tail(jobs) /\ worker'.pc = "idle"
    BY <1>4 DEF CompleteFuture, WorkerAt, IdleWorker
  <2>2. /\ IsSeq(jobs')
        /\ \A n \in DOMAIN jobs' : n + 1 \in DOMAIN jobs /\ jobs'[n] = jobs[n + 1]
    BY <2>1, SeqTail
  <2> QED BY <1>1, <2>1, <2>2 DEF AttemptsGrow
<1>5. CASE ProcessRestarts
  <2>1. jobs' = << >> /\ worker'.pc = "idle" BY <1>5 DEF ProcessRestarts, IdleWorker
  <2>2. << >> \in Seq({}) /\ DOMAIN << >> = {} BY EmptySeq, LenProperties
  <2> QED BY <2>1, <2>2 DEF IsSeq
<1>6. ASSUME ~CompleteFuture, ~ProcessRestarts, \A c \in Callers : ~Dispatch(c)
      PROVE  UNCHANGED jobs /\ (worker.pc = "idle" => worker'.pc = "idle" \/ jobs # << >>)
  <2>1. CASE Untouched BY <2>1 DEF Untouched
  <2>2. CASE ImportValidation \/ PersistExecution
    BY <2>2 DEF ImportValidation, PersistExecution, WorkerAt
  <2>3. CASE LeaseLapses BY <2>3 DEF LeaseLapses, process
  <2>4. ASSUME NEW c \in Callers, Admissions(c) PROVE UNCHANGED <<jobs, worker>>
    BY <1>6, <2>4 DEF Admissions, ClaimExecution, CreateAttempt, MarkRecoveryRequired,
         BeginRecoveryAttempt, BeginRolledBackRetry, ReconcileFailedRetrySetup, process
  <2> QED BY <1>6, <2>1, <2>2, <2>3, <2>4, QuietSteps DEF Disturbs
<1>7. ASSUME NEW c \in Callers, Dispatch(c) PROVE UNCHANGED worker
  BY <1>7 DEF Dispatch
<1> QED BY <1>2, <1>3, <1>4, <1>5, <1>6, <1>7

-----------------------------------------------------------------------------
(* The claim: it is held by the attempt that is dispatched or runs.         *)

Dispatches(c) == callers[c].pc = "dispatch"

ClaimHeld ==
  /\ ~claim.execLapsed
  /\ claim.exec \in DOMAIN attempts => attempts[claim.exec].state = "running"
  /\ \A c \in Callers : Dispatches(c) => claim.exec = callers[c].attempt /\ jobs = << >>
  /\ \A c, d \in Callers : Dispatches(c) /\ Dispatches(d) => c = d
  /\ jobs # << >> => Len(jobs) = 1 /\ claim.exec \in jobs[1].calls

ClaimInvariant == Rows /\ (~spent.expired => ClaimHeld)

(* With no claim, nothing is dispatched and nothing runs.                   *)
LEMMA NoClaimNoFuture ==
  ASSUME Rows, ClaimHeld, claim.exec \notin DOMAIN attempts
  PROVE  jobs = << >> /\ \A c \in Callers : ~Dispatches(c)
<1>1. ASSUME jobs # << >> PROVE FALSE
  <2>1. Len(jobs) = 1 /\ DOMAIN jobs = 1..Len(jobs)
    BY <1>1, SeqIndices DEF ClaimHeld, Rows, FutureRows
  <2> QED BY <1>1, <2>1 DEF ClaimHeld, Rows, FutureRows
<1>2. ASSUME NEW c \in Callers, Dispatches(c) PROVE FALSE
  BY <1>2 DEF ClaimHeld, Rows, NamedAttempts, Dispatches
<1> QED BY <1>1, <1>2

(* A request's name is no attempt's, and neither is nobody.                 *)
LEMMA NamesDiffer ==
  ASSUME Rows
  PROVE  /\ None \notin DOMAIN attempts /\ \A c \in Callers : c \notin DOMAIN attempts
         /\ None \notin Nat
<1>1. DOMAIN attempts \subseteq Nat BY SeqIndices DEF Rows, AttemptRows
<1> QED BY <1>1, BoundsAssumption

(* An attempt is admitted only while no other one has the claim.            *)
LEMMA AdmissionClaims ==
  ASSUME Rows, ~spent.expired => ClaimHeld, NEW c \in Callers,
         NEW kind, NEW p, NEW k, Admitted(kind, p, k), Dispatching(c), UNCHANGED jobs,
         spent'.expired = spent.expired,
         ~spent.expired => claim.exec \notin DOMAIN attempts
  PROVE  NamedAttempts' /\ (~spent'.expired => ClaimHeld')
<1>1. /\ AttemptRows' /\ DOMAIN attempts \subseteq DOMAIN attempts'
      /\ Len(attempts) + 1 \in DOMAIN attempts' /\ Len(attempts) \in Nat
      /\ attempts'[Len(attempts) + 1].state = "running"
  BY AttemptAdded DEF Rows, AttemptsGrow
<1>2. claim'.exec = Len(attempts) + 1 /\ claim'.execLapsed = FALSE
  BY DEF Admitted, Rows, RecordShape
<1>3. PICK n : n = Len(attempts) + 1 OBVIOUS
<1>4. PICK q : q = [[Idle EXCEPT !.pc = "dispatch"] EXCEPT !.attempt = n] OBVIOUS
<1>5. callers' = [callers EXCEPT ![c] = q] BY <1>3, <1>4 DEF Dispatching
<1>6. q.pc = "dispatch" /\ q.attempt = n BY <1>4 DEF Idle
<1>7. \A d \in Callers : callers'[d] = IF d = c THEN q ELSE callers[d]
  BY <1>5 DEF Rows, RecordShape
<1>8. NamedAttempts'
  BY <1>1, <1>2, <1>3, <1>6, <1>7 DEF NamedAttempts, Rows
<1>9. ASSUME ~spent.expired PROVE ClaimHeld'
  <2>1. jobs = << >> /\ \A d \in Callers : ~Dispatches(d) BY <1>9, NoClaimNoFuture
  <2> QED BY <1>1, <1>2, <1>3, <1>6, <1>7, <2>1 DEF ClaimHeld, Dispatches
<1> QED BY <1>8, <1>9

LEMMA FinishedReleases ==
  ASSUME Rows, ~spent.expired => ClaimHeld, NEW S, NEW failed, FinishAttempts(S, failed)
  PROVE  /\ claim'.exec \in Nat => claim'.exec \in DOMAIN attempts'
         /\ ~spent.expired =>
              /\ ~claim'.execLapsed
              /\ claim'.exec \in DOMAIN attempts' => attempts'[claim'.exec].state = "running"
              /\ claim.exec \in S /\ claim.exec \in DOMAIN attempts => claim'.exec = None
              /\ claim'.exec = claim.exec \/ claim'.exec = None
<1>1. /\ DOMAIN attempts' = DOMAIN attempts
      /\ \A i \in DOMAIN attempts : i \notin Unfinished(S) => attempts'[i] = attempts[i]
  BY AttemptsFinished DEF Rows
<1>2. \/ /\ claim.exec \in Unfinished(S)
         /\ claim' = [claim EXCEPT !.exec = None, !.execLapsed = FALSE]
      \/ claim.exec \notin Unfinished(S) /\ claim' = claim
  BY DEF FinishAttempts
<1>3. \/ claim.exec \in Unfinished(S) /\ claim'.exec = None /\ claim'.execLapsed = FALSE
      \/ /\ claim.exec \notin Unfinished(S)
         /\ claim'.exec = claim.exec /\ claim'.execLapsed = claim.execLapsed
  BY <1>2 DEF Rows, RecordShape
<1>4. claim.exec \in S /\ claim.exec \notin Unfinished(S) => attempts[claim.exec].state # "running"
  BY DEF Unfinished
<1> QED BY <1>1, <1>3, <1>4, NamesDiffer DEF ClaimHeld, Rows, NamedAttempts

LEMMA DispatchClaims ==
  ASSUME ClaimInvariant, NEW c \in Callers, Dispatch(c)
  PROVE  NamedAttempts' /\ (~spent'.expired => ClaimHeld')
<1> USE DEF ClaimInvariant
<1>1. PICK i : i = callers[c].attempt OBVIOUS
<1>2. Dispatches(c) /\ spent' = spent BY DEF Dispatch, At, Dispatches
<1>3. i \in DOMAIN attempts BY <1>1, <1>2 DEF Dispatches, Rows, NamedAttempts
<1>4. PICK q : q.pc # "dispatch" /\ callers' = [callers EXCEPT ![c] = q]
  BY DEF Dispatch, Returns, NextOrReturn, Goto, Idle, Rows, RecordShape, CallerShape
<1>5. \A d \in Callers : callers'[d] = IF d = c THEN q ELSE callers[d]
  BY <1>4 DEF Rows, RecordShape
<1>6. \A d \in Callers : callers'[d].pc = "dispatch" =>
         Dispatches(d) /\ d # c /\ callers'[d] = callers[d]
  BY <1>4, <1>5 DEF Dispatches
<1>7. ~spent.expired => \A d \in Callers : ~(callers'[d].pc = "dispatch")
  BY <1>2, <1>6 DEF ClaimHeld
<1>8. AttemptRows' /\ AttemptsGrow BY AttemptsStep DEF Next, Execution
<1>9. CASE Submit(i) /\ UNCHANGED <<attempts, claim>>
  <2>1. ~spent.expired => Len(jobs') = 1 /\ jobs'[1].calls = {i}
    BY <1>1, <1>2, <1>3, <1>8, <1>9, SubmitShape DEF ClaimHeld
  <2>2. ~spent.expired => claim.exec = i
    BY <1>1, <1>2 DEF ClaimHeld
  <2>3. NamedAttempts' BY <1>6, <1>9 DEF NamedAttempts, Rows, Dispatches
  <2> QED BY <1>2, <1>7, <1>9, <2>1, <2>2, <2>3 DEF ClaimHeld, Dispatches
<1>10. CASE FinishAttempts({i}, TRUE) /\ UNCHANGED jobs
  <2>1. /\ claim'.exec \in Nat => claim'.exec \in DOMAIN attempts'
        /\ ~spent.expired =>
              /\ ~claim'.execLapsed
              /\ claim'.exec \in DOMAIN attempts' => attempts'[claim'.exec].state = "running"
    BY <1>10, FinishedReleases
  <2>2. NamedAttempts'
    BY <1>6, <1>8, <2>1 DEF NamedAttempts, Rows, Dispatches, AttemptsGrow
  <2>3. ~spent.expired => jobs' = << >>
    BY <1>2, <1>10 DEF ClaimHeld
  <2> QED BY <1>2, <1>7, <2>1, <2>2, <2>3 DEF ClaimHeld, Dispatches
<1> QED BY <1>1, <1>9, <1>10 DEF Dispatch

LEMMA CompletionClaims ==
  ASSUME ClaimInvariant, CompleteFuture
  PROVE  NamedAttempts' /\ (~spent'.expired => ClaimHeld')
<1> USE DEF ClaimInvariant
<1>1. PICK S, failed : S = jobs[1].calls /\ failed = ~worker.ok OBVIOUS
<1>2. FinishAttempts(S, failed) /\ jobs' = Tail(jobs) /\ UNCHANGED <<callers, spent>>
  BY <1>1 DEF CompleteFuture, WorkerAt
<1>3. jobs # << >> BY DEF CompleteFuture, WorkerAt, Rows, FutureRows
<1>4. AttemptRows' /\ AttemptsGrow BY AttemptsStep DEF Next, Worker
<1>5. /\ claim'.exec \in Nat => claim'.exec \in DOMAIN attempts'
      /\ ~spent.expired =>
           /\ ~claim'.execLapsed
           /\ claim'.exec \in DOMAIN attempts' => attempts'[claim'.exec].state = "running"
  BY <1>2, FinishedReleases
<1>6. NamedAttempts' BY <1>2, <1>4, <1>5 DEF NamedAttempts, Rows, AttemptsGrow
<1>7. ~spent.expired => jobs' = << >> /\ \A c \in Callers : ~Dispatches(c)
  <2> SUFFICES ASSUME ~spent.expired PROVE jobs' = << >> /\ \A c \in Callers : ~Dispatches(c)
    OBVIOUS
  <2>1. IsSeq(jobs') /\ Len(jobs') = 0
    BY <1>2, <1>3, SeqTail DEF ClaimHeld, Rows, FutureRows
  <2>2. jobs' = << >> BY <2>1, EmptySeq DEF IsSeq
  <2> QED BY <1>3, <2>2 DEF ClaimHeld
<1>8. \A c \in Callers : callers'[c] = callers[c] BY <1>2
<1> QED BY <1>2, <1>5, <1>6, <1>7, <1>8 DEF ClaimHeld, Dispatches

(* Steps that leave every attempt's state and every dispatching request.    *)
LEMMA SteadyClaims ==
  ASSUME ClaimInvariant, AttemptRows', AttemptsGrow, UNCHANGED jobs,
         DOMAIN attempts' = DOMAIN attempts,
         \A i \in DOMAIN attempts : attempts'[i].state = attempts[i].state,
         claim'.exec = claim.exec, ~claim.execLapsed => ~claim'.execLapsed,
         ~spent'.expired => ~spent.expired,
         \A d \in Callers : callers'[d].pc = "dispatch" =>
            callers[d].pc = "dispatch" /\ callers'[d].attempt = callers[d].attempt
  PROVE  NamedAttempts' /\ (~spent'.expired => ClaimHeld')
<1>1. NamedAttempts' BY DEF NamedAttempts, ClaimInvariant, Rows
<1>2. ASSUME ~spent'.expired PROVE ClaimHeld'
  <2>1. ClaimHeld BY <1>2 DEF ClaimInvariant
  <2> QED BY <2>1 DEF ClaimHeld, Dispatches
<1> QED BY <1>1, <1>2

LEMMA ClaimStep == ClaimInvariant /\ [Next]_vars => ClaimInvariant'
<1> SUFFICES ASSUME ClaimInvariant, [Next]_vars PROVE ClaimInvariant'
  OBVIOUS
<1> DEFINE Goal == NamedAttempts' /\ (~spent'.expired => ClaimHeld')
<1>1. RecordShape' BY RecordStep DEF ClaimInvariant, Rows
<1>2. AttemptRows' /\ AttemptsGrow BY AttemptsStep DEF ClaimInvariant
<1>3. FutureRows' BY FuturesStep DEF ClaimInvariant
<1>4. ASSUME Untouched PROVE Goal
  <2>1. /\ UNCHANGED <<attempts, jobs>> /\ claim'.exec = claim.exec
        /\ ~claim.execLapsed => ~claim'.execLapsed
    BY <1>4 DEF Untouched
  <2>2. ~spent'.expired => ~spent.expired BY <1>4 DEF Untouched
  <2>3. \A d \in Callers : callers'[d].pc = "dispatch" =>
           callers[d].pc = "dispatch" /\ callers'[d].attempt = callers[d].attempt
    BY <1>4 DEF Untouched
  <2> QED BY <1>2, <2>1, <2>2, <2>3, SteadyClaims
<1>5. ASSUME NEW c \in Callers, ClaimExecution(c) PROVE Goal
  <2>1. /\ ExecutionFree /\ claim'.exec = c /\ claim'.execLapsed = FALSE
        /\ UNCHANGED <<attempts, jobs>> /\ spent'.expired = spent.expired
    BY <1>5 DEF ClaimExecution, Arrives, process, ClaimInvariant, Rows, RecordShape
  <2>2. PICK q : q.pc # "dispatch" /\ callers' = [callers EXCEPT ![c] = q]
    BY <1>5 DEF ClaimExecution, Holding, Idle
  <2>3. \A d \in Callers : callers'[d] = IF d = c THEN q ELSE callers[d]
    BY <2>2 DEF ClaimInvariant, Rows, RecordShape
  <2>4. c \notin Nat /\ c \notin DOMAIN attempts
    BY NamesDiffer, BoundsAssumption DEF ClaimInvariant
  <2>5. NamedAttempts'
    BY <2>1, <2>2, <2>3, <2>4 DEF NamedAttempts, ClaimInvariant, Rows
  <2>6. ASSUME ~spent.expired PROVE ClaimHeld'
    <3>1. claim.exec = None BY <2>1, <2>6 DEF ExecutionFree, ClaimInvariant, ClaimHeld
    <3>2. jobs = << >> /\ \A d \in Callers : ~Dispatches(d)
      BY <2>6, <3>1, NoClaimNoFuture, NamesDiffer DEF ClaimInvariant
    <3> QED BY <2>1, <2>2, <2>3, <2>4, <3>2 DEF ClaimHeld, Dispatches
  <2> QED BY <2>1, <2>5, <2>6
<1>6. ASSUME NEW c \in Callers,
             CreateAttempt(c) \/ BeginRecoveryAttempt(c) \/ BeginRolledBackRetry(c)
      PROVE  Goal
  <2>1. PICK p, k : p = callers[c].plan /\ k = callers[c].key OBVIOUS
  <2>2. UNCHANGED <<spent, jobs>>
    BY <1>6 DEF CreateAttempt, BeginRecoveryAttempt, BeginRolledBackRetry, At, process
  <2>3. CASE UNCHANGED <<attempts, claim>> /\ Returns(c)
    <3>1. \A d \in Callers : callers'[d].pc = "dispatch" =>
             callers[d].pc = "dispatch" /\ callers'[d].attempt = callers[d].attempt
      BY <2>3 DEF Returns, Idle, ClaimInvariant, Rows, RecordShape
    <3> QED BY <1>2, <2>2, <2>3, <3>1, SteadyClaims
  <2>4. CASE Admitted("initial", p, None) /\ Dispatching(c) /\ claim.exec = c
    <3>1. claim.exec \notin DOMAIN attempts BY <2>4, NamesDiffer DEF ClaimInvariant
    <3> QED BY <2>2, <2>4, <3>1, AdmissionClaims DEF ClaimInvariant
  <2>5. CASE Admitted("recovery", p, k) /\ Dispatching(c) /\ ExecutionFree
    <3>1. ~spent.expired => claim.exec \notin DOMAIN attempts
      BY <2>5, NamesDiffer DEF ClaimInvariant, ExecutionFree, ClaimHeld
    <3> QED BY <2>2, <2>5, <3>1, AdmissionClaims DEF ClaimInvariant
  <2>6. CASE /\ Admitted("retry", p, k) /\ Dispatching(c)
             /\ Latest.state \in {"completed", "failed"} /\ claim.exec \in {None, Len(attempts)}
    <3>1. ~spent.expired => claim.exec \notin DOMAIN attempts
      BY <2>6, NamesDiffer DEF ClaimInvariant, ClaimHeld, Latest
    <3> QED BY <2>2, <2>6, <3>1, AdmissionClaims DEF ClaimInvariant
  <2> QED BY <1>6, <2>1, <2>3, <2>4, <2>5, <2>6
          DEF CreateAttempt, BeginRecoveryAttempt, BeginRolledBackRetry
<1>7. ASSUME NEW c \in Callers, Dispatch(c) PROVE Goal
  BY <1>7, DispatchClaims
<1>8. ASSUME NEW c \in Callers, MarkRecoveryRequired(c) PROVE Goal
  <2>1. UNCHANGED <<attempts, jobs, spent>>
    BY <1>8 DEF MarkRecoveryRequired, At, process
  <2>2. \E q : q.pc # "dispatch" /\ callers' = [callers EXCEPT ![c] = q]
    <3>1. CASE Goto(c, "recover")
      BY <3>1 DEF Goto, ClaimInvariant, Rows, RecordShape, CallerShape
    <3>2. CASE Returns(c) BY <3>2 DEF Returns, Idle
    <3> QED BY <1>8, <3>1, <3>2 DEF MarkRecoveryRequired, NextOrReturn
  <2>3. PICK q : q.pc # "dispatch" /\ callers' = [callers EXCEPT ![c] = q] BY <2>2
  <2>4. \A d \in Callers : callers'[d].pc = "dispatch" =>
           callers[d].pc = "dispatch" /\ callers'[d].attempt = callers[d].attempt
    BY <2>3
  <2>5. CASE UNCHANGED claim
    BY <1>2, <2>1, <2>4, <2>5, SteadyClaims
  <2>6. CASE ExecutionFree /\ claim' = [claim EXCEPT !.exec = None, !.execLapsed = FALSE]
    <3>1. claim'.exec = None /\ claim'.execLapsed = FALSE
      BY <2>6 DEF ClaimInvariant, Rows, RecordShape
    <3>2. NamedAttempts'
      BY <2>1, <2>4, <3>1, NamesDiffer DEF NamedAttempts, ClaimInvariant, Rows
    <3>3. ~spent.expired => claim.exec = None /\ ~claim.execLapsed
      BY <2>6 DEF ExecutionFree, ClaimInvariant, ClaimHeld
    <3>4. ASSUME ~spent.expired PROVE ClaimHeld'
      <4>1. claim'.exec = claim.exec /\ ~claim'.execLapsed BY <3>1, <3>3, <3>4
      <4> QED BY <1>2, <2>1, <2>4, <3>4, <4>1, SteadyClaims
    <3> QED BY <2>1, <3>2, <3>4
  <2> QED BY <1>8, <2>5, <2>6 DEF MarkRecoveryRequired
<1>9. ASSUME NEW c \in Callers, ReconcileFailedRetrySetup(c) PROVE Goal
  <2>1. UNCHANGED <<jobs, spent>> /\ Returns(c)
    BY <1>9 DEF ReconcileFailedRetrySetup, At, process
  <2>2. \A d \in Callers : callers'[d].pc = "dispatch" =>
           callers[d].pc = "dispatch" /\ callers'[d].attempt = callers[d].attempt
    BY <2>1 DEF Returns, Idle, ClaimInvariant, Rows, RecordShape
  <2>3. CASE UNCHANGED <<claim, attempts>>
    BY <1>2, <2>1, <2>2, <2>3, SteadyClaims
  <2>4. CASE /\ ExecutionFree /\ claim' = [claim EXCEPT !.exec = None, !.execLapsed = FALSE]
             /\ attempts' = [attempts EXCEPT ![Len(attempts)].reconciled = TRUE]
    <3>1. claim'.exec = None /\ claim'.execLapsed = FALSE
      BY <2>4 DEF ClaimInvariant, Rows, RecordShape
    <3>2. DOMAIN attempts' = DOMAIN attempts BY <2>4
    <3>3. \A i \in DOMAIN attempts : attempts'[i].state = attempts[i].state
      BY <2>4 DEF ClaimInvariant, Rows, AttemptRows, AttemptFields
    <3>4. NamedAttempts'
      BY <2>1, <2>2, <3>1, <3>2, NamesDiffer DEF NamedAttempts, ClaimInvariant, Rows
    <3>5. ~spent.expired => claim.exec = None /\ ~claim.execLapsed
      BY <2>4 DEF ExecutionFree, ClaimInvariant, ClaimHeld
    <3>6. ASSUME ~spent.expired PROVE ClaimHeld'
      <4>1. claim'.exec = claim.exec /\ ~claim'.execLapsed BY <3>1, <3>5, <3>6
      <4> QED BY <1>2, <2>1, <2>2, <3>2, <3>3, <3>6, <4>1, SteadyClaims
    <3> QED BY <2>1, <3>4, <3>6
  <2> QED BY <1>9, <2>3, <2>4 DEF ReconcileFailedRetrySetup
<1>10. ASSUME ImportValidation \/ PersistExecution PROVE Goal
  <2>1. PICK j, r : /\ attempts' = attempts \/ attempts' = [attempts EXCEPT ![j] = r]
                    /\ j \in DOMAIN attempts =>
                         /\ DOMAIN r = AttemptFields
                         /\ r.plan = attempts[j].plan /\ r.state = attempts[j].state
    BY <1>10, ReportsRedraw DEF ClaimInvariant
  <2>2. UNCHANGED <<jobs, claim, callers, spent>>
    BY <1>10 DEF ImportValidation, PersistExecution, WorkerAt
  <2>3. /\ DOMAIN attempts' = DOMAIN attempts
        /\ \A i \in DOMAIN attempts : attempts'[i].state = attempts[i].state
    <3>1. CASE attempts' = attempts BY <3>1
    <3>2. CASE attempts' = [attempts EXCEPT ![j] = r]
      BY <2>1, <3>2, AttemptRedrawn DEF ClaimInvariant, Rows
    <3> QED BY <2>1, <3>1, <3>2
  <2> QED BY <1>2, <2>2, <2>3, SteadyClaims
<1>11. ASSUME CompleteFuture PROVE Goal
  BY <1>11, CompletionClaims
<1>12. ASSUME LeaseLapses PROVE Goal
  <2>1. UNCHANGED <<attempts, jobs, callers>> BY <1>12 DEF LeaseLapses, process
  <2>2. /\ claim'.exec = claim.exec
        /\ ~spent'.expired => ~spent.expired /\ (~claim.execLapsed => ~claim'.execLapsed)
    BY <1>12 DEF LeaseLapses, ClaimInvariant, Rows, RecordShape
  <2>3. NamedAttempts' BY <2>1, <2>2 DEF NamedAttempts, ClaimInvariant, Rows
  <2>4. ASSUME ~spent'.expired PROVE ClaimHeld'
    <3>1. ~spent.expired /\ (~claim.execLapsed => ~claim'.execLapsed) BY <2>2, <2>4
    <3> QED BY <1>2, <2>1, <2>2, <2>4, <3>1, SteadyClaims
  <2> QED BY <2>3, <2>4
<1>13. ASSUME ProcessRestarts PROVE Goal
  <2>1. /\ attempts' = attempts /\ jobs' = << >> /\ claim'.exec = claim.exec
        /\ ~spent'.expired => ~spent.expired
        /\ ~claim.execLapsed => ~claim'.execLapsed
        /\ \A d \in Callers : callers'[d].pc # "dispatch"
    BY <1>13 DEF ProcessRestarts, Idle, ClaimInvariant, Rows, RecordShape
  <2> QED BY <2>1 DEF NamedAttempts, ClaimInvariant, Rows, ClaimHeld, Dispatches
<1>14. Goal
  BY <1>4, <1>5, <1>6, <1>7, <1>8, <1>9, <1>10, <1>11, <1>12, <1>13, QuietSteps
     DEF Disturbs, Admissions, ClaimInvariant, Rows
<1> QED BY <1>1, <1>2, <1>3, <1>14 DEF ClaimInvariant, Rows

LEMMA RecordInit == Init => RecordShape
BY DEF Init, RecordShape, CallerShape, Idle, IdleWorker

LEMMA ClaimInit == Init => ClaimInvariant
<1> SUFFICES ASSUME Init PROVE ClaimInvariant
  OBVIOUS
<1>1. RecordShape BY RecordInit
<1>2. << >> \in Seq({}) /\ DOMAIN << >> = {} BY EmptySeq, LenProperties
<1>3. /\ attempts = << >> /\ jobs = << >> /\ worker.pc = "idle" /\ claim.exec = None
      /\ claim.execLapsed = FALSE /\ \A c \in Callers : callers[c].pc = "idle"
  BY DEF Init, Idle, IdleWorker
<1>4. AttemptRows /\ FutureRows
  BY <1>2, <1>3 DEF AttemptRows, FutureRows, IsSeq
<1>5. NamedAttempts BY <1>3, BoundsAssumption DEF NamedAttempts
<1>6. ClaimHeld BY <1>2, <1>3 DEF ClaimHeld, Dispatches
<1> QED BY <1>1, <1>4, <1>5, <1>6 DEF ClaimInvariant, Rows

(* As long as no execution's claim ran out (a day), one future at most is   *)
(* alive for the task and the attempt that holds the claim reports to it:   *)
(* claim_execution, begin_recovery_attempt, begin_rolled_back_retry and     *)
(* finish_execution_attempt together, whatever requests and restarts come   *)
(* between.                                                                 *)
THEOREM OneFutureHoldsTheClaim == Spec => []LiveWorkerHoldsClaim
<1>1. ClaimInvariant => LiveWorkerHoldsClaim
  <2> SUFFICES ASSUME ClaimInvariant, ~spent.expired
               PROVE  Len(jobs) <= 1 /\ (jobs # << >> => claim.exec \in jobs[1].calls)
    BY DEF LiveWorkerHoldsClaim
  <2>1. Len(jobs) \in Nat /\ (jobs = << >> => Len(jobs) = 0)
    BY SeqIndices, EmptySeq DEF ClaimInvariant, Rows, FutureRows
  <2>2. jobs # << >> => Len(jobs) = 1 /\ claim.exec \in jobs[1].calls
    BY DEF ClaimInvariant, ClaimHeld
  <2>3. CASE jobs = << >> BY <2>1, <2>3
  <2>4. CASE jobs # << >> BY <2>2, <2>4
  <2> QED BY <2>3, <2>4
<1> QED BY <1>1, ClaimInit, ClaimStep, PTL DEF Spec

-----------------------------------------------------------------------------
(* The plan a worker edits under.                                           *)

ExplicitOrReported ==
  \/ approvals[MyPlan] = "explicitly_approved"
  \/ ReportIsIn /\ approvals[MyPlan] = "historical_execution_evidence"

UnderPlan == worker.pc \in {"setup", "mark"} \/ Editing

ApprovalInvariant ==
  /\ plans.rows \subseteq Plans
  /\ \A c \in Callers : callers[c].pc = "attach" => callers[c].plan \in Plans
  /\ UnderPlan => MyPlan \in Plans /\ ExplicitOrReported

LEMMA PlanRowsStep ==
  Rows /\ ApprovalInvariant /\ [Next]_vars =>
    /\ plans'.rows \subseteq Plans
    /\ \A c \in Callers : callers'[c].pc = "attach" => callers'[c].plan \in Plans
<1> SUFFICES ASSUME Rows, ApprovalInvariant, [Next]_vars
             PROVE  /\ plans'.rows \subseteq Plans
                    /\ \A c \in Callers :
                          callers'[c].pc = "attach" => callers'[c].plan \in Plans
  OBVIOUS
<1> DEFINE Goal == /\ plans'.rows \subseteq Plans
                   /\ \A c \in Callers :
                         callers'[c].pc = "attach" => callers'[c].plan \in Plans
<1> USE DEF RecordShape, CallerShape, Rows, ApprovalInvariant
<1>1. CASE UNCHANGED vars
  BY <1>1 DEF vars, record, process
<1>2. ASSUME NEW c \in Callers, ClaimPlanning(c) PROVE Goal
  BY <1>2 DEF ClaimPlanning, Arrives, Holding, Idle, record, process
<1>3. ASSUME NEW c \in Callers, BeginPlanning(c) PROVE Goal
  <2>1. \E q : q.pc # "attach" /\ callers' = [callers EXCEPT ![c] = q]
    BY ZenonT(40), <1>3 DEF BeginPlanning, At, Goto, Moved, record, process
  <2>2. UNCHANGED plans BY <1>3 DEF BeginPlanning, At, Goto, Moved, record, process
  <2> QED BY <2>1, <2>2
<1>4. ASSUME NEW c \in Callers, GeneratePlan(c) PROVE Goal
  <2>1. \/ plans' = plans \/ \E p : plans' = [plans EXCEPT !.file = p]
    BY <1>4 DEF GeneratePlan
  <2>2. plans'.rows = plans.rows BY <2>1
  <2>3. CASE Goto(c, "release") BY <2>2, <2>3 DEF Goto
  <2>4. ASSUME NEW p \in Plans, Holding(c, "attach", None, p, None) PROVE Goal
    <3>1. PICK q : q = [[[[Idle EXCEPT !.pc = "attach"] EXCEPT !.seen = None]
                           EXCEPT !.plan = p] EXCEPT !.key = None]
      OBVIOUS
    <3>2. callers' = [callers EXCEPT ![c] = q] BY <2>4, <3>1 DEF Holding
    <3>3. q.plan = p BY <3>1 DEF Idle
    <3> QED BY <2>2, <3>2, <3>3
  <2> QED BY <1>4, <2>3, <2>4 DEF GeneratePlan
<1>5. ASSUME NEW c \in Callers, AttachPlan(c) PROVE Goal
  <2>1. plans' = plans \/ plans' = [plans EXCEPT !.rows = @ \cup {callers[c].plan}]
    BY <1>5 DEF AttachPlan
  <2>2. callers[c].pc = "attach" BY <1>5 DEF AttachPlan, At
  <2>3. \E q : q.pc # "attach" /\ callers' = [callers EXCEPT ![c] = q]
    BY <1>5 DEF AttachPlan, Holding, Idle
  <2>4. plans'.rows \subseteq Plans BY <2>1, <2>2
  <2> QED BY <2>3, <2>4
<1>6. ASSUME NEW c \in Callers, ReplacePlan(c) PROVE Goal
  <2>1. \E q : q.pc # "attach" /\ callers' = [callers EXCEPT ![c] = q]
    BY <1>6 DEF ReplacePlan, At, Holding, Idle, record, process
  <2>2. UNCHANGED plans BY <1>6 DEF ReplacePlan, At, Holding, Idle, record, process
  <2> QED BY <2>1, <2>2
<1>7. ASSUME NEW c \in Callers, RequireReapproval(c) PROVE Goal
  <2>1. \E q : q.pc # "attach" /\ callers' = [callers EXCEPT ![c] = q]
    BY <1>7 DEF RequireReapproval, At, NextOrRelease, Goto, Holding, Idle, MovedIfAllowed, Moved,
         record, process
  <2>2. UNCHANGED plans BY <1>7 DEF RequireReapproval, At, NextOrRelease, Goto, Holding, Idle,
       MovedIfAllowed, Moved, record, process
  <2> QED BY <2>1, <2>2
<1>8. ASSUME NEW c \in Callers, FinishPlanning(c) PROVE Goal
  BY <1>8 DEF FinishPlanning, At, Moved, Holding, Idle, record, process
<1>9. ASSUME NEW c \in Callers, ReleasePlanning(c) PROVE Goal
  BY <1>9 DEF ReleasePlanning, At, Returns, Idle, record, process
<1>10. ASSUME NEW c \in Callers, ReviewPlan(c) PROVE Goal
  <2>1. \E q : q.pc # "attach" /\ callers' = [callers EXCEPT ![c] = q]
    BY <1>10 DEF ReviewPlan, Arrives, Holding, Idle, record, process
  <2>2. UNCHANGED plans BY <1>10 DEF ReviewPlan, Arrives, Holding, Idle, record, process
  <2> QED BY <2>1, <2>2
<1>11. ASSUME NEW c \in Callers, AttachApproval(c) PROVE Goal
  <2>1. \E q : q.pc # "attach" /\ callers' = [callers EXCEPT ![c] = q]
    BY <1>11 DEF AttachApproval, At, Returns, Holding, Idle, record, process
  <2>2. UNCHANGED plans BY <1>11 DEF AttachApproval, At, Returns, Holding, Idle, record, process
  <2> QED BY <2>1, <2>2
<1>12. ASSUME NEW c \in Callers, MoveToApproved(c) PROVE Goal
  BY <1>12 DEF MoveToApproved, At, MovedIfAllowed, Moved, Returns, Idle, record, process
<1>13. ASSUME NEW c \in Callers, ReadForCancel(c) PROVE Goal
  <2>1. \E q : q.pc # "attach" /\ callers' = [callers EXCEPT ![c] = q]
    BY <1>13 DEF ReadForCancel, Arrives, Holding, Idle, record, process
  <2>2. UNCHANGED plans BY <1>13 DEF ReadForCancel, Arrives, Holding, Idle, record, process
  <2> QED BY <2>1, <2>2
<1>14. ASSUME NEW c \in Callers, FlagCancel(c) PROVE Goal
  <2>1. \E q : q.pc # "attach" /\ callers' = [callers EXCEPT ![c] = q]
    BY <1>14 DEF FlagCancel, At, Holding, Idle, Returns, record, process
  <2>2. UNCHANGED plans BY <1>14 DEF FlagCancel, At, Holding, Idle, Returns, record, process
  <2> QED BY <2>1, <2>2
<1>15. ASSUME NEW c \in Callers, MoveToCancelled(c) PROVE Goal
  BY <1>15 DEF MoveToCancelled, At, MovedIfAllowed, Moved, Returns, Idle, record, process
<1>16. ASSUME NEW c \in Callers, ClaimExecution(c) PROVE Goal
  BY <1>16 DEF ClaimExecution, Arrives, Holding, Idle, record, process
<1>17. ASSUME NEW c \in Callers, CreateAttempt(c) PROVE Goal
  <2>1. UNCHANGED plans BY <1>17 DEF CreateAttempt, At, Admitted, Dispatching, Idle, Returns,
       record, process
  <2>2. \E q : q.pc # "attach" /\ callers' = [callers EXCEPT ![c] = q]
    <3>1. CASE Returns(c) BY <3>1 DEF Returns, Idle
    <3>2. CASE Dispatching(c) BY <3>2 DEF Dispatching, Idle
    <3>3. CASE Goto(c, "recover") BY ZenonT(40), <3>3 DEF Goto
    <3> QED BY <1>17, <3>1, <3>2, <3>3 DEF CreateAttempt, NextOrReturn
  <2> QED BY <2>1, <2>2
<1>18. ASSUME NEW c \in Callers, Dispatch(c) PROVE Goal
  BY <1>18 DEF Dispatch, At, Submit, Returns, Idle, FinishAttempts, NextOrReturn, Goto, record,
       process
<1>19. ASSUME NEW c \in Callers, UndoRetry(c) PROVE Goal
  BY <1>19 DEF UndoRetry, At, MovedIfAllowed, Moved, Returns, Idle, record, process
<1>20. ASSUME NEW c \in Callers, InspectInterruption(c) PROVE Goal
  BY <1>20 DEF InspectInterruption, ArrivesAmid, Holding, Idle, record, process
<1>21. ASSUME NEW c \in Callers, MarkRecoveryRequired(c) PROVE Goal
  <2>1. UNCHANGED plans BY <1>21 DEF MarkRecoveryRequired, At, Moved, Goto, NextOrReturn,
       Returns, Idle, record, process
  <2>2. \E q : q.pc # "attach" /\ callers' = [callers EXCEPT ![c] = q]
    <3>1. CASE Returns(c) BY <3>1 DEF Returns, Idle
    <3>2. CASE Dispatching(c) BY <3>2 DEF Dispatching, Idle
    <3>3. CASE Goto(c, "recover") BY ZenonT(40), <3>3 DEF Goto
    <3> QED BY <1>21, <3>1, <3>2, <3>3 DEF MarkRecoveryRequired, NextOrReturn
  <2> QED BY <2>1, <2>2
<1>22. ASSUME NEW c \in Callers, BeginRecoveryAttempt(c) PROVE Goal
  <2>1. UNCHANGED plans BY <1>22 DEF BeginRecoveryAttempt, At, Admitted, Dispatching, Moved,
       Returns, Idle, record, process
  <2>2. \E q : q.pc # "attach" /\ callers' = [callers EXCEPT ![c] = q]
    <3>1. CASE Returns(c) BY <3>1 DEF Returns, Idle
    <3>2. CASE Dispatching(c) BY <3>2 DEF Dispatching, Idle
    <3>3. CASE Goto(c, "recover") BY ZenonT(40), <3>3 DEF Goto
    <3> QED BY <1>22, <3>1, <3>2, <3>3 DEF BeginRecoveryAttempt, NextOrReturn
  <2> QED BY <2>1, <2>2
<1>23. ASSUME NEW c \in Callers, InspectRollback(c) PROVE Goal
  BY <1>23 DEF InspectRollback, ArrivesAmid, Holding, Idle, record, process
<1>24. ASSUME NEW c \in Callers, BeginRolledBackRetry(c) PROVE Goal
  <2>1. UNCHANGED plans BY <1>24 DEF BeginRolledBackRetry, At, Admitted, Dispatching, Moved,
       Returns, Idle, record, process
  <2>2. \E q : q.pc # "attach" /\ callers' = [callers EXCEPT ![c] = q]
    <3>1. CASE Returns(c) BY <3>1 DEF Returns, Idle
    <3>2. CASE Dispatching(c) BY <3>2 DEF Dispatching, Idle
    <3>3. CASE Goto(c, "recover") BY ZenonT(40), <3>3 DEF Goto
    <3> QED BY <1>24, <3>1, <3>2, <3>3 DEF BeginRolledBackRetry, NextOrReturn
  <2> QED BY <2>1, <2>2
<1>25. ASSUME NEW c \in Callers, InspectFailedValidation(c) PROVE Goal
  BY <1>25 DEF InspectFailedValidation, ArrivesAmid, Reconciles, record, process
<1>26. ASSUME NEW c \in Callers, ResumeFinishedRollback(c) PROVE Goal
  BY <1>26 DEF ResumeFinishedRollback, ArrivesAmid, Reconciles, record, process
<1>27. ASSUME NEW c \in Callers, StartRollback(c) PROVE Goal
  BY <1>27 DEF StartRollback, At, Goto, Returns, Idle, record, process
<1>28. ASSUME NEW c \in Callers, RequireRecovery(c) PROVE Goal
  BY <1>28 DEF RequireRecovery, At, MovedIfAllowed, Moved, NextOrReturn, Goto, Returns, Idle,
       record, process
<1>29. ASSUME NEW c \in Callers, IsolateForRecovery(c) PROVE Goal
  BY <1>29 DEF IsolateForRecovery, At, Goto, Returns, Idle, record, process
<1>30. ASSUME NEW c \in Callers, RestoreBaseline(c) PROVE Goal
  BY <1>30 DEF RestoreBaseline, At, Goto, Returns, Idle, record, process
<1>31. ASSUME NEW c \in Callers, MarkRolledBack(c) PROVE Goal
  BY <1>31 DEF MarkRolledBack, At, Goto, Returns, Idle, record, process
<1>32. ASSUME NEW c \in Callers, FinalizeRollback(c) PROVE Goal
  BY <1>32 DEF FinalizeRollback, At, MovedIfAllowed, Moved, NextOrReturn, Goto, Returns, Idle,
       record, process
<1>33. ASSUME NEW c \in Callers, CleanRolledBack(c) PROVE Goal
  BY <1>33 DEF CleanRolledBack, At, Returns, Idle, record, process
<1>34. ASSUME NEW c \in Callers, InspectFailedRetrySetup(c) PROVE Goal
  BY <1>34 DEF InspectFailedRetrySetup, Arrives, Holding, Idle, record, process
<1>35. ASSUME NEW c \in Callers, ReconcileFailedRetrySetup(c) PROVE Goal
  BY <1>35 DEF ReconcileFailedRetrySetup, At, Moved, Returns, Idle, record, process
<1>36. ASSUME LoadPlan PROVE Goal
  BY <1>36 DEF LoadPlan, WorkerAt, WorkerGoto, Fails, IdleWorker, record, process
<1>37. ASSUME SetUpWorktree PROVE Goal
  BY <1>37 DEF SetUpWorktree, WorkerAt, WorkerGoto, Fails, IdleWorker, record, process
<1>38. ASSUME MarkExecutionStarted PROVE Goal
  BY <1>38 DEF MarkExecutionStarted, WorkerAt, WorkerGoto, Moved, record, process
<1>39. ASSUME Edit PROVE Goal
  BY <1>39 DEF Edit, WorkerAt, Fails, IdleWorker, record, process
<1>40. ASSUME CheckCancelled PROVE Goal
  BY <1>40 DEF CheckCancelled, WorkerAt, record, process
<1>41. ASSUME MarkValidationStarted PROVE Goal
  BY <1>41 DEF MarkValidationStarted, WorkerAt, WorkerGoto, Moved, record, process
<1>42. ASSUME MarkWorktreeValidating PROVE Goal
  BY <1>42 DEF MarkWorktreeValidating, WorkerAt, WorkerGoto, record, process
<1>43. ASSUME Validate PROVE Goal
  BY <1>43 DEF Validate, WorkerAt, Fails, IdleWorker, record, process
<1>44. ASSUME ImportValidation PROVE Goal
  BY <1>44 DEF ImportValidation, WorkerAt, WorkerGoto, Advanced, Moved, HistoricalApproval,
       record, process
<1>45. ASSUME Decide PROVE Goal
  BY <1>45 DEF Decide, WorkerAt, Fails, IdleWorker, record, process
<1>46. ASSUME PersistExecution PROVE Goal
  BY <1>46 DEF PersistExecution, WorkerAt, WorkerGoto, Advanced, Moved, HistoricalApproval,
       record, process
<1>47. ASSUME FinalizeHistory PROVE Goal
  BY <1>47 DEF FinalizeHistory, WorkerAt, WorkerGoto, Moved, record, process
<1>48. ASSUME LeaveWorktree PROVE Goal
  BY <1>48 DEF LeaveWorktree, WorkerAt, IdleWorker, record, process
<1>49. ASSUME CompleteFuture PROVE Goal
  BY <1>49 DEF CompleteFuture, WorkerAt, FinishAttempts, IdleWorker, record, process
<1>50. ASSUME LeaseLapses PROVE Goal
  BY <1>50 DEF LeaseLapses, record, process
<1>51. ASSUME ProcessRestarts PROVE Goal
  BY <1>51 DEF ProcessRestarts, IdleWorker, Idle, record, process
<1> QED BY <1>1, <1>2, <1>3, <1>4, <1>5, <1>6, <1>7, <1>8, <1>9, <1>10, <1>11, <1>12, <1>13,
           <1>14, <1>15, <1>16, <1>17, <1>18, <1>19, <1>20, <1>21, <1>22, <1>23, <1>24,
           <1>25, <1>26, <1>27, <1>28, <1>29, <1>30, <1>31, <1>32, <1>33, <1>34, <1>35,
           <1>36, <1>37, <1>38, <1>39, <1>40, <1>41, <1>42, <1>43, <1>44, <1>45, <1>46,
           <1>47, <1>48, <1>49, <1>50, <1>51
        DEF Next, Planning, Approval, Cancellation, Execution, Recovery, Retry,
            Reconciliation, Worker

(* What requests and time do to the worker and the approvals.               *)
PlanQuiet ==
  /\ worker' = worker
  /\ approvals' = approvals \/ \E p : approvals' = [approvals EXCEPT ![p] = "explicitly_approved"]

LEMMA PlanQuietSteps ==
  RecordShape /\ [Next]_vars => PlanQuiet \/ Worker \/ ProcessRestarts
<1> SUFFICES ASSUME RecordShape, [Next]_vars PROVE PlanQuiet \/ Worker \/ ProcessRestarts
  OBVIOUS
<1> USE DEF PlanQuiet, record, process
<1>1. CASE UNCHANGED vars BY <1>1 DEF vars
<1>2. ASSUME NEW c \in Callers, Planning(c) PROVE PlanQuiet
  BY <1>2 DEF Planning, ClaimPlanning, BeginPlanning, GeneratePlan, AttachPlan, ReplacePlan,
       RequireReapproval, FinishPlanning, ReleasePlanning
<1>3. ASSUME NEW c \in Callers, Approval(c) PROVE PlanQuiet
  BY <1>3 DEF Approval, ReviewPlan, AttachApproval, MoveToApproved
<1>4. ASSUME NEW c \in Callers, Cancellation(c) PROVE PlanQuiet
  BY <1>4 DEF Cancellation, ReadForCancel, FlagCancel, MoveToCancelled
<1>5. ASSUME NEW c \in Callers, Execution(c) PROVE PlanQuiet
  BY <1>5 DEF Execution, ClaimExecution, CreateAttempt, Dispatch, UndoRetry
<1>6. ASSUME NEW c \in Callers, Recovery(c) PROVE PlanQuiet
  BY <1>6 DEF Recovery, InspectInterruption, MarkRecoveryRequired, BeginRecoveryAttempt
<1>7. ASSUME NEW c \in Callers, Retry(c) PROVE PlanQuiet
  BY <1>7 DEF Retry, InspectRollback, BeginRolledBackRetry
<1>8. ASSUME NEW c \in Callers, Reconciliation(c) PROVE PlanQuiet
  BY <1>8 DEF Reconciliation, InspectFailedValidation, ResumeFinishedRollback, StartRollback,
       RequireRecovery, IsolateForRecovery, RestoreBaseline, MarkRolledBack, FinalizeRollback,
       CleanRolledBack, InspectFailedRetrySetup, ReconcileFailedRetrySetup
<1>9. CASE LeaseLapses BY <1>9 DEF LeaseLapses
<1> QED BY <1>1, <1>2, <1>3, <1>4, <1>5, <1>6, <1>7, <1>8, <1>9 DEF Next

LEMMA MyPlanStays ==
  ASSUME Rows, jobs # << >>, AttemptsGrow, FutureStays
  PROVE  MyPlan' = MyPlan
<1>1. Len(jobs) \in Nat /\ DOMAIN jobs = 1..Len(jobs) /\ Len(jobs) # 0
  BY SeqIndices, EmptySeq DEF Rows, FutureRows, IsSeq
<1>2. Mine \in DOMAIN attempts BY <1>1 DEF Mine, Rows, FutureRows
<1>3. Mine' = Mine BY DEF Mine, FutureStays
<1> QED BY <1>2, <1>3 DEF MyPlan, AttemptsGrow

(* A run's report leaves the approval of its plan or puts its own evidence  *)
(* there.                                                                   *)
LEMMA ReportKeepsEvidence ==
  ASSUME RecordShape, MyPlan \in Plans, ExplicitOrReported,
         HistoricalApproval \/ UNCHANGED approvals, MyPlan' = MyPlan
  PROVE  \/ approvals'[MyPlan'] = "explicitly_approved"
         \/ approvals'[MyPlan'] = "historical_execution_evidence"
BY DEF RecordShape, ExplicitOrReported, HistoricalApproval

LEMMA ApprovalStep ==
  Rows /\ ApprovalInvariant /\ [Next]_vars => ApprovalInvariant'
<1> SUFFICES ASSUME Rows, ApprovalInvariant, [Next]_vars,
                    (worker.pc \in {"setup", "mark"} \/ Editing)'
             PROVE  (MyPlan \in Plans /\ ExplicitOrReported)'
  BY PlanRowsStep DEF ApprovalInvariant, UnderPlan
<1> DEFINE Goal == (MyPlan \in Plans /\ ExplicitOrReported)'
<1>1. AttemptRows' /\ AttemptsGrow BY AttemptsStep
<1>2. RecordShape /\ RecordShape' BY RecordStep DEF Rows
<1>3. CASE LoadPlan
  <2>1. UNCHANGED <<jobs, attempts, approvals>> BY <1>3 DEF LoadPlan, record
  <2>2. CASE Loadable(MyPlan)
    <3>1. MyPlan \in Plans /\ approvals[MyPlan] = "explicitly_approved"
      BY <2>2 DEF Loadable, ExplicitlyApproved, ApprovalInvariant
    <3> QED BY <2>1, <3>1 DEF MyPlan, Mine, ExplicitOrReported
  <2>3. CASE Fails BY <2>3 DEF Fails, IdleWorker, Editing
  <2> QED BY <1>3, <2>2, <2>3 DEF LoadPlan, MayRun
<1>4. ASSUME UnderPlan PROVE /\ MyPlan' = MyPlan /\ MyPlan \in Plans /\ ExplicitOrReported
  <2>1. jobs # << >> BY <1>4 DEF UnderPlan, Editing, Rows, FutureRows
  <2>2. worker'.pc # "idle" BY DEF Editing
  <2>3. FutureStays BY <2>1, <2>2, FuturesStep
  <2> QED BY <1>1, <1>4, <2>1, <2>3, MyPlanStays DEF ApprovalInvariant
<1>5. ASSUME PlanQuiet PROVE Goal
  <2>1. UnderPlan BY <1>5 DEF PlanQuiet, UnderPlan, Editing
  <2>2. MyPlan' = MyPlan /\ MyPlan \in Plans /\ ExplicitOrReported BY <1>4, <2>1
  <2>3. ReportIsIn => ReportIsIn' BY <1>5 DEF PlanQuiet, ReportIsIn
  <2>4. approvals'[MyPlan] = approvals[MyPlan] \/ approvals'[MyPlan] = "explicitly_approved"
    BY <1>2, <1>5, <2>2 DEF PlanQuiet, RecordShape
  <2> QED BY <2>2, <2>3, <2>4 DEF ExplicitOrReported
<1>6. ASSUME SetUpWorktree \/ Edit \/ CheckCancelled \/ MarkValidationStarted
             \/ MarkWorktreeValidating \/ Validate
      PROVE  Goal
  <2> USE DEF RecordShape
  <2>1. UnderPlan /\ UNCHANGED approvals
    BY <1>6 DEF SetUpWorktree, Edit, CheckCancelled, MarkValidationStarted,
         MarkWorktreeValidating, Validate, WorkerAt, UnderPlan, Editing, record
  <2>2. worker.again => worker'.again
    <3>1. CASE Fails BY <3>1 DEF Fails, IdleWorker, Editing
    <3>2. CASE ~Fails
      BY <1>2, <1>6, <3>2 DEF SetUpWorktree, Edit, CheckCancelled, MarkValidationStarted,
           MarkWorktreeValidating, Validate, WorkerGoto
    <3> QED BY <3>1, <3>2
  <2>3. worker.pc # "decide"
    BY <1>6 DEF SetUpWorktree, Edit, CheckCancelled, MarkValidationStarted,
         MarkWorktreeValidating, Validate, WorkerAt
  <2>4. MyPlan' = MyPlan /\ MyPlan \in Plans /\ ExplicitOrReported BY <1>4, <2>1
  <2> QED BY <2>1, <2>2, <2>3, <2>4 DEF ExplicitOrReported, ReportIsIn
<1>7. ASSUME MarkExecutionStarted PROVE Goal
  <2>1. UnderPlan BY <1>7 DEF MarkExecutionStarted, WorkerAt, UnderPlan
  <2>2. MyPlan' = MyPlan /\ MyPlan \in Plans /\ ExplicitOrReported BY <1>4, <2>1
  <2>3. approvals'[MyPlan] = approvals[MyPlan] \/ approvals'[MyPlan] = "explicitly_approved"
    BY <1>2, <1>7, <2>2 DEF MarkExecutionStarted, RecordShape
  <2>4. worker'.again = worker.again /\ worker.pc = "mark"
    BY <1>2, <1>7 DEF MarkExecutionStarted, WorkerAt, WorkerGoto, RecordShape
  <2> QED BY <2>2, <2>3, <2>4 DEF ExplicitOrReported, ReportIsIn
<1>8. ASSUME ImportValidation PROVE Goal
  <2>1. UnderPlan BY <1>8 DEF ImportValidation, WorkerAt, UnderPlan, Editing
  <2>2. MyPlan' = MyPlan /\ MyPlan \in Plans /\ ExplicitOrReported BY <1>4, <2>1
  <2>3. HistoricalApproval \/ UNCHANGED approvals BY <1>8 DEF ImportValidation
  <2>4. ReportIsIn'
    BY <1>2, <1>8 DEF ImportValidation, WorkerGoto, ReportIsIn, RecordShape
  <2> QED BY <1>2, <2>2, <2>3, <2>4, ReportKeepsEvidence DEF ExplicitOrReported
<1>9. ASSUME Decide \/ PersistExecution \/ FinalizeHistory \/ LeaveWorktree
             \/ CompleteFuture \/ ProcessRestarts
      PROVE  FALSE
  <2>1. CASE Decide
    <3>1. CASE Fails BY <3>1 DEF Fails, IdleWorker, Editing
    <3>2. CASE ~Fails
      <4> DEFINE cancelled == /\ worker.result # "tool_error"
                              /\ worker.cancelled \/ task.cancel
                 success == worker.result = "complete" /\ worker.passed /\ ~cancelled
      <4>1. PICK o : worker' = [IdleWorker EXCEPT !.pc = "persist", !.outcome = o,
                                                  !.ok = success, !.cancelled = cancelled]
        BY <2>1, <3>2 DEF Decide
      <4> HIDE DEF cancelled, success
      <4>2. worker'.pc = "persist" BY <4>1 DEF IdleWorker
      <4> QED BY <4>2 DEF Editing
    <3> QED BY <3>1, <3>2
  <2>2. CASE PersistExecution
    BY <1>2, <2>2 DEF PersistExecution, WorkerGoto, Editing, RecordShape
  <2>3. CASE FinalizeHistory
    BY <1>2, <2>3 DEF FinalizeHistory, WorkerGoto, Editing, RecordShape
  <2>4. CASE LeaveWorktree BY <2>4 DEF LeaveWorktree, IdleWorker, Editing
  <2>5. CASE CompleteFuture BY <2>5 DEF CompleteFuture, IdleWorker, Editing
  <2>6. CASE ProcessRestarts BY <2>6 DEF ProcessRestarts, IdleWorker, Editing
  <2> QED BY <1>9, <2>1, <2>2, <2>3, <2>4, <2>5, <2>6
<1> QED BY <1>2, <1>3, <1>5, <1>6, <1>7, <1>8, <1>9, PlanQuietSteps DEF Worker

(* Whatever plans are produced, attached and approved meanwhile, the worker *)
(* edits only under a plan that the owner approved explicitly; the only     *)
(* other evidence ever found there is that of this very run, put there by   *)
(* the import of its report (load_approved_plan, _advance).                 *)
THEOREM EditsAreUnderApproval == Spec => []OnlyApprovedPlansAreEdited
<1>1. Init => ApprovalInvariant
  BY DEF Init, ApprovalInvariant, UnderPlan, Editing, IdleWorker, Idle
<1>2. ClaimInvariant /\ ApprovalInvariant /\ [Next]_vars => (ClaimInvariant /\ ApprovalInvariant)'
  BY ClaimStep, ApprovalStep DEF ClaimInvariant
<1>3. ApprovalInvariant => OnlyApprovedPlansAreEdited
  BY DEF ApprovalInvariant, UnderPlan, ExplicitOrReported, OnlyApprovedPlansAreEdited
<1> QED BY <1>1, <1>2, <1>3, ClaimInit, PTL DEF Spec

-----------------------------------------------------------------------------
(* The worktree and the rows of the rollbacks have their fields.            *)

RollbackFields == {"state", "attempt", "restored", "completed", "shadowed"}

TreeShape ==
  /\ DOMAIN worktree = {"state", "dirty", "plan"}
  /\ DOMAIN rollbacks = Keys /\ \A k \in Keys : DOMAIN rollbacks[k] = RollbackFields

(* The steps of a request that the worktree, a claim or a rollback depends on. *)
Restoring == ReconcileSteps \ {"clean"}
Watched == ReconcileSteps \cup AdmissionSteps \cup {"reconcile"}

(* A request for a plan, an approval, a cancellation or an execution, or a  *)
(* lapse: it moves the status at most.                                      *)
Bystands ==
  /\ UNCHANGED <<attempts, rollbacks, jobs, latest, worker, worktree, spent.overlapped>>
  /\ \/ claim'.exec = claim.exec /\ claim'.execLapsed = claim.execLapsed
     \/ ExecutionFree \/ \A d \in Callers : callers[d].pc \in PlanningSteps
  /\ \A d \in Callers : callers'[d].pc \in Watched => callers'[d] = callers[d]
  /\ \/ task'.status = task.status
     \/ /\ task'.status \in ALLOWED_TRANSITIONS[task.status]
        /\ task'.status \in {"planning", "awaiting_approval", "approved",
                             "reapproval_required", "cancelled"}

Owners(c) ==
  CreateAttempt(c) \/ Dispatch(c) \/ UndoRetry(c) \/ Recovery(c) \/ Retry(c) \/ Reconciliation(c)

LEMMA Bystanders ==
  ASSUME RecordShape, [Next]_vars
  PROVE  Bystands \/ (\E c \in Callers : Owners(c)) \/ Worker \/ ProcessRestarts
<1> USE DEF RecordShape, CallerShape
<1>w. /\ Watched \cap {"idle", "plan_check", "generate", "attach", "replace", "stale", "planned",
                       "release", "approve", "admit", "flag", "cancel", "create"} = {}
  BY DEF Watched, ReconcileSteps, AdmissionSteps
<1>q. ASSUME NEW c \in Callers, NEW q, q.pc \notin Watched, callers' = [callers EXCEPT ![c] = q]
      PROVE  \A d \in Callers : callers'[d].pc \in Watched => callers'[d] = callers[d]
  BY <1>q
<1>1. CASE UNCHANGED vars
  BY <1>1 DEF vars, record, process, Bystands
<1> DEFINE Rest == /\ UNCHANGED <<attempts, rollbacks, jobs, latest, worker, worktree, spent.overlapped>>
                   /\ claim'.exec = claim.exec /\ claim'.execLapsed = claim.execLapsed
           Moves == \/ task'.status = task.status
                    \/ /\ task'.status \in ALLOWED_TRANSITIONS[task.status]
                       /\ task'.status \in {"planning", "awaiting_approval", "approved",
                                            "reapproval_required", "cancelled"}
           Turns(c) == \E q : q.pc \notin Watched /\ callers' = [callers EXCEPT ![c] = q]
<1>b. ASSUME NEW c \in Callers, Rest, Moves, Turns(c) PROVE Bystands
  BY <1>b, <1>q DEF Bystands
<1>h. ASSUME NEW c \in Callers, NEW pc, NEW seen, NEW p, NEW k, Holding(c, pc, seen, p, k),
             pc \notin Watched
      PROVE  Turns(c)
  BY <1>h DEF Holding, Idle
<1>r. ASSUME NEW c \in Callers, Returns(c) PROVE Turns(c)
  BY <1>r, <1>w DEF Returns, Idle
<1>g. ASSUME NEW c \in Callers, NEW pc, Goto(c, pc), pc \notin Watched PROVE Turns(c)
  BY <1>g DEF Goto
<1> HIDE DEF Turns
<1>2. ASSUME NEW c \in Callers, ClaimPlanning(c) PROVE Bystands
  <2>1. Rest /\ Moves BY <1>2 DEF ClaimPlanning, Arrives, process
  <2>2. Turns(c) BY <1>2, <1>h, <1>w DEF ClaimPlanning
  <2> QED BY <1>b, <2>1, <2>2
<1>3. ASSUME NEW c \in Callers, BeginPlanning(c) PROVE Bystands
  <2>1. Rest BY <1>3 DEF BeginPlanning, At, process
  <2>2. Moves BY <1>3 DEF BeginPlanning, Moved, ALLOWED_TRANSITIONS
  <2>3. Turns(c) BY <1>3, <1>g, <1>w DEF BeginPlanning
  <2> QED BY <1>b, <2>1, <2>2, <2>3
<1>4. ASSUME NEW c \in Callers, GeneratePlan(c) PROVE Bystands
  <2>1. Rest /\ Moves BY <1>4 DEF GeneratePlan, At, Arrives, process
  <2>2. Turns(c) BY <1>4, <1>h, <1>g, <1>w DEF GeneratePlan
  <2> QED BY <1>b, <2>1, <2>2
<1>5. ASSUME NEW c \in Callers, AttachPlan(c) PROVE Bystands
  <2>1. Rest /\ Moves BY <1>5 DEF AttachPlan, At, process
  <2>2. Turns(c) BY <1>5, <1>h, <1>w DEF AttachPlan
  <2> QED BY <1>b, <2>1, <2>2
<1>6. ASSUME NEW c \in Callers, ReplacePlan(c) PROVE Bystands
  <2>1. Rest BY <1>6 DEF ReplacePlan, At, process
  <2>3. Moves
    <3>1. PICK a : task' = [[[task EXCEPT !.plan = callers[c].plan] EXCEPT !.fresh = TRUE]
                              EXCEPT !.approval = a]
      BY <1>6 DEF ReplacePlan
    <3> QED BY <3>1
  <2>2. Turns(c) BY <1>6, <1>h, <1>w DEF ReplacePlan
  <2> QED BY <1>b, <2>1, <2>2, <2>3
<1>7. ASSUME NEW c \in Callers, RequireReapproval(c) PROVE Bystands
  <2>1. Rest BY <1>7 DEF RequireReapproval, At, process
  <2>2. Moves BY <1>7 DEF RequireReapproval, MovedIfAllowed, Moved, CanMoveTo
  <2>3. Turns(c) BY <1>7, <1>h, <1>g, <1>w DEF RequireReapproval, NextOrRelease
  <2> QED BY <1>b, <2>1, <2>2, <2>3
<1>8. ASSUME NEW c \in Callers, FinishPlanning(c) PROVE Bystands
  <2>1. Rest BY <1>8 DEF FinishPlanning, At, process
  <2>2. Moves
    <3>1. \/ task' = task
          \/ task.status = "planning" /\ (task' = Moved("approved") \/ task' = Moved("awaiting_approval"))
      BY <1>8 DEF FinishPlanning
    <3>2. Moved("approved").status = "approved"
          /\ Moved("awaiting_approval").status = "awaiting_approval"
      BY DEF Moved
    <3>3. {"approved", "awaiting_approval"} \subseteq ALLOWED_TRANSITIONS["planning"]
      BY DEF ALLOWED_TRANSITIONS
    <3> QED BY <3>1, <3>2, <3>3
  <2>3. Turns(c) BY <1>8, <1>h, <1>w DEF FinishPlanning
  <2> QED BY <1>b, <2>1, <2>2, <2>3
<1>9. ASSUME NEW c \in Callers, ReleasePlanning(c) PROVE Bystands
  <2>1. Rest /\ Moves BY <1>9 DEF ReleasePlanning, At, process
  <2>2. Turns(c) BY <1>9, <1>r DEF ReleasePlanning
  <2> QED BY <1>b, <2>1, <2>2
<1>10. ASSUME NEW c \in Callers, ReviewPlan(c) PROVE Bystands
  <2>1. Rest /\ Moves BY <1>10 DEF ReviewPlan, Arrives, record, process
  <2>2. Turns(c) BY <1>10, <1>h, <1>w DEF ReviewPlan
  <2> QED BY <1>b, <2>1, <2>2
<1>11. ASSUME NEW c \in Callers, AttachApproval(c) PROVE Bystands
  <2>1. Rest /\ Moves BY <1>11 DEF AttachApproval, At, process
  <2>2. Turns(c) BY <1>11, <1>h, <1>r, <1>w DEF AttachApproval
  <2> QED BY <1>b, <2>1, <2>2
<1>12. ASSUME NEW c \in Callers, MoveToApproved(c) PROVE Bystands
  <2>1. Rest BY <1>12 DEF MoveToApproved, At, process
  <2>2. Moves BY <1>12 DEF MoveToApproved, MovedIfAllowed, Moved, CanMoveTo
  <2>3. Turns(c) BY <1>12, <1>r DEF MoveToApproved
  <2> QED BY <1>b, <2>1, <2>2, <2>3
<1>13. ASSUME NEW c \in Callers, ReadForCancel(c) PROVE Bystands
  <2>1. Rest /\ Moves BY <1>13 DEF ReadForCancel, Arrives, record, process
  <2>2. Turns(c) BY <1>13, <1>h, <1>w DEF ReadForCancel
  <2> QED BY <1>b, <2>1, <2>2
<1>14. ASSUME NEW c \in Callers, FlagCancel(c) PROVE Bystands
  <2>1. Rest /\ Moves BY <1>14 DEF FlagCancel, At, process
  <2>2. Turns(c) BY <1>14, <1>h, <1>r, <1>w DEF FlagCancel
  <2> QED BY <1>b, <2>1, <2>2
<1>15. ASSUME NEW c \in Callers, MoveToCancelled(c) PROVE Bystands
  <2>1. Rest BY <1>15 DEF MoveToCancelled, At, process
  <2>2. Moves BY <1>15 DEF MoveToCancelled, MovedIfAllowed, Moved, CanMoveTo
  <2>3. Turns(c) BY <1>15, <1>r DEF MoveToCancelled
  <2> QED BY <1>b, <2>1, <2>2, <2>3
<1>16. ASSUME NEW c \in Callers, ClaimExecution(c) PROVE Bystands
  <2>1. /\ UNCHANGED <<attempts, rollbacks, jobs, latest, worker, worktree, spent.overlapped>>
        /\ ExecutionFree /\ task' = task
    BY <1>16 DEF ClaimExecution, Arrives, process
  <2>2. Turns(c) BY <1>16, <1>h, <1>w DEF ClaimExecution
  <2> QED BY <1>q, <2>1, <2>2 DEF Bystands, Turns
<1>17. ASSUME LeaseLapses PROVE Bystands
  <2>1. /\ UNCHANGED <<attempts, rollbacks, jobs, latest, worker, worktree, spent.overlapped>>
        /\ task' = task /\ callers' = callers
    BY <1>17 DEF LeaseLapses, process
  <2>2. \/ claim'.exec = claim.exec /\ claim'.execLapsed = claim.execLapsed
        \/ \A d \in Callers : callers[d].pc \in PlanningSteps
    BY <1>17 DEF LeaseLapses
  <2> QED BY <2>1, <2>2 DEF Bystands
<1> QED
  BY <1>1, <1>2, <1>3, <1>4, <1>5, <1>6, <1>7, <1>8, <1>9, <1>10, <1>11, <1>12, <1>13, <1>14,
     <1>15, <1>16, <1>17 DEF Next, Planning, Approval, Cancellation, Execution, Owners

LEMMA TreeStep ==
  ASSUME RecordShape, TreeShape, [Next]_vars
  PROVE  TreeShape'
<1>1. CASE UNCHANGED <<worktree, rollbacks>>
  BY <1>1 DEF TreeShape
<1>2. CASE Worker
  <2>1. UNCHANGED rollbacks
    BY <1>2 DEF Worker, LoadPlan, SetUpWorktree, MarkExecutionStarted, Edit, CheckCancelled,
       MarkValidationStarted, MarkWorktreeValidating, Validate, ImportValidation, Decide,
       PersistExecution, FinalizeHistory, LeaveWorktree, CompleteFuture, record
  <2>2. CASE UNCHANGED worktree BY <1>1, <2>1, <2>2
  <2>3. CASE \/ SetUpWorktree \/ Edit \/ MarkWorktreeValidating \/ Validate \/ Decide
             \/ LeaveWorktree
    <3>1. DOMAIN worktree' = {"state", "dirty", "plan"}
      BY <2>3 DEF SetUpWorktree, Edit, MarkWorktreeValidating, Validate, Decide, LeaveWorktree,
         TreeShape
    <3> QED BY <2>1, <3>1 DEF TreeShape
  <2> QED BY <1>2, <2>2, <2>3 DEF Worker, LoadPlan, MarkExecutionStarted, CheckCancelled,
       MarkValidationStarted, ImportValidation, PersistExecution, FinalizeHistory, CompleteFuture
<1>3. ASSUME NEW c \in Callers, Owners(c) PROVE TreeShape'
  <2>1. CASE IsolateForRecovery(c) \/ MarkRolledBack(c)
    <3>1. UNCHANGED rollbacks BY <2>1 DEF IsolateForRecovery, MarkRolledBack, record
    <3>2. DOMAIN worktree' = {"state", "dirty", "plan"}
      BY <2>1 DEF IsolateForRecovery, MarkRolledBack, TreeShape
    <3> QED BY <3>1, <3>2 DEF TreeShape
  <2>2. CASE StartRollback(c) \/ RestoreBaseline(c) \/ CleanRolledBack(c)
    <3>1. DOMAIN worktree' = {"state", "dirty", "plan"}
      BY <2>2 DEF StartRollback, RestoreBaseline, CleanRolledBack, TreeShape
    <3>2. DOMAIN rollbacks' = Keys
      BY <2>2 DEF StartRollback, RestoreBaseline, CleanRolledBack, TreeShape
    <3>3. \A k \in Keys : DOMAIN rollbacks'[k] = DOMAIN rollbacks[k]
      <4>1. CASE StartRollback(c) BY <4>1 DEF StartRollback, TreeShape
      <4>2. CASE RestoreBaseline(c) BY <4>2 DEF RestoreBaseline, TreeShape
      <4>3. CASE CleanRolledBack(c) BY <4>3 DEF CleanRolledBack, TreeShape
      <4> QED BY <2>2, <4>1, <4>2, <4>3
    <3> QED BY <3>1, <3>2, <3>3 DEF TreeShape
  <2>3. CASE ~(IsolateForRecovery(c) \/ MarkRolledBack(c) \/ StartRollback(c)
               \/ RestoreBaseline(c) \/ CleanRolledBack(c))
    <3>1. UNCHANGED <<worktree, rollbacks>>
      BY <1>3, <2>3 DEF Owners, Recovery, Retry, Reconciliation, CreateAttempt, Dispatch, UndoRetry,
         InspectInterruption, MarkRecoveryRequired, BeginRecoveryAttempt, InspectRollback,
         BeginRolledBackRetry, InspectFailedValidation, ResumeFinishedRollback, RequireRecovery,
         FinalizeRollback, InspectFailedRetrySetup, ReconcileFailedRetrySetup, record
    <3> QED BY <1>1, <3>1
  <2> QED BY <2>1, <2>2, <2>3
<1> QED BY <1>1, <1>2, <1>3, Bystanders DEF Bystands, ProcessRestarts

-----------------------------------------------------------------------------
(* Which attempts a future can still run.                                   *)

(* A request that dispatches did before, or has just admitted its attempt.  *)
LEMMA DispatchesCome ==
  ASSUME RecordShape, [Next]_vars
  PROVE  \A d \in Callers : callers'[d].pc = "dispatch" =>
           \/ callers[d].pc = "dispatch" /\ callers'[d].attempt = callers[d].attempt
           \/ callers'[d].attempt = Len(attempts) + 1
<1> DEFINE Goal == \A d \in Callers : callers'[d].pc = "dispatch" =>
             \/ callers[d].pc = "dispatch" /\ callers'[d].attempt = callers[d].attempt
             \/ callers'[d].attempt = Len(attempts) + 1
<1> USE DEF RecordShape, CallerShape
<1>1. CASE Untouched BY <1>1 DEF Untouched
<1>2. CASE UNCHANGED callers BY <1>2
<1>3. CASE ProcessRestarts BY <1>3 DEF ProcessRestarts, Idle
<1>4. ASSUME NEW c \in Callers, NEW q, q.pc # "dispatch", callers' = [callers EXCEPT ![c] = q]
      PROVE  Goal
  BY <1>4
<1>5. ASSUME NEW c \in Callers, Dispatching(c) PROVE Goal
  <2>1. PICK n : n = Len(attempts) + 1 OBVIOUS
  <2>2. PICK q : q = [[Idle EXCEPT !.pc = "dispatch"] EXCEPT !.attempt = n] OBVIOUS
  <2>3. callers' = [callers EXCEPT ![c] = q] BY <1>5, <2>1, <2>2 DEF Dispatching
  <2>4. q.attempt = n BY <2>2 DEF Idle
  <2> QED BY <2>1, <2>3, <2>4
<1>6. ASSUME NEW c \in Callers, Returns(c) PROVE Goal
  BY <1>4, <1>6 DEF Returns, Idle
<1>7. ASSUME NEW c \in Callers, NEW pc, Goto(c, pc), pc # "dispatch" PROVE Goal
  BY <1>4, <1>7 DEF Goto
<1>8. ASSUME NEW c \in Callers, Admissions(c) PROVE Goal
  <2>1. CASE ClaimExecution(c)
    BY <1>4, <2>1 DEF ClaimExecution, Holding, Idle
  <2>2. CASE CreateAttempt(c) \/ BeginRecoveryAttempt(c) \/ BeginRolledBackRetry(c)
             \/ ReconcileFailedRetrySetup(c)
    <3>1. Dispatching(c) \/ Returns(c)
      BY <2>2 DEF CreateAttempt, BeginRecoveryAttempt, BeginRolledBackRetry,
         ReconcileFailedRetrySetup
    <3> QED BY <1>5, <1>6, <3>1
  <2>3. CASE Dispatch(c) \/ MarkRecoveryRequired(c)
    <3>1. Returns(c) \/ Goto(c, "undo") \/ Goto(c, "recover")
      BY <2>3 DEF Dispatch, MarkRecoveryRequired, NextOrReturn
    <3> QED BY <1>6, <1>7, <3>1
  <2> QED BY <1>8, <2>1, <2>2, <2>3 DEF Admissions
<1>9. ASSUME ImportValidation \/ PersistExecution \/ CompleteFuture \/ LeaseLapses
      PROVE  UNCHANGED callers
  BY <1>9 DEF ImportValidation, PersistExecution, CompleteFuture, WorkerAt, LeaseLapses
<1> QED BY <1>1, <1>2, <1>3, <1>8, <1>9, QuietSteps DEF Disturbs

(* A future was there before, or a request that dispatches submits it.      *)
LEMMA FuturesCome ==
  ASSUME Rows, [Next]_vars
  PROVE  \A j \in DOMAIN jobs' :
           \/ \E m \in DOMAIN jobs : jobs'[j].attempt = jobs[m].attempt
           \/ \E d \in Callers : Dispatches(d) /\ jobs'[j].attempt = callers[d].attempt
<1>1. CASE UNCHANGED jobs BY <1>1
<1>2. CASE CompleteFuture
  <2>1. jobs # << >> /\ jobs' = Tail(jobs)
    BY <1>2 DEF CompleteFuture, WorkerAt, Rows, FutureRows
  <2> QED BY <2>1, SeqTail DEF Rows, FutureRows
<1>3. CASE ProcessRestarts
  BY <1>3, EmptySeq, LenProperties DEF ProcessRestarts
<1>4. ASSUME NEW c \in Callers, Dispatch(c), ~UNCHANGED jobs
      PROVE  \A j \in DOMAIN jobs' :
               \/ \E m \in DOMAIN jobs : jobs'[j].attempt = jobs[m].attempt
               \/ Dispatches(c) /\ jobs'[j].attempt = callers[c].attempt
  <2>1. PICK i : i = callers[c].attempt OBVIOUS
  <2>2. Submit(i) /\ Dispatches(c) BY <1>4, <2>1 DEF Dispatch, At, Dispatches
  <2>3. CASE jobs' = Append(jobs, [attempt |-> i, calls |-> {i}])
    <3>1. PICK e : e = [attempt |-> i, calls |-> {i}] OBVIOUS
    <3>2. /\ DOMAIN jobs' = 1..(Len(jobs) + 1) /\ DOMAIN jobs = 1..Len(jobs) /\ Len(jobs) \in Nat
          /\ \A n \in DOMAIN jobs : jobs'[n] = jobs[n]
          /\ jobs'[Len(jobs) + 1] = e
      BY <2>3, <3>1, SeqGrows DEF Rows, FutureRows
    <3>3. \A n \in DOMAIN jobs' : n \in DOMAIN jobs \/ n = Len(jobs) + 1 BY <3>2
    <3> QED BY <2>1, <2>2, <3>1, <3>2, <3>3
  <2>4. CASE jobs' = [n \in DOMAIN jobs |-> IF n = Len(jobs)
                                            THEN [jobs[n] EXCEPT !.calls = @ \cup {i}]
                                            ELSE jobs[n]]
    BY <2>4 DEF Rows, FutureRows
  <2> QED BY <2>2, <2>3, <2>4 DEF Submit
<1>5. ASSUME ~CompleteFuture, ~ProcessRestarts, \A c \in Callers : ~Dispatch(c)
      PROVE  UNCHANGED jobs
  <2>1. CASE Untouched BY <2>1 DEF Untouched
  <2>2. CASE ImportValidation \/ PersistExecution
    BY <2>2 DEF ImportValidation, PersistExecution
  <2>3. CASE LeaseLapses BY <2>3 DEF LeaseLapses, process
  <2>4. ASSUME NEW c \in Callers, Admissions(c) PROVE UNCHANGED jobs
    BY <1>5, <2>4 DEF Admissions, ClaimExecution, CreateAttempt, MarkRecoveryRequired,
         BeginRecoveryAttempt, BeginRolledBackRetry, ReconcileFailedRetrySetup, process
  <2> QED BY <1>5, <2>1, <2>2, <2>3, <2>4, QuietSteps DEF Disturbs, Rows
<1> QED BY <1>1, <1>2, <1>3, <1>4, <1>5

(* Neither a future nor a dispatch is left of the first n attempts: a fact  *)
(* that lasts.                                                              *)
Settled(n) ==
  /\ \A j \in DOMAIN jobs : jobs[j].attempt > n
  /\ \A d \in Callers : Dispatches(d) => callers[d].attempt > n

LEMMA SettledStays ==
  ASSUME Rows, [Next]_vars, NEW n \in DOMAIN attempts, Settled(n)
  PROVE  Settled(n)'
<1>n. n \in Nat /\ Len(attempts) \in Nat /\ n <= Len(attempts)
  BY SeqIndices DEF Rows, AttemptRows
<1>1. \A d \in Callers : Dispatches(d)' => callers'[d].attempt > n
  <2> SUFFICES ASSUME NEW d \in Callers, callers'[d].pc = "dispatch"
               PROVE  callers'[d].attempt > n
    BY DEF Dispatches
  <2>1. \/ callers[d].pc = "dispatch" /\ callers'[d].attempt = callers[d].attempt
        \/ callers'[d].attempt = Len(attempts) + 1
    BY DispatchesCome DEF Rows
  <2> QED BY <1>n, <2>1 DEF Settled, Dispatches
<1>2. \A j \in DOMAIN jobs' : jobs'[j].attempt > n
  <2> SUFFICES ASSUME NEW j \in DOMAIN jobs' PROVE jobs'[j].attempt > n
    OBVIOUS
  <2>1. \/ \E m \in DOMAIN jobs : jobs'[j].attempt = jobs[m].attempt
        \/ \E d \in Callers : Dispatches(d) /\ jobs'[j].attempt = callers[d].attempt
    BY FuturesCome DEF Rows
  <2> QED BY <2>1 DEF Settled
<1> QED BY <1>1, <1>2 DEF Settled

FuturesInOrder ==
  /\ \A m, n \in DOMAIN jobs : m < n => /\ jobs[m].attempt < jobs[n].attempt
                                        /\ jobs[m].calls \cap jobs[n].calls = {}
  /\ \A n \in DOMAIN jobs : /\ jobs[n].attempt \in jobs[n].calls
                            /\ \A i \in jobs[n].calls : attempts[i].state = "running"
  /\ jobs # << >> => latest = "running"

(* A request that dispatches has the claim, for the newest attempt.         *)
DispatchOwns ==
  /\ \A c \in Callers : Dispatches(c) =>
       /\ callers[c].attempt = Len(attempts) /\ claim.exec = Len(attempts)
       /\ claim.execLapsed = FALSE
       /\ attempts[Len(attempts)].state = "running"
       /\ \A n \in DOMAIN jobs : Len(attempts) \notin jobs[n].calls
  /\ \A c, d \in Callers : Dispatches(c) /\ Dispatches(d) => c = d

LEMMA RunningStep ==
  ASSUME Rows, [Next]_vars, jobs # << >> => latest = "running", jobs' # << >>
  PROVE  latest' = "running"
<1>1. CASE UNCHANGED <<jobs, latest>> BY <1>1
<1>2. CASE Worker
  <2>1. CASE CompleteFuture
    <3>1. jobs # << >> /\ jobs' = Tail(jobs)
      BY <2>1 DEF CompleteFuture, WorkerAt, Rows, FutureRows
    <3>2. Len(jobs) \in Nat \ {0} /\ IsSeq(jobs') /\ Len(jobs') = Len(jobs) - 1
      BY <3>1, SeqTail DEF Rows, FutureRows
    <3>3. Len(jobs) > 1 BY <3>2, EmptySeq DEF IsSeq
    <3> QED BY <2>1, <3>1, <3>3 DEF CompleteFuture
  <2>2. CASE ~CompleteFuture
    <3>1. UNCHANGED <<jobs, latest>>
      BY <1>2, <2>2 DEF Worker, LoadPlan, SetUpWorktree, MarkExecutionStarted, Edit,
         CheckCancelled, MarkValidationStarted, MarkWorktreeValidating, Validate,
         ImportValidation, Decide, PersistExecution, FinalizeHistory, LeaveWorktree
    <3> QED BY <1>1, <3>1
  <2> QED BY <2>1, <2>2
<1>3. ASSUME NEW c \in Callers, Owners(c) PROVE latest' = "running"
  <2>1. CASE Dispatch(c)
    <3>1. PICK i : i = callers[c].attempt OBVIOUS
    <3>2. CASE UNCHANGED <<jobs, latest>> BY <1>1, <3>2
    <3>3. CASE Submit(i)
      <4>1. CASE latest' = latest /\ \E n \in DOMAIN jobs : TRUE
        <5>1. jobs # << >> BY <4>1, EmptySeq, LenProperties
        <5> QED BY <4>1, <5>1
      <4> QED BY <3>3, <4>1 DEF Submit
    <3> QED BY <2>1, <3>1, <3>2, <3>3 DEF Dispatch
  <2>2. CASE ~Dispatch(c)
    <3>1. UNCHANGED <<jobs, latest>>
      BY <1>3, <2>2 DEF Owners, Recovery, Retry, Reconciliation, CreateAttempt, UndoRetry,
         InspectInterruption, MarkRecoveryRequired, BeginRecoveryAttempt, InspectRollback,
         BeginRolledBackRetry, InspectFailedValidation, ResumeFinishedRollback, StartRollback,
         RequireRecovery, IsolateForRecovery, RestoreBaseline, MarkRolledBack,
         FinalizeRollback, CleanRolledBack, InspectFailedRetrySetup, ReconcileFailedRetrySetup,
         process
    <3> QED BY <1>1, <3>1
  <2> QED BY <2>1, <2>2
<1> QED BY <1>1, <1>2, <1>3, Bystanders DEF Bystands, ProcessRestarts, Rows

Runs == FuturesInOrder /\ DispatchOwns

LEMMA NoDispatch ==
  ASSUME Rows, DispatchOwns,
         \/ ExecutionFree \/ (\E c \in Callers : claim.exec = c)
         \/ Latest.state \in {"completed", "failed"}
         \/ \A d \in Callers : callers[d].pc \in PlanningSteps
  PROVE  \A d \in Callers : ~Dispatches(d)
<1> SUFFICES ASSUME NEW d \in Callers, Dispatches(d) PROVE FALSE
  OBVIOUS
<1>1. Len(attempts) \in DOMAIN attempts BY DEF DispatchOwns, Dispatches, Rows, NamedAttempts
<1> QED BY <1>1, NamesDiffer DEF DispatchOwns, ExecutionFree, Latest, Dispatches, PlanningSteps

LEMMA SteadyRuns ==
  ASSUME Rows, Runs, UNCHANGED jobs, Len(attempts') = Len(attempts),
         \A i \in DOMAIN attempts : attempts'[i].state = attempts[i].state,
         \/ claim'.exec = claim.exec /\ (claim.execLapsed = FALSE => claim'.execLapsed = FALSE)
         \/ \A d \in Callers : ~Dispatches(d),
         \A d \in Callers : callers'[d].pc = "dispatch" =>
            callers[d].pc = "dispatch" /\ callers'[d].attempt = callers[d].attempt,
         jobs' # << >> => latest' = "running"
  PROVE  Runs'
<1>1. \A n \in DOMAIN jobs : jobs[n].calls \subseteq DOMAIN attempts BY DEF Rows, FutureRows
<1>2. FuturesInOrder' BY <1>1 DEF Runs, FuturesInOrder
<1>3. \A d \in Callers : Dispatches(d)' => Dispatches(d) /\ callers'[d].attempt = callers[d].attempt
  BY DEF Dispatches
<1>4. \A d \in Callers : Dispatches(d) => Len(attempts) \in DOMAIN attempts
  BY DEF Runs, DispatchOwns, Dispatches, Rows, NamedAttempts
<1>5. DispatchOwns' BY <1>3, <1>4 DEF Runs, DispatchOwns
<1> QED BY <1>2, <1>5 DEF Runs

LEMMA AdmissionRuns ==
  ASSUME Rows, Runs, NEW c \in Callers, \A d \in Callers : ~Dispatches(d),
         NEW kind, NEW p, NEW k, Admitted(kind, p, k), Dispatching(c), UNCHANGED jobs,
         jobs' # << >> => latest' = "running"
  PROVE  Runs'
<1>1. /\ AttemptRows' /\ DOMAIN attempts \subseteq DOMAIN attempts'
      /\ Len(attempts) + 1 \in DOMAIN attempts' /\ Len(attempts) \in Nat
      /\ attempts'[Len(attempts) + 1].state = "running"
      /\ \A i \in DOMAIN attempts : attempts'[i] = attempts[i]
  BY AttemptAdded DEF Rows, AttemptsGrow
<1>2. claim'.exec = Len(attempts) + 1 /\ claim'.execLapsed = FALSE
  BY DEF Admitted, Rows, RecordShape
<1>3. PICK n : n = Len(attempts) + 1 OBVIOUS
<1>4. PICK q : q = [[Idle EXCEPT !.pc = "dispatch"] EXCEPT !.attempt = n] OBVIOUS
<1>5. callers' = [callers EXCEPT ![c] = q] BY <1>3, <1>4 DEF Dispatching
<1>6. q.pc = "dispatch" /\ q.attempt = n BY <1>4 DEF Idle
<1>7. \A d \in Callers : callers'[d] = IF d = c THEN q ELSE callers[d]
  BY <1>5 DEF Rows, RecordShape
<1>8. Len(attempts') = n
  BY <1>3, SeqGrows DEF Admitted, Rows, AttemptRows
<1>9. n \notin DOMAIN attempts
  BY <1>1, <1>3, SeqIndices DEF Rows, AttemptRows
<1>10. \A m \in DOMAIN jobs : jobs[m].calls \subseteq DOMAIN attempts BY DEF Rows, FutureRows
<1>11. FuturesInOrder' BY <1>1, <1>10 DEF Runs, FuturesInOrder
<1>12. \A d \in Callers : Dispatches(d)' <=> d = c
  BY <1>6, <1>7 DEF Dispatches
<1>13. DispatchOwns'
  BY <1>1, <1>2, <1>3, <1>6, <1>7, <1>8, <1>9, <1>10, <1>12 DEF DispatchOwns
<1> QED BY <1>11, <1>13 DEF Runs

LEMMA FinishedStates ==
  ASSUME AttemptRows, NEW S, NEW failed, FinishAttempts(S, failed)
  PROVE  /\ Len(attempts') = Len(attempts)
         /\ \A i \in DOMAIN attempts :
              /\ DOMAIN attempts'[i] = DOMAIN attempts[i]
              /\ attempts'[i].kind = attempts[i].kind /\ attempts'[i].exec = attempts[i].exec
              /\ attempts'[i].reconciled = attempts[i].reconciled
              /\ i \notin S => attempts'[i].state = attempts[i].state
              /\ i \in S => attempts'[i].state # "running"
<1>1. /\ DOMAIN attempts' = DOMAIN attempts
      /\ attempts' = [i \in DOMAIN attempts' |-> attempts'[i]]
  BY DEF FinishAttempts
<1>2. Len(attempts') = Len(attempts) BY <1>1, SeqRedrawn DEF AttemptRows
<1>3. ASSUME NEW i \in DOMAIN attempts
      PROVE  /\ DOMAIN attempts'[i] = DOMAIN attempts[i]
             /\ attempts'[i].kind = attempts[i].kind /\ attempts'[i].exec = attempts[i].exec
             /\ attempts'[i].reconciled = attempts[i].reconciled
             /\ i \notin S => attempts'[i].state = attempts[i].state
             /\ i \in S => attempts'[i].state # "running"
  <2>1. CASE i \in Unfinished(S)
    <3>1. i \in S BY <2>1 DEF Unfinished
    <3>2. PICK s : s \in {"failed", "completed"} /\ attempts'[i] = [attempts[i] EXCEPT !.state = s]
      BY <2>1 DEF FinishAttempts
    <3> QED BY <3>1, <3>2 DEF AttemptRows, AttemptFields
  <2>2. CASE i \notin Unfinished(S)
    <3>1. attempts'[i] = attempts[i] BY <2>2 DEF FinishAttempts
    <3>2. i \in S => attempts[i].state # "running" BY <2>2 DEF Unfinished
    <3> QED BY <3>1, <3>2
  <2> QED BY <2>1, <2>2
<1> QED BY <1>2, <1>3

LEMMA DispatchRuns ==
  ASSUME Rows, Runs, [Next]_vars, NEW c \in Callers, Dispatch(c)
  PROVE  /\ Runs'
         /\ \A d \in Callers : ~Dispatches(d)'
<1>1. PICK i : i = callers[c].attempt OBVIOUS
<1>2. Dispatches(c) BY DEF Dispatch, At, Dispatches
<1>3. /\ i \in DOMAIN attempts /\ i = Len(attempts) /\ attempts[i].state = "running"
      /\ \A n \in DOMAIN jobs : i \notin jobs[n].calls
      /\ \A d \in Callers : Dispatches(d) => d = c
  BY <1>1, <1>2 DEF Dispatches, Rows, NamedAttempts, Runs, DispatchOwns
<1>4. PICK q : q.pc # "dispatch" /\ callers' = [callers EXCEPT ![c] = q]
  BY DEF Dispatch, Returns, NextOrReturn, Goto, Idle, Rows, RecordShape, CallerShape
<1>5. \A d \in Callers : ~Dispatches(d)'
  <2> SUFFICES ASSUME NEW d \in Callers, callers'[d].pc = "dispatch" PROVE FALSE
    BY DEF Dispatches
  <2>1. d # c /\ callers'[d] = callers[d] BY <1>4 DEF Rows, RecordShape
  <2> QED BY <1>3, <2>1 DEF Dispatches
<1>6. jobs' # << >> => latest' = "running"
  BY RunningStep DEF Runs, FuturesInOrder
<1>7. CASE FinishAttempts({i}, TRUE) /\ UNCHANGED jobs
  <2>0. FinishAttempts({i}, TRUE) /\ AttemptRows BY <1>7 DEF Rows
  <2>1. /\ DOMAIN attempts' = DOMAIN attempts
        /\ \A j \in DOMAIN attempts : j # i => attempts'[j].state = attempts[j].state
    <3>1. DOMAIN attempts' = DOMAIN attempts BY <2>0, AttemptsFinished
    <3>2. \A j \in DOMAIN attempts : j \notin {i} => attempts'[j].state = attempts[j].state
      BY <2>0, FinishedStates
    <3> QED BY <3>1, <3>2
  <2>2. \A n \in DOMAIN jobs : jobs[n].calls \subseteq DOMAIN attempts BY DEF Rows, FutureRows
  <2>3. FuturesInOrder' BY <1>3, <1>6, <1>7, <2>1, <2>2 DEF Runs, FuturesInOrder
  <2> QED BY <1>5, <2>3 DEF Runs, DispatchOwns
<1>8. CASE Submit(i) /\ UNCHANGED attempts
  <2>0. Len(jobs) \in Nat /\ DOMAIN jobs = 1..Len(jobs)
    BY SeqIndices DEF Rows, FutureRows
  <2>1. \A n \in DOMAIN jobs : jobs[n].calls \subseteq DOMAIN attempts /\ jobs[n].attempt \in Nat
                               /\ jobs[n].attempt < i
    <3>1. \A n \in DOMAIN jobs : jobs[n].attempt \in DOMAIN attempts /\ jobs[n].attempt # i
      BY <1>3 DEF Rows, FutureRows, Runs, FuturesInOrder
    <3>2. DOMAIN attempts = 1..Len(attempts) /\ Len(attempts) \in Nat
      BY SeqIndices DEF Rows, AttemptRows
    <3> QED BY <1>3, <3>1, <3>2 DEF Rows, FutureRows
  <2>2. CASE jobs' = Append(jobs, [attempt |-> i, calls |-> {i}])
    <3>1. PICK e : e = [attempt |-> i, calls |-> {i}] OBVIOUS
    <3>2. /\ DOMAIN jobs' = 1..(Len(jobs) + 1)
          /\ \A n \in DOMAIN jobs : jobs'[n] = jobs[n]
          /\ jobs'[Len(jobs) + 1] = e
      BY <2>2, <3>1, SeqGrows DEF Rows, FutureRows
    <3>3. \A n \in DOMAIN jobs' : n \in DOMAIN jobs \/ n = Len(jobs) + 1 BY <2>0, <3>2
    <3>4. e.attempt = i /\ e.calls = {i} BY <3>1
    <3>5. ASSUME NEW m \in DOMAIN jobs', NEW n \in DOMAIN jobs', m < n
          PROVE  jobs'[m].attempt < jobs'[n].attempt /\ jobs'[m].calls \cap jobs'[n].calls = {}
      <4>1. m \in DOMAIN jobs BY <2>0, <3>2, <3>5
      <4>2. CASE n \in DOMAIN jobs BY <3>2, <3>5, <4>1, <4>2 DEF Runs, FuturesInOrder
      <4>3. CASE n = Len(jobs) + 1
        BY <1>3, <2>1, <3>2, <3>4, <4>1, <4>3
      <4> QED BY <3>3, <4>2, <4>3
    <3>6. ASSUME NEW n \in DOMAIN jobs'
          PROVE  jobs'[n].attempt \in jobs'[n].calls
                 /\ \A j \in jobs'[n].calls : attempts'[j].state = "running"
      BY <1>3, <1>8, <3>2, <3>3, <3>4 DEF Runs, FuturesInOrder
    <3>7. FuturesInOrder' BY <1>6, <3>5, <3>6 DEF FuturesInOrder
    <3> QED BY <1>5, <3>7 DEF Runs, DispatchOwns
  <2>3. CASE jobs' = [n \in DOMAIN jobs |-> IF n = Len(jobs)
                                            THEN [jobs[n] EXCEPT !.calls = @ \cup {i}]
                                            ELSE jobs[n]]
    <3>1. DOMAIN jobs' = DOMAIN jobs BY <2>3
    <3>2. \A n \in DOMAIN jobs : /\ jobs'[n].attempt = jobs[n].attempt
                                 /\ n # Len(jobs) => jobs'[n].calls = jobs[n].calls
                                 /\ n = Len(jobs) => jobs'[n].calls = jobs[n].calls \cup {i}
      BY <2>3 DEF Rows, FutureRows
    <3>3. ASSUME NEW m \in DOMAIN jobs, NEW n \in DOMAIN jobs, m < n
          PROVE  jobs'[m].attempt < jobs'[n].attempt /\ jobs'[m].calls \cap jobs'[n].calls = {}
      <4>1. m # Len(jobs) BY <2>0, <3>3
      <4>2. jobs'[m].calls = jobs[m].calls /\ jobs'[n].calls \subseteq jobs[n].calls \cup {i}
        BY <3>2, <4>1
      <4>3. jobs[m].calls \cap jobs[n].calls = {} /\ jobs[m].attempt < jobs[n].attempt
        BY <3>3 DEF Runs, FuturesInOrder
      <4> QED BY <1>3, <3>2, <4>2, <4>3
    <3>4. ASSUME NEW n \in DOMAIN jobs
          PROVE  jobs'[n].attempt \in jobs'[n].calls
                 /\ \A j \in jobs'[n].calls : attempts'[j].state = "running"
      BY <1>3, <1>8, <3>2 DEF Runs, FuturesInOrder
    <3>5. FuturesInOrder' BY <1>6, <3>1, <3>3, <3>4 DEF FuturesInOrder
    <3> QED BY <1>5, <3>5 DEF Runs, DispatchOwns
  <2> QED BY <1>8, <2>2, <2>3 DEF Submit
<1> QED BY <1>1, <1>5, <1>7, <1>8 DEF Dispatch

LEMMA CompletionRuns ==
  ASSUME Rows, Runs, [Next]_vars, CompleteFuture
  PROVE  Runs'
<1>1. PICK S, failed : S = jobs[1].calls /\ failed = ~worker.ok OBVIOUS
<1>2. FinishAttempts(S, failed) /\ jobs' = Tail(jobs) /\ UNCHANGED callers
  BY <1>1 DEF CompleteFuture, WorkerAt
<1>3. jobs # << >> BY DEF CompleteFuture, WorkerAt, Rows, FutureRows
<1>4. /\ DOMAIN attempts' = DOMAIN attempts /\ Len(attempts') = Len(attempts)
      /\ \A j \in DOMAIN attempts : j \notin S => attempts'[j].state = attempts[j].state
  BY <1>2, FinishedStates, AttemptsFinished DEF Rows
<1>5. \A n \in DOMAIN jobs' : n + 1 \in DOMAIN jobs /\ jobs'[n] = jobs[n + 1] /\ 1 \in DOMAIN jobs
                              /\ n \in Nat \ {0}
  <2>1. /\ IsSeq(jobs') /\ Len(jobs') = Len(jobs) - 1 /\ Len(jobs) \in Nat \ {0}
        /\ \A i \in DOMAIN Tail(jobs) : i + 1 \in DOMAIN jobs /\ Tail(jobs)[i] = jobs[i + 1]
    BY <1>2, <1>3, SeqTail DEF Rows, FutureRows
  <2>2. DOMAIN jobs' = 1..(Len(jobs) - 1) /\ DOMAIN jobs = 1..Len(jobs)
    BY <2>1, SeqIndices DEF Rows, FutureRows
  <2> QED BY <1>2, <2>1, <2>2
<1>6. \A n \in DOMAIN jobs : jobs[n].calls \subseteq DOMAIN attempts BY DEF Rows, FutureRows
<1>7. \A n \in DOMAIN jobs' : jobs'[n].calls \cap S = {}
  <2> SUFFICES ASSUME NEW n \in DOMAIN jobs' PROVE jobs'[n].calls \cap S = {}
    OBVIOUS
  <2>1. 1 < n + 1 BY <1>5
  <2>2. S \cap jobs[n + 1].calls = {} BY <1>1, <1>5, <2>1 DEF Runs, FuturesInOrder
  <2> QED BY <1>5, <2>2
<1>8. jobs' # << >> => latest' = "running"
  BY RunningStep DEF Runs, FuturesInOrder
<1>9. FuturesInOrder'
  <2>1. ASSUME NEW m \in DOMAIN jobs', NEW n \in DOMAIN jobs', m < n
        PROVE  jobs'[m].attempt < jobs'[n].attempt /\ jobs'[m].calls \cap jobs'[n].calls = {}
    <3>1. m + 1 < n + 1 BY <1>5, <2>1
    <3> QED BY <1>5, <3>1 DEF Runs, FuturesInOrder
  <2>2. ASSUME NEW n \in DOMAIN jobs'
        PROVE  jobs'[n].attempt \in jobs'[n].calls
               /\ \A j \in jobs'[n].calls : attempts'[j].state = "running"
    <3>1. jobs[n + 1].attempt \in jobs[n + 1].calls
          /\ \A j \in jobs[n + 1].calls : attempts[j].state = "running"
      BY <1>5 DEF Runs, FuturesInOrder
    <3>2. \A j \in jobs'[n].calls : j \in DOMAIN attempts /\ j \notin S
      BY <1>5, <1>6, <1>7
    <3> QED BY <1>4, <1>5, <3>1, <3>2
  <2> QED BY <1>8, <2>1, <2>2 DEF FuturesInOrder
<1>10. ASSUME NEW c \in Callers, Dispatches(c)
       PROVE  Len(attempts) \notin S /\ Len(attempts) \in DOMAIN attempts
  <2>1. 1 \in DOMAIN jobs
    BY <1>3, SeqIndices, EmptySeq DEF Rows, FutureRows, IsSeq
  <2> QED BY <1>1, <1>10, <2>1 DEF Runs, DispatchOwns, Dispatches, Rows, NamedAttempts
<1>11. ASSUME NEW c \in Callers, Dispatches(c)
       PROVE  claim' = claim
  <2>1. claim.exec \notin Unfinished(S)
    BY <1>10, <1>11 DEF Unfinished, Runs, DispatchOwns
  <2> QED BY <1>2, <2>1 DEF FinishAttempts
<1>12. DispatchOwns'
  BY <1>2, <1>4, <1>5, <1>10, <1>11 DEF Runs, DispatchOwns, Dispatches
<1> QED BY <1>9, <1>12 DEF Runs

(* A report leaves every attempt's kind, state and reconciliation.          *)
LEMMA ReportsKeep ==
  ASSUME Rows, ImportValidation \/ PersistExecution
  PROVE  /\ Len(attempts') = Len(attempts) /\ DOMAIN attempts' = DOMAIN attempts
         /\ \A i \in DOMAIN attempts :
              /\ attempts'[i].kind = attempts[i].kind /\ attempts'[i].state = attempts[i].state
              /\ attempts'[i].reconciled = attempts[i].reconciled
              /\ attempts'[i].exec = attempts[i].exec \/ i = jobs[1].attempt
<1> USE DEF AttemptFields
<1>1. \A i \in DOMAIN attempts : DOMAIN attempts[i] = AttemptFields
  BY DEF Rows, AttemptRows
<1>2. CASE attempts' = attempts BY <1>2
<1>3. ASSUME NEW j, NEW r, attempts' = [attempts EXCEPT ![j] = r]
      PROVE  Len(attempts') = Len(attempts) /\ DOMAIN attempts' = DOMAIN attempts
  <2>1. DOMAIN attempts' = DOMAIN attempts /\ attempts' = [i \in DOMAIN attempts' |-> attempts'[i]]
    BY <1>3
  <2> QED BY <2>1, SeqRedrawn DEF Rows, AttemptRows
<1>4. CASE \E v : attempts' = [attempts EXCEPT ![Mine].valid = v]
  <2>1. PICK v : attempts' = [attempts EXCEPT ![Mine].valid = v] BY <1>4
  <2>2. PICK j : j = Mine OBVIOUS
  <2>3. PICK r : r = [attempts[j] EXCEPT !.valid = v] OBVIOUS
  <2>4. attempts' = [attempts EXCEPT ![j] = r] BY <2>1, <2>2, <2>3
  <2>5. j \in DOMAIN attempts =>
          /\ r.kind = attempts[j].kind /\ r.state = attempts[j].state
          /\ r.reconciled = attempts[j].reconciled /\ r.exec = attempts[j].exec
    BY <1>1, <2>3
  <2>6. \A i \in DOMAIN attempts : attempts'[i] = IF i = j THEN r ELSE attempts[i] BY <2>4
  <2> QED BY <1>3, <2>4, <2>5, <2>6
<1>5. CASE attempts' = [attempts EXCEPT
               ![Mine].exec = worker.outcome,
               ![Mine].artifact = @ \/ attempts[Mine].state = "running"]
  <2>1. PICK j : j = Mine OBVIOUS
  <2>2. PICK r : r = [[attempts[j] EXCEPT !.exec = worker.outcome] EXCEPT
                        !.artifact = @ \/ attempts[j].state = "running"]
    OBVIOUS
  <2>3. attempts' = [attempts EXCEPT ![j] = r] BY <1>5, <2>1, <2>2
  <2>4. j \in DOMAIN attempts =>
          /\ r.kind = attempts[j].kind /\ r.state = attempts[j].state
          /\ r.reconciled = attempts[j].reconciled
    BY <1>1, <2>2
  <2>5. \A i \in DOMAIN attempts : attempts'[i] = IF i = j THEN r ELSE attempts[i] BY <2>3
  <2> QED BY <1>3, <2>1, <2>3, <2>4, <2>5 DEF Mine
<1> QED BY <1>2, <1>4, <1>5 DEF ImportValidation, PersistExecution

LEMMA ReconciledKeeps ==
  ASSUME AttemptRows, attempts' = [attempts EXCEPT ![Len(attempts)].reconciled = TRUE]
  PROVE  /\ Len(attempts') = Len(attempts) /\ DOMAIN attempts' = DOMAIN attempts
         /\ \A i \in DOMAIN attempts :
              /\ attempts'[i].kind = attempts[i].kind /\ attempts'[i].state = attempts[i].state
              /\ attempts'[i].exec = attempts[i].exec
              /\ attempts'[i].reconciled = attempts[i].reconciled \/ i = Len(attempts)
<1>1. PICK j : j = Len(attempts) OBVIOUS
<1>2. PICK r : r = [attempts[j] EXCEPT !.reconciled = TRUE] OBVIOUS
<1>3. attempts' = [attempts EXCEPT ![j] = r] BY <1>1, <1>2
<1>4. DOMAIN attempts' = DOMAIN attempts /\ attempts' = [i \in DOMAIN attempts' |-> attempts'[i]]
  BY <1>3
<1>5. j \in DOMAIN attempts => /\ r.kind = attempts[j].kind /\ r.state = attempts[j].state
                               /\ r.exec = attempts[j].exec
  BY <1>2 DEF AttemptRows, AttemptFields
<1>6. \A i \in DOMAIN attempts : attempts'[i] = IF i = j THEN r ELSE attempts[i] BY <1>3
<1> QED BY <1>1, <1>4, <1>5, <1>6, SeqRedrawn DEF AttemptRows

LEMMA RunsStep == ASSUME Rows, Runs, [Next]_vars PROVE Runs'
<1> DEFINE Kept == \A d \in Callers : callers'[d].pc = "dispatch" =>
                     callers[d].pc = "dispatch" /\ callers'[d].attempt = callers[d].attempt
<1>0. jobs' # << >> => latest' = "running"
  BY RunningStep DEF Runs, FuturesInOrder
<1>1. CASE Untouched
  BY <1>0, <1>1, SteadyRuns DEF Untouched
<1>2. CASE ImportValidation \/ PersistExecution
  <2>1. UNCHANGED <<jobs, claim, callers>>
    BY <1>2 DEF ImportValidation, PersistExecution, WorkerAt
  <2>2. Len(attempts') = Len(attempts)
        /\ \A i \in DOMAIN attempts : attempts'[i].state = attempts[i].state
    BY <1>2, ReportsKeep
  <2> QED BY <1>0, <2>1, <2>2, SteadyRuns
<1>3. CASE CompleteFuture BY <1>3, CompletionRuns
<1>4. CASE LeaseLapses
  <2>1. UNCHANGED <<attempts, jobs, callers>> BY <1>4 DEF LeaseLapses, process
  <2>2. CASE claim'.exec = claim.exec /\ claim'.execLapsed = claim.execLapsed
    BY <1>0, <2>1, <2>2, SteadyRuns
  <2>3. CASE \A d \in Callers : callers[d].pc \in PlanningSteps
    <3>1. \A d \in Callers : ~Dispatches(d) BY <2>3, NoDispatch DEF Runs
    <3> QED BY <1>0, <2>1, <3>1, SteadyRuns
  <2>4. \/ claim' = [claim EXCEPT !.planLapsed = TRUE]
        \/ \A d \in Callers : callers[d].pc \in PlanningSteps
    BY <1>4 DEF LeaseLapses
  <2> QED BY <2>2, <2>3, <2>4 DEF Rows, RecordShape
<1>5. CASE ProcessRestarts
  <2>1. jobs' = << >> /\ \A d \in Callers : callers'[d].pc = "idle"
    BY <1>5 DEF ProcessRestarts, Idle
  <2>2. DOMAIN jobs' = {} BY <2>1
  <2> QED BY <2>1, <2>2 DEF Runs, FuturesInOrder, DispatchOwns, Dispatches
<1>6. ASSUME NEW c \in Callers, Dispatch(c) PROVE Runs'
  BY <1>6, DispatchRuns
<1>7. ASSUME NEW c \in Callers, ClaimExecution(c) PROVE Runs'
  <2>1. \A d \in Callers : ~Dispatches(d)
    BY <1>7, NoDispatch DEF ClaimExecution, Runs
  <2>2. UNCHANGED <<attempts, jobs>> BY <1>7 DEF ClaimExecution, process
  <2>3. Kept BY <1>7 DEF ClaimExecution, Holding, Idle, Rows, RecordShape
  <2> QED BY <1>0, <2>1, <2>2, <2>3, SteadyRuns
<1>8. ASSUME NEW c \in Callers, MarkRecoveryRequired(c) PROVE Runs'
  <2>1. UNCHANGED <<attempts, jobs>> BY <1>8 DEF MarkRecoveryRequired, process
  <2>2. PICK q : q.pc # "dispatch" /\ callers' = [callers EXCEPT ![c] = q]
    BY <1>8 DEF MarkRecoveryRequired, NextOrReturn, Returns, Goto, Idle, Rows, RecordShape,
       CallerShape
  <2>3. Kept BY <2>2 DEF Rows, RecordShape
  <2>4. CASE UNCHANGED claim BY <1>0, <2>1, <2>3, <2>4, SteadyRuns
  <2>5. CASE ExecutionFree
    <3>1. \A d \in Callers : ~Dispatches(d) BY <2>5, NoDispatch DEF Runs
    <3> QED BY <1>0, <2>1, <2>3, <3>1, SteadyRuns
  <2> QED BY <1>8, <2>4, <2>5 DEF MarkRecoveryRequired
<1>9. ASSUME NEW c \in Callers, ReconcileFailedRetrySetup(c) PROVE Runs'
  <2>1. UNCHANGED jobs BY <1>9 DEF ReconcileFailedRetrySetup, process
  <2>2. Kept BY <1>9 DEF ReconcileFailedRetrySetup, Returns, Idle, Rows, RecordShape
  <2>3. CASE UNCHANGED <<attempts, claim>> BY <1>0, <2>1, <2>2, <2>3, SteadyRuns
  <2>4. CASE ExecutionFree /\ attempts' = [attempts EXCEPT ![Len(attempts)].reconciled = TRUE]
    <3>1. \A d \in Callers : ~Dispatches(d) BY <2>4, NoDispatch DEF Runs
    <3>2. Len(attempts') = Len(attempts)
          /\ \A i \in DOMAIN attempts : attempts'[i].state = attempts[i].state
      BY <2>4, ReconciledKeeps DEF Rows
    <3> QED BY <1>0, <2>1, <2>2, <3>1, <3>2, SteadyRuns
  <2> QED BY <1>9, <2>3, <2>4 DEF ReconcileFailedRetrySetup
<1>10. ASSUME NEW c \in Callers,
              CreateAttempt(c) \/ BeginRecoveryAttempt(c) \/ BeginRolledBackRetry(c)
       PROVE  Runs'
  <2>1. PICK p, k : p = callers[c].plan /\ k = callers[c].key OBVIOUS
  <2>2. UNCHANGED jobs
    BY <1>10 DEF CreateAttempt, BeginRecoveryAttempt, BeginRolledBackRetry, process
  <2>3. CASE UNCHANGED <<attempts, claim>> /\ Returns(c)
    <3>1. Kept BY <2>3 DEF Returns, Idle, Rows, RecordShape
    <3> QED BY <1>0, <2>2, <2>3, <3>1, SteadyRuns
  <2>4. ASSUME NEW kind, NEW pp, NEW kk, Admitted(kind, pp, kk), Dispatching(c),
               \A d \in Callers : ~Dispatches(d)
        PROVE  Runs'
    BY <1>0, <2>2, <2>4, AdmissionRuns
  <2>5. CASE Admitted("initial", p, None) /\ Dispatching(c) /\ claim.exec = c
    BY <2>4, <2>5, NoDispatch DEF Runs
  <2>6. CASE Admitted("recovery", p, k) /\ Dispatching(c) /\ ExecutionFree
    BY <2>4, <2>6, NoDispatch DEF Runs
  <2>7. CASE Admitted("retry", p, k) /\ Dispatching(c) /\ Latest.state \in {"completed", "failed"}
    BY <2>4, <2>7, NoDispatch DEF Runs
  <2> QED BY <1>10, <2>1, <2>3, <2>5, <2>6, <2>7
          DEF CreateAttempt, BeginRecoveryAttempt, BeginRolledBackRetry
<1> QED BY <1>1, <1>2, <1>3, <1>4, <1>5, <1>6, <1>7, <1>8, <1>9, <1>10, QuietSteps
        DEF Disturbs, Admissions, Rows

-----------------------------------------------------------------------------
(* What has ended: an attempt that reported or that a rollback restores has *)
(* no future and no dispatch any more, nor has one before it.               *)

DispatchesRetry(c) == Dispatches(c) /\ attempts[callers[c].attempt].kind = "retry"

AttemptsEnded ==
  \A i \in DOMAIN attempts :
    /\ attempts[i].exec # "none" => Settled(i) \/ (jobs # << >> /\ jobs[1].attempt = i)
    /\ attempts[i].reconciled => Settled(i)

RollbacksEnded ==
  \A k \in Keys :
    /\ rollbacks[k].attempt # 0 =>
         rollbacks[k].attempt \in DOMAIN attempts /\ Settled(rollbacks[k].attempt)
    /\ rollbacks[k].state = "none" => ~rollbacks[k].restored

RequestsEnded ==
  /\ \A c \in Callers :
       /\ callers[c].pc \in Restoring \cup {"reconcile", "undo"} =>
            callers[c].attempt \in DOMAIN attempts /\ Settled(callers[c].attempt)
       /\ callers[c].pc \in ReconcileSteps => callers[c].key \in Keys
  /\ \A c \in Callers : DispatchesRetry(c) => jobs = << >>

Ended == AttemptsEnded /\ RollbacksEnded /\ RequestsEnded

LEMMA SettledEmpties ==
  ASSUME Rows, attempts # << >> => Settled(Len(attempts))
  PROVE  jobs = << >> /\ \A d \in Callers : ~Dispatches(d)
<1>1. Len(attempts) \in Nat /\ DOMAIN attempts = 1..Len(attempts)
  BY SeqIndices DEF Rows, AttemptRows
<1>2. attempts = << >> => DOMAIN attempts = {}
  BY EmptySeq, LenProperties
<1>3. ASSUME jobs # << >> PROVE FALSE
  <2>1. 1 \in DOMAIN jobs
    BY <1>3, SeqIndices, EmptySeq DEF Rows, FutureRows, IsSeq
  <2>2. jobs[1].attempt \in DOMAIN attempts BY <2>1 DEF Rows, FutureRows
  <2> QED BY <1>1, <1>2, <2>1, <2>2 DEF Settled
<1>4. ASSUME NEW d \in Callers, Dispatches(d) PROVE FALSE
  <2>1. callers[d].attempt \in DOMAIN attempts BY <1>4 DEF Dispatches, Rows, NamedAttempts
  <2> QED BY <1>1, <1>2, <1>4, <2>1 DEF Settled
<1> QED BY <1>3, <1>4

LEMMA JobsSteps ==
  ASSUME Rows, [Next]_vars
  PROVE  \/ UNCHANGED jobs \/ CompleteFuture \/ ProcessRestarts
         \/ \E c \in Callers : Dispatch(c)
<1>1. CASE Untouched BY <1>1 DEF Untouched
<1>2. CASE ImportValidation \/ PersistExecution
  BY <1>2 DEF ImportValidation, PersistExecution
<1>3. CASE LeaseLapses BY <1>3 DEF LeaseLapses, process
<1>4. ASSUME NEW c \in Callers, Admissions(c) PROVE UNCHANGED jobs \/ Dispatch(c)
  BY <1>4 DEF Admissions, ClaimExecution, CreateAttempt, MarkRecoveryRequired,
     BeginRecoveryAttempt, BeginRolledBackRetry, ReconcileFailedRetrySetup, process
<1> QED BY <1>1, <1>2, <1>3, <1>4, QuietSteps DEF Disturbs, Rows

(* The future that runs stays the first until its attempt is settled.       *)
LEMMA FirstStays ==
  ASSUME Rows, Runs, [Next]_vars, jobs # << >>, NEW i, i = jobs[1].attempt
  PROVE  Settled(i)' \/ (jobs' # << >> /\ jobs'[1].attempt = i)
<1>0. Len(jobs) \in Nat /\ DOMAIN jobs = 1..Len(jobs) /\ 1 \in DOMAIN jobs /\ i \in DOMAIN attempts
      /\ Len(attempts) \in Nat /\ DOMAIN attempts = 1..Len(attempts)
  <2>1. /\ Len(jobs) \in Nat /\ DOMAIN jobs = 1..Len(jobs) /\ Len(jobs) # 0
        /\ Len(attempts) \in Nat /\ DOMAIN attempts = 1..Len(attempts)
    BY SeqIndices, EmptySeq DEF Rows, FutureRows, AttemptRows, IsSeq
  <2> QED BY <2>1 DEF Rows, FutureRows
<1>1. CASE UNCHANGED jobs BY <1>1
<1>2. CASE CompleteFuture
  <2>1. \A n \in DOMAIN jobs' : n + 1 \in DOMAIN jobs /\ jobs'[n] = jobs[n + 1] /\ 1 < n + 1
    <3>1. jobs' = Tail(jobs) BY <1>2 DEF CompleteFuture
    <3>2. /\ IsSeq(jobs') /\ \A n \in DOMAIN jobs' : n + 1 \in DOMAIN jobs /\ jobs'[n] = jobs[n + 1]
      BY <3>1, SeqTail DEF Rows, FutureRows
    <3>3. \A n \in DOMAIN jobs' : n \in Nat \ {0}
      BY <3>2, SeqIndices
    <3> QED BY <3>2, <3>3
  <2>2. \A n \in DOMAIN jobs' : jobs'[n].attempt > i
    <3> SUFFICES ASSUME NEW n \in DOMAIN jobs' PROVE jobs'[n].attempt > i
      OBVIOUS
    <3>1. i < jobs[n + 1].attempt BY <1>0, <2>1 DEF Runs, FuturesInOrder
    <3>2. jobs[n + 1].attempt \in DOMAIN attempts BY <2>1 DEF Rows, FutureRows
    <3> QED BY <1>0, <2>1, <3>1, <3>2
  <2>3. ASSUME NEW d \in Callers, Dispatches(d)' PROVE callers'[d].attempt > i
    <3>1. UNCHANGED callers BY <1>2 DEF CompleteFuture, WorkerAt
    <3>2. Dispatches(d) BY <2>3, <3>1 DEF Dispatches
    <3>3. callers[d].attempt = Len(attempts) /\ Len(attempts) \notin jobs[1].calls
          /\ i \in jobs[1].calls
      BY <1>0, <3>2 DEF Runs, DispatchOwns, FuturesInOrder
    <3> QED BY <1>0, <3>1, <3>3
  <2> QED BY <2>2, <2>3 DEF Settled
<1>3. CASE ProcessRestarts
  <2>1. jobs' = << >> /\ \A d \in Callers : callers'[d].pc = "idle"
    BY <1>3 DEF ProcessRestarts, Idle
  <2>2. DOMAIN jobs' = {} BY <2>1
  <2> QED BY <2>1, <2>2 DEF Settled, Dispatches
<1>4. ASSUME NEW c \in Callers, Dispatch(c), ~UNCHANGED jobs
      PROVE  jobs' # << >> /\ jobs'[1].attempt = i
  <2>1. PICK m : m = callers[c].attempt OBVIOUS
  <2>2. m \in DOMAIN attempts BY <1>4, <2>1 DEF Dispatch, At, Rows, NamedAttempts
  <2>3. Submit(m) BY <1>4, <2>1 DEF Dispatch
  <2>4. AttemptsGrow BY AttemptsStep
  <2> QED BY <2>2, <2>3, <2>4, SubmitShape
<1> QED BY <1>1, <1>2, <1>3, <1>4, JobsSteps

(* What a step can do to the attempts' rows.                                *)
RowsKept ==
  /\ Len(attempts') = Len(attempts) /\ DOMAIN attempts' = DOMAIN attempts
  /\ \A i \in DOMAIN attempts :
       /\ attempts'[i].kind = attempts[i].kind
       /\ attempts'[i].exec = attempts[i].exec \/ (jobs # << >> /\ i = jobs[1].attempt)
       /\ attempts'[i].reconciled = attempts[i].reconciled
            \/ \E c \in Callers : callers[c].pc = "reconcile" /\ callers[c].attempt = i
RowAdded ==
  /\ Len(attempts') = Len(attempts) + 1 /\ DOMAIN attempts' = 1..(Len(attempts) + 1)
  /\ \A i \in DOMAIN attempts : attempts'[i] = attempts[i]
  /\ attempts'[Len(attempts) + 1].exec = "none"
  /\ attempts'[Len(attempts) + 1].reconciled = FALSE

LEMMA AdmittedAdds ==
  ASSUME AttemptRows, NEW kind, NEW p, NEW k, Admitted(kind, p, k)
  PROVE  RowAdded /\ attempts'[Len(attempts) + 1].kind = kind
<1> DEFINE a == NewAttempt(kind, p, k)
<1>1. a.exec = "none" /\ a.reconciled = FALSE /\ a.kind = kind BY DEF NewAttempt
<1>2. attempts' = Append(attempts, a) BY DEF Admitted
<1> HIDE DEF a
<1> QED BY <1>1, <1>2, SeqGrows DEF AttemptRows, RowAdded

LEMMA AttemptRowsStep ==
  ASSUME Rows, [Next]_vars
  PROVE  \/ RowsKept
         \/ RowAdded /\ \E c \in Callers :
              CreateAttempt(c) \/ BeginRecoveryAttempt(c) \/ BeginRolledBackRetry(c)
<1>1. ASSUME UNCHANGED attempts PROVE RowsKept BY <1>1 DEF RowsKept
<1>2. ASSUME NEW S, NEW failed, FinishAttempts(S, failed) PROVE RowsKept
  <2>1. DOMAIN attempts' = DOMAIN attempts BY <1>2, AttemptsFinished DEF Rows
  <2>2. /\ Len(attempts') = Len(attempts)
        /\ \A i \in DOMAIN attempts :
             /\ attempts'[i].kind = attempts[i].kind /\ attempts'[i].exec = attempts[i].exec
             /\ attempts'[i].reconciled = attempts[i].reconciled
    BY <1>2, FinishedStates DEF Rows
  <2> QED BY <2>1, <2>2 DEF RowsKept
<1>3. CASE ImportValidation \/ PersistExecution
  <2>1. jobs # << >>
    BY <1>3 DEF ImportValidation, PersistExecution, WorkerAt, Rows, FutureRows
  <2> QED BY <1>3, <2>1, ReportsKeep DEF RowsKept
<1>4. CASE CompleteFuture
  <2>1. PICK S, failed : S = jobs[1].calls /\ failed = ~worker.ok OBVIOUS
  <2>2. FinishAttempts(S, failed) BY <1>4, <2>1 DEF CompleteFuture
  <2> QED BY <1>2, <2>2
<1>5. ASSUME NEW c \in Callers, Dispatch(c) PROVE RowsKept
  <2>1. PICK i : i = callers[c].attempt OBVIOUS
  <2>2. UNCHANGED attempts \/ FinishAttempts({i}, TRUE) BY <1>5, <2>1 DEF Dispatch
  <2> QED BY <1>1, <1>2, <2>2
<1>6. ASSUME NEW c \in Callers,
             CreateAttempt(c) \/ BeginRecoveryAttempt(c) \/ BeginRolledBackRetry(c)
      PROVE  RowsKept \/ RowAdded
  <2>1. PICK p, k : p = callers[c].plan /\ k = callers[c].key OBVIOUS
  <2>2. \/ UNCHANGED attempts \/ Admitted("initial", p, None)
        \/ Admitted("recovery", p, k) \/ Admitted("retry", p, k)
    BY <1>6, <2>1 DEF CreateAttempt, BeginRecoveryAttempt, BeginRolledBackRetry
  <2> QED BY <1>1, <2>2, AdmittedAdds DEF Rows
<1>7. ASSUME NEW c \in Callers, ReconcileFailedRetrySetup(c) PROVE RowsKept
  <2>1. CASE UNCHANGED attempts BY <1>1, <2>1
  <2>2. CASE /\ attempts' = [attempts EXCEPT ![Len(attempts)].reconciled = TRUE]
             /\ callers[c].attempt = Len(attempts)
    <3>1. callers[c].pc = "reconcile" BY <1>7 DEF ReconcileFailedRetrySetup, At
    <3> QED BY <2>2, <3>1, ReconciledKeeps DEF Rows, RowsKept
  <2> QED BY <1>7, <2>1, <2>2 DEF ReconcileFailedRetrySetup
<1>8. ASSUME NEW c \in Callers, ClaimExecution(c) \/ MarkRecoveryRequired(c)
      PROVE  UNCHANGED attempts
  BY <1>8 DEF ClaimExecution, MarkRecoveryRequired
<1>9. CASE LeaseLapses \/ ProcessRestarts
  BY <1>1, <1>9 DEF LeaseLapses, ProcessRestarts
<1>10. CASE Untouched BY <1>1, <1>10 DEF Untouched
<1> QED BY <1>1, <1>3, <1>4, <1>5, <1>6, <1>7, <1>8, <1>9, <1>10, QuietSteps
        DEF Disturbs, Admissions, Rows

LEMMA AttemptsEndedStep ==
  ASSUME Rows, Runs, Ended, [Next]_vars
  PROVE  AttemptsEnded'
<1>1. CASE RowsKept
  <2> SUFFICES ASSUME NEW i \in DOMAIN attempts
      PROVE  /\ attempts'[i].exec # "none" =>
                  Settled(i)' \/ (jobs' # << >> /\ jobs'[1].attempt = i)
             /\ attempts'[i].reconciled => Settled(i)'
    BY <1>1 DEF RowsKept, AttemptsEnded
  <2>1. Settled(i) => Settled(i)' BY SettledStays
  <2>2. jobs # << >> /\ i = jobs[1].attempt =>
          Settled(i)' \/ (jobs' # << >> /\ jobs'[1].attempt = i)
    BY FirstStays
  <2>3. attempts'[i].exec # "none" =>
          attempts[i].exec # "none" \/ (jobs # << >> /\ i = jobs[1].attempt)
    BY <1>1 DEF RowsKept
  <2>4. attempts'[i].reconciled => Settled(i)
    <3>1. CASE attempts'[i].reconciled = attempts[i].reconciled
      BY <3>1 DEF Ended, AttemptsEnded
    <3>2. ASSUME NEW c \in Callers, callers[c].pc = "reconcile", callers[c].attempt = i
          PROVE  Settled(i)
      BY <3>2 DEF Ended, RequestsEnded
    <3> QED BY <1>1, <3>1, <3>2 DEF RowsKept
  <2> QED BY <2>1, <2>2, <2>3, <2>4 DEF Ended, AttemptsEnded
<1>2. CASE RowAdded
  <2>1. UNCHANGED jobs \/ jobs' = << >> \/ jobs' # << >> OBVIOUS
  <2> SUFFICES ASSUME NEW i \in DOMAIN attempts'
      PROVE  /\ attempts'[i].exec # "none" =>
                  Settled(i)' \/ (jobs' # << >> /\ jobs'[1].attempt = i)
             /\ attempts'[i].reconciled => Settled(i)'
    BY DEF AttemptsEnded
  <2>2. CASE i \in DOMAIN attempts
    <3>1. Settled(i) => Settled(i)' BY <2>2, SettledStays
    <3>2. jobs # << >> /\ i = jobs[1].attempt =>
            Settled(i)' \/ (jobs' # << >> /\ jobs'[1].attempt = i)
      BY FirstStays
    <3> QED BY <1>2, <2>2, <3>1, <3>2 DEF RowAdded, Ended, AttemptsEnded
  <2>3. CASE i \notin DOMAIN attempts
    <3>1. i = Len(attempts) + 1
      BY <1>2, <2>3, SeqIndices DEF RowAdded, Rows, AttemptRows
    <3> QED BY <1>2, <3>1 DEF RowAdded
  <2> QED BY <2>2, <2>3
<1> QED BY <1>1, <1>2, AttemptRowsStep

(* A rollback's row is written by the request that reconciles under its key. *)
KeepsRow(k) ==
  /\ rollbacks'[k].attempt = rollbacks[k].attempt
  /\ rollbacks'[k].restored = rollbacks[k].restored
  /\ rollbacks'[k].state = "none" => rollbacks[k].state = "none"
Rewrites(c, k) ==
  /\ callers[c].key = k /\ rollbacks'[k].state # "none"
  /\ \/ /\ callers[c].pc \in {"start", "resume"}
        /\ rollbacks'[k].attempt = callers[c].attempt
        /\ rollbacks'[k].restored = rollbacks[k].restored
     \/ /\ callers[c].pc = "restore"
        /\ rollbacks'[k].attempt = rollbacks[k].attempt
        /\ worktree'.dirty => worktree.dirty /\ callers[c].restored

LEMMA RollbacksStep ==
  ASSUME RecordShape, TreeShape, [Next]_vars
  PROVE  \A k \in Keys : KeepsRow(k) \/ \E c \in Callers : Rewrites(c, k)
<1> USE DEF TreeShape, RollbackFields
<1> DEFINE Goal == \A k \in Keys : KeepsRow(k) \/ \E c \in Callers : Rewrites(c, k)
<1>1. CASE UNCHANGED rollbacks BY <1>1 DEF KeepsRow
<1>3. ASSUME NEW c \in Callers, StartRollback(c) PROVE Goal
  <2>1. PICK k : k = callers[c].key OBVIOUS
  <2>2. callers[c].pc \in {"start", "resume"} BY <1>3 DEF StartRollback, At
  <2>3. CASE k \notin Keys
    <3>1. \A o \in Keys : rollbacks'[o] = rollbacks[o] BY <1>3, <2>1, <2>3 DEF StartRollback
    <3> QED BY <3>1 DEF KeepsRow
  <2>4. CASE k \in Keys /\ rollbacks' = [rollbacks EXCEPT ![k].shadowed = TRUE]
    <3>1. \A o \in Keys : /\ rollbacks'[o].attempt = rollbacks[o].attempt
                          /\ rollbacks'[o].restored = rollbacks[o].restored
                          /\ rollbacks'[o].state = "none" => rollbacks[o].state = "none"
      BY <2>4
    <3> QED BY <3>1 DEF KeepsRow
  <2>5. CASE k \in Keys /\ rollbacks' = [rollbacks EXCEPT ![k].state = "executing",
                                                      ![k].attempt = callers[c].attempt]
    <3>1. \A o \in Keys : rollbacks'[o].restored = rollbacks[o].restored
      BY <2>5
    <3>2. rollbacks'[k].state = "executing" /\ rollbacks'[k].attempt = callers[c].attempt
      BY <2>5
    <3>3. \A o \in Keys : o # k => rollbacks'[o] = rollbacks[o] BY <2>5
    <3>4. Rewrites(c, k) BY <2>1, <2>2, <3>1, <3>2, <2>5 DEF Rewrites
    <3> QED BY <3>3, <3>4 DEF KeepsRow
  <2> QED BY <1>3, <2>1, <2>3, <2>4, <2>5 DEF StartRollback
<1>4. ASSUME NEW c \in Callers, RestoreBaseline(c) PROVE Goal
  <2>1. PICK k : k = callers[c].key OBVIOUS
  <2>2. callers[c].pc = "restore" BY <1>4 DEF RestoreBaseline, At
  <2>3. CASE k \notin Keys
    <3>1. \A o \in Keys : rollbacks'[o] = rollbacks[o] BY <1>4, <2>1, <2>3 DEF RestoreBaseline
    <3> QED BY <3>1 DEF KeepsRow
  <2>4. CASE /\ k \in Keys /\ worktree' = [worktree EXCEPT !.dirty = @ /\ callers[c].restored]
             /\ rollbacks' = [rollbacks EXCEPT ![k].restored = TRUE, ![k].state = "succeeded"]
    <3>1. \A o \in Keys : rollbacks'[o].attempt = rollbacks[o].attempt BY <2>4
    <3>2. rollbacks'[k].state = "succeeded" /\ (worktree'.dirty => worktree.dirty /\ callers[c].restored)
      BY <2>4
    <3>3. \A o \in Keys : o # k => rollbacks'[o] = rollbacks[o] BY <2>4
    <3>4. Rewrites(c, k) BY <2>1, <2>2, <2>4, <3>1, <3>2 DEF Rewrites
    <3> QED BY <3>3, <3>4 DEF KeepsRow
  <2>5. CASE k \in Keys /\ rollbacks' \in {rollbacks, [rollbacks EXCEPT ![k].state = "failed"]}
    <3>1. \A o \in Keys : /\ rollbacks'[o].attempt = rollbacks[o].attempt
                          /\ rollbacks'[o].restored = rollbacks[o].restored
                          /\ rollbacks'[o].state = "none" => rollbacks[o].state = "none"
      BY <2>5
    <3> QED BY <3>1 DEF KeepsRow
  <2> QED BY <1>4, <2>1, <2>3, <2>4, <2>5 DEF RestoreBaseline
<1>5. ASSUME NEW c \in Callers, CleanRolledBack(c) PROVE Goal
  <2>1. PICK k : k = callers[c].key OBVIOUS
  <2>2. UNCHANGED rollbacks \/ rollbacks' = [rollbacks EXCEPT ![k].state = "succeeded",
                                                               ![k].completed = TRUE]
    BY <1>5, <2>1 DEF CleanRolledBack
  <2>3. ASSUME ~UNCHANGED rollbacks PROVE Goal
    <3>1. \A o \in Keys : /\ rollbacks'[o].attempt = rollbacks[o].attempt
                          /\ rollbacks'[o].restored = rollbacks[o].restored
                          /\ rollbacks'[o].state = "none" => rollbacks[o].state = "none"
      BY <2>2, <2>3
    <3> QED BY <3>1 DEF KeepsRow
  <2> QED BY <1>1, <2>3
<1>6. ASSUME NEW c \in Callers, Owners(c), ~StartRollback(c), ~RestoreBaseline(c),
             ~CleanRolledBack(c)
      PROVE  UNCHANGED rollbacks
  BY <1>6 DEF Owners, Recovery, Retry, Reconciliation, CreateAttempt, Dispatch, UndoRetry,
     InspectInterruption, MarkRecoveryRequired, BeginRecoveryAttempt, InspectRollback,
     BeginRolledBackRetry, InspectFailedValidation, ResumeFinishedRollback, RequireRecovery,
     IsolateForRecovery, MarkRolledBack, FinalizeRollback, InspectFailedRetrySetup,
     ReconcileFailedRetrySetup, record
<1>7. CASE Worker
  BY <1>1, <1>7 DEF Worker, LoadPlan, SetUpWorktree, MarkExecutionStarted, Edit, CheckCancelled,
     MarkValidationStarted, MarkWorktreeValidating, Validate, ImportValidation, Decide,
     PersistExecution, FinalizeHistory, LeaveWorktree, CompleteFuture, record
<1>8. CASE Bystands \/ ProcessRestarts BY <1>1, <1>8 DEF Bystands, ProcessRestarts
<1> QED BY <1>1, <1>3, <1>4, <1>5, <1>6, <1>7, <1>8, Bystanders

LEMMA RollbacksEndedStep ==
  ASSUME Rows, TreeShape, Ended, [Next]_vars
  PROVE  RollbacksEnded'
<1> SUFFICES ASSUME NEW k \in Keys
    PROVE  (/\ rollbacks[k].attempt # 0 =>
                 rollbacks[k].attempt \in DOMAIN attempts /\ Settled(rollbacks[k].attempt)
            /\ rollbacks[k].state = "none" => ~rollbacks[k].restored)'
  BY DEF RollbacksEnded
<1>0. KeepsRow(k) \/ \E c \in Callers : Rewrites(c, k)
  BY RollbacksStep DEF Rows
<1>1. PICK n : n = rollbacks'[k].attempt OBVIOUS
<1>2. \A m \in DOMAIN attempts : Settled(m) => m \in DOMAIN attempts' /\ Settled(m)'
  BY SettledStays, AttemptsStep DEF AttemptsGrow
<1>3. n # 0 => n \in DOMAIN attempts /\ Settled(n)
  <2>1. CASE n = rollbacks[k].attempt BY <2>1 DEF Ended, RollbacksEnded
  <2>2. ASSUME NEW c \in Callers, callers[c].pc \in {"start", "resume"}, n = callers[c].attempt
        PROVE  n \in DOMAIN attempts /\ Settled(n)
    BY <2>2 DEF Ended, RequestsEnded, Restoring, ReconcileSteps
  <2> QED BY <1>0, <1>1, <2>1, <2>2, RollbacksStep DEF KeepsRow, Rewrites
<1>4. rollbacks'[k].state = "none" => ~rollbacks'[k].restored
  BY <1>0 DEF KeepsRow, Rewrites, Ended, RollbacksEnded
<1>5. n # 0 => n \in DOMAIN attempts' /\ Settled(n)' BY <1>2, <1>3
<1> QED BY <1>1, <1>4, <1>5 DEF Settled, Dispatches

(* A retry is admitted only when the attempt before it is settled.          *)
LEMMA RetryEvidence ==
  ASSUME Rows, Runs, Ended, NEW c \in Callers, BeginRolledBackRetry(c), ~UNCHANGED attempts
  PROVE  jobs = << >>
<1>1. PICK n : n = Len(attempts) OBVIOUS
<1>2. Latest.state \in {"completed", "failed"} /\ RolledBackEvidence(n)
  BY <1>1 DEF BeginRolledBackRetry
<1>3. attempts # << >> => n \in DOMAIN attempts /\ n # 0
  BY <1>1, SeqIndices, EmptySeq DEF Rows, AttemptRows, IsSeq
<1>4. ASSUME attempts # << >> PROVE Settled(n)
  <2>1. CASE attempts[n].exec = "rolled_back"
    <3>1. CASE jobs # << >> /\ jobs[1].attempt = n
      <4>1. 1 \in DOMAIN jobs
        BY <3>1, SeqIndices, EmptySeq DEF Rows, FutureRows, IsSeq
      <4>2. attempts[n].state = "running" BY <3>1, <4>1 DEF Runs, FuturesInOrder
      <4> QED BY <1>1, <1>2, <4>2 DEF Latest
    <3> QED BY <1>3, <1>4, <2>1, <3>1 DEF Ended, AttemptsEnded
  <2>2. ASSUME NEW k \in Keys, rollbacks[k].attempt = n PROVE Settled(n)
    BY <1>3, <1>4, <2>2 DEF Ended, RollbacksEnded
  <2>3. CASE attempts[n].reconciled BY <1>3, <1>4, <2>3 DEF Ended, AttemptsEnded
  <2> QED BY <1>2, <2>1, <2>2, <2>3 DEF RolledBackEvidence, RestoredFor
<1> QED BY <1>1, <1>4, SettledEmpties

LEMMA RetryAloneStep ==
  ASSUME Rows, Rows', Runs, Ended, [Next]_vars
  PROVE  \A d \in Callers : DispatchesRetry(d)' => jobs' = << >>
<1> SUFFICES ASSUME NEW d \in Callers, callers'[d].pc = "dispatch",
                    attempts'[callers'[d].attempt].kind = "retry"
             PROVE  jobs' = << >>
  BY DEF DispatchesRetry, Dispatches
<1>1. PICK n : n = callers'[d].attempt OBVIOUS
<1>2. Len(attempts) \in Nat /\ DOMAIN attempts = 1..Len(attempts)
  BY SeqIndices DEF Rows, AttemptRows
<1>3. CASE callers[d].pc = "dispatch" /\ n = callers[d].attempt
  <2>1. n \in DOMAIN attempts BY <1>3 DEF Rows, NamedAttempts
  <2>2. attempts'[n].kind = attempts[n].kind
    BY <2>1, AttemptRowsStep DEF RowsKept, RowAdded
  <2>3. jobs = << >> BY <1>1, <1>3, <2>2 DEF Ended, RequestsEnded, DispatchesRetry, Dispatches
  <2>4. ~CompleteFuture BY <2>3 DEF CompleteFuture, WorkerAt, Rows, FutureRows
  <2>5. ASSUME NEW c \in Callers, Dispatch(c) PROVE FALSE
    BY <2>5, DispatchRuns DEF Dispatches
  <2>6. ProcessRestarts => jobs' = << >> BY DEF ProcessRestarts
  <2> QED BY <2>3, <2>4, <2>5, <2>6, JobsSteps
<1>4. CASE n = Len(attempts) + 1
  <2>1. n \in DOMAIN attempts' BY <1>1 DEF Rows, NamedAttempts
  <2>2. ~RowsKept BY <1>2, <1>4, <2>1 DEF RowsKept
  <2>3. PICK c \in Callers : CreateAttempt(c) \/ BeginRecoveryAttempt(c) \/ BeginRolledBackRetry(c)
    BY <2>2, AttemptRowsStep
  <2>4. ~UNCHANGED attempts BY <1>2, <1>4, <2>1
  <2>5. ASSUME NEW kind, NEW p, NEW k, Admitted(kind, p, k) PROVE kind = "retry"
    BY <1>1, <1>4, <2>5, AdmittedAdds DEF Rows
  <2>6. PICK p, k : p = callers[c].plan /\ k = callers[c].key OBVIOUS
  <2>7. BeginRolledBackRetry(c)
    <3>1. ~CreateAttempt(c)
      <4>1. CreateAttempt(c) => Admitted("initial", p, None) BY <2>4, <2>6 DEF CreateAttempt
      <4> QED BY <2>5, <4>1
    <3>2. ~BeginRecoveryAttempt(c)
      <4>1. BeginRecoveryAttempt(c) => Admitted("recovery", p, k)
        BY <2>4, <2>6 DEF BeginRecoveryAttempt
      <4> QED BY <2>5, <4>1
    <3> QED BY <2>3, <3>1, <3>2
  <2>8. UNCHANGED jobs BY <2>7 DEF BeginRolledBackRetry, process
  <2> QED BY <2>4, <2>7, <2>8, RetryEvidence
<1> QED BY <1>1, <1>3, <1>4, DispatchesCome DEF Rows

-----------------------------------------------------------------------------
(* Which requests come to reconcile.                                        *)

Bound == Restoring \cup {"reconcile", "undo"}

(* A request goes on with its attempt, starts on the newest one while       *)
(* nothing runs, or undoes the retry that it could not dispatch.            *)
GoesOn(d) == callers[d].pc \in Bound /\ callers'[d].attempt = callers[d].attempt
Inspects(d) == /\ attempts # << >> /\ callers'[d].attempt = Len(attempts)
               /\ latest # "running" /\ claim.exec = None
Refused(d) == /\ Dispatch(d) /\ UNCHANGED jobs /\ DispatchesRetry(d)
              /\ callers'[d].attempt = callers[d].attempt

LEMMA RequestsStep ==
  ASSUME Rows, [Next]_vars
  PROVE  \A d \in Callers :
           /\ callers'[d].pc \in Bound => GoesOn(d) \/ Inspects(d) \/ Refused(d)
           /\ callers'[d].pc \in ReconcileSteps =>
                callers'[d].key \in Keys
                \/ (callers[d].pc \in ReconcileSteps /\ callers'[d].key = callers[d].key)
<1> USE DEF Bound, Restoring, ReconcileSteps
<1> DEFINE Goal == \A d \in Callers :
           /\ callers'[d].pc \in Bound => GoesOn(d) \/ Inspects(d) \/ Refused(d)
           /\ callers'[d].pc \in ReconcileSteps =>
                callers'[d].key \in Keys
                \/ (callers[d].pc \in ReconcileSteps /\ callers'[d].key = callers[d].key)
<1>0. DOMAIN callers = Callers /\ \A d \in Callers : CallerShape(callers[d])
  BY DEF Rows, RecordShape
<1>1. CASE UNCHANGED callers BY <1>1 DEF GoesOn
<1>2. CASE Bystands
  BY <1>2 DEF Bystands, Watched, AdmissionSteps, GoesOn
<1>3. CASE ProcessRestarts BY <1>3 DEF ProcessRestarts, Idle
<1>4. ASSUME NEW c \in Callers, NEW q, callers' = [callers EXCEPT ![c] = q],
             q.pc \notin Bound \cup ReconcileSteps
      PROVE  Goal
  <2>1. \A d \in Callers : callers'[d] = IF d = c THEN q ELSE callers[d] BY <1>0, <1>4
  <2> QED BY <1>4, <2>1 DEF GoesOn
<1>5. ASSUME NEW c \in Callers, NEW pc, Goto(c, pc), callers[c].pc \in ReconcileSteps \ {"clean"}
      PROVE  Goal
  <2>1. \A d \in Callers : d # c => callers'[d] = callers[d] BY <1>0, <1>5 DEF Goto
  <2>2. callers'[c].attempt = callers[c].attempt /\ callers'[c].key = callers[c].key
    BY <1>0, <1>5 DEF Goto, CallerShape
  <2> QED BY <1>5, <2>1, <2>2 DEF GoesOn
<1>6. ASSUME NEW c \in Callers, Returns(c) PROVE Goal
  BY <1>4, <1>6 DEF Returns, Idle
<1>7. ASSUME NEW c \in Callers, Dispatching(c) PROVE Goal
  BY <1>4, <1>7 DEF Dispatching, Idle
<1>8. ASSUME NEW c \in Callers, CreateAttempt(c) \/ BeginRecoveryAttempt(c)
             \/ BeginRolledBackRetry(c) \/ UndoRetry(c) \/ CleanRolledBack(c)
             \/ ReconcileFailedRetrySetup(c)
      PROVE  Goal
  <2>1. Returns(c) \/ Dispatching(c)
    BY <1>8 DEF CreateAttempt, BeginRecoveryAttempt, BeginRolledBackRetry, UndoRetry,
       CleanRolledBack, ReconcileFailedRetrySetup
  <2> QED BY <1>6, <1>7, <2>1
<1>9. ASSUME NEW c \in Callers, Dispatch(c) PROVE Goal
  <2>1. CASE Returns(c) BY <1>6, <2>1
  <2>2. CASE UNCHANGED jobs /\ attempts[callers[c].attempt].kind = "retry" /\ Goto(c, "undo")
    <3>1. \A d \in Callers : d # c => callers'[d] = callers[d] BY <1>0, <2>2 DEF Goto
    <3>2. callers'[c].attempt = callers[c].attempt /\ callers'[c].pc = "undo"
      BY <1>0, <2>2 DEF Goto, CallerShape
    <3>3. Refused(c)
      BY <1>9, <2>2, <3>2 DEF Refused, DispatchesRetry, Dispatches, Dispatch, At
    <3> QED BY <3>1, <3>2, <3>3 DEF GoesOn
  <2> QED BY <1>9, <2>1, <2>2 DEF Dispatch, NextOrReturn
<1>10. ASSUME NEW c \in Callers, InspectInterruption(c) \/ InspectRollback(c) PROVE Goal
  <2>1. PICK pc, k : pc \in {"mark", "recover", "retry"} /\ Holding(c, pc, None, task.plan, k)
    BY <1>10 DEF InspectInterruption, InspectRollback
  <2> QED BY <1>4, <2>1 DEF Holding, Idle
<1>11. ASSUME NEW c \in Callers, MarkRecoveryRequired(c) PROVE Goal
  <2>1. CASE Goto(c, "recover")
    <3>1. PICK q : q.pc = "recover" /\ callers' = [callers EXCEPT ![c] = q]
      BY <1>0, <2>1 DEF Goto, CallerShape
    <3> QED BY <1>4, <3>1
  <2> QED BY <1>6, <1>11, <2>1 DEF MarkRecoveryRequired, NextOrReturn
<1>12. ASSUME NEW c \in Callers, NEW q, callers' = [callers EXCEPT ![c] = q],
              q.attempt = Len(attempts), latest # "running", claim.exec = None, attempts # << >>,
              q.pc \in ReconcileSteps => q.key \in Keys
       PROVE  Goal
  <2>1. \A d \in Callers : callers'[d] = IF d = c THEN q ELSE callers[d] BY <1>0, <1>12
  <2> QED BY <1>12, <2>1 DEF GoesOn, Inspects
<1>13. ASSUME NEW c \in Callers, InspectFailedValidation(c) PROVE Goal
  <2>1. PICK k, pc : k \in Keys /\ Reconciles(c, pc, k) BY <1>13 DEF InspectFailedValidation
  <2>2. PICK q : q = [pc |-> pc, seen |-> task.status, plan |-> task.plan,
                      attempt |-> Len(attempts), key |-> k, restored |-> rollbacks[k].restored]
    OBVIOUS
  <2>3. callers' = [callers EXCEPT ![c] = q] BY <2>1, <2>2 DEF Reconciles
  <2>4. latest # "running" /\ claim.exec = None /\ attempts # << >>
    BY <1>13 DEF InspectFailedValidation, WorkerTerminated
  <2>5. q.attempt = Len(attempts) /\ q.key \in Keys BY <2>1, <2>2
  <2> QED BY <1>12, <2>3, <2>4, <2>5
<1>14. ASSUME NEW c \in Callers, InspectFailedRetrySetup(c) PROVE Goal
  <2>1. PICK q : q = [Idle EXCEPT !.pc = "reconcile", !.plan = task.plan,
                                  !.attempt = Len(attempts)]
    OBVIOUS
  <2>2. callers' = [callers EXCEPT ![c] = q] /\ q.pc = "reconcile" /\ q.attempt = Len(attempts)
    BY <1>14, <2>1 DEF InspectFailedRetrySetup, Idle
  <2>3. latest # "running" /\ claim.exec = None /\ attempts # << >>
    BY <1>14 DEF InspectFailedRetrySetup, FailedRetrySetup, WorkerTerminated
  <2> QED BY <1>12, <2>2, <2>3
<1>15. ASSUME NEW c \in Callers, ResumeFinishedRollback(c) PROVE Goal
  <2>1. PICK k \in Keys : Reconciles(c, "clean", k) BY <1>15 DEF ResumeFinishedRollback
  <2>2. callers'[c].pc = "clean" /\ callers'[c].key \in Keys
        /\ \A d \in Callers : d # c => callers'[d] = callers[d]
    BY <1>0, <2>1 DEF Reconciles
  <2> QED BY <2>2 DEF GoesOn
<1>16. ASSUME NEW c \in Callers, StartRollback(c) \/ RequireRecovery(c) \/ IsolateForRecovery(c)
              \/ RestoreBaseline(c) \/ MarkRolledBack(c) \/ FinalizeRollback(c)
       PROVE  Goal
  <2>1. callers[c].pc \in ReconcileSteps \ {"clean"} /\ (Returns(c) \/ \E pc : Goto(c, pc))
    BY <1>16 DEF StartRollback, RequireRecovery, IsolateForRecovery, RestoreBaseline,
       MarkRolledBack, FinalizeRollback, At, NextOrReturn
  <2> QED BY <1>5, <1>6, <2>1
<1>17. CASE Worker
  BY <1>1, <1>17 DEF Worker, LoadPlan, SetUpWorktree, MarkExecutionStarted, Edit, CheckCancelled,
     MarkValidationStarted, MarkWorktreeValidating, Validate, ImportValidation, Decide,
     PersistExecution, FinalizeHistory, LeaveWorktree, CompleteFuture, WorkerAt
<1> QED BY <1>2, <1>3, <1>8, <1>9, <1>10, <1>11, <1>13, <1>14, <1>15, <1>16, <1>17, Bystanders
        DEF Rows, Owners, Recovery, Retry, Reconciliation

LEMMA EndedStep ==
  ASSUME Rows, Rows', TreeShape, Runs, Ended, [Next]_vars
  PROVE  Ended'
<1>1. AttemptsEnded' BY AttemptsEndedStep
<1>2. RollbacksEnded' BY RollbacksEndedStep
<1>3. ASSUME NEW d \in Callers, callers'[d].pc \in Bound
      PROVE  (callers[d].attempt \in DOMAIN attempts /\ Settled(callers[d].attempt))'
  <2>1. PICK n : n = callers'[d].attempt OBVIOUS
  <2>2. DOMAIN attempts \subseteq DOMAIN attempts' BY AttemptsStep DEF AttemptsGrow
  <2>3. n \in DOMAIN attempts /\ Settled(n)'
    <3>1. CASE GoesOn(d)
      <4>1. n \in DOMAIN attempts /\ Settled(n)
        BY <2>1, <3>1 DEF GoesOn, Ended, RequestsEnded, Bound
      <4> QED BY <4>1, SettledStays
    <3>2. CASE Inspects(d)
      <4>1. n \in DOMAIN attempts
        BY <2>1, <3>2, SeqIndices, EmptySeq DEF Inspects, Rows, AttemptRows, IsSeq
      <4>2. jobs = << >> BY <3>2 DEF Inspects, Runs, FuturesInOrder
      <4>3. \A e \in Callers : ~Dispatches(e)
        BY <3>2, NoDispatch DEF Inspects, ExecutionFree, Runs
      <4>4. Settled(n) BY <4>2, <4>3 DEF Settled
      <4> QED BY <4>1, <4>4, SettledStays
    <3>3. CASE Refused(d)
      <4>1. n \in DOMAIN attempts
        BY <2>1, <3>3 DEF Refused, DispatchesRetry, Dispatches, Rows, NamedAttempts
      <4>2. jobs' = << >> BY <3>3 DEF Refused, Ended, RequestsEnded
      <4>3. \A e \in Callers : ~Dispatches(e)' BY <3>3, DispatchRuns DEF Refused
      <4> QED BY <4>1, <4>2, <4>3 DEF Settled
    <3> QED BY <1>3, <3>1, <3>2, <3>3, RequestsStep
  <2> QED BY <2>1, <2>2, <2>3 DEF Settled, Dispatches
<1>4. ASSUME NEW d \in Callers, callers'[d].pc \in ReconcileSteps PROVE callers'[d].key \in Keys
  BY <1>4, RequestsStep DEF Ended, RequestsEnded
<1>5. RequestsEnded' BY <1>3, <1>4, RetryAloneStep DEF RequestsEnded, Bound
<1> QED BY <1>1, <1>2, <1>5 DEF Ended

-----------------------------------------------------------------------------
(* A rolled-back task's worktree: while no reconciliation is overlapped, it *)
(* is edited only by a live worker of an attempt that is not settled.       *)

Under == {"validating", "reviewing", "recovery_required"}
Past == {"approved", "reapproval_required", "succeeded", "failed", "blocked", "cancelled"}
Live == worker.pc \in {"setup", "mark"} \/ Editing

(* The worker edits its own worktree, one that it leaves is bare or kept,   *)
(* and a task is rolled back only over a worktree without an edit.          *)
TreeHolds ==
  /\ worker.pc = "mark" \/ Editing => worktree.state \in {"executing", "validating"}
  /\ worktree.state \in {"none", "cleaned"} => ~worktree.dirty
  /\ worker.pc \in {"persist", "record"} =>
       IF worker.outcome = "review_required" THEN worker.ok ELSE ~worktree.dirty
  /\ task.status = "rolled_back" => ~Live /\ ~worktree.dirty

(* Nobody reconciles, recovers or retries beside the request of c.          *)
Alone(c) == \A d \in Callers \ {c} :
  /\ callers[d].pc \notin ReconcileSteps \cup {"mark", "recover", "retry", "undo"}
  /\ Dispatches(d) => attempts[callers[d].attempt].kind = "initial"

(* The status has been read, or made, recovery_required.                    *)
Begun(c) == \/ callers[c].pc \in {"isolate", "restore", "rolled", "finalize"}
            \/ callers[c].pc \in {"start", "resume"} /\ callers[c].seen = "recovery_required"

Recorded(c) == \/ rollbacks[callers[c].key].restored \/ callers[c].restored
               \/ callers[c].pc \in {"rolled", "finalize"}

(* A request on its way to the restore: its attempt is the newest while the *)
(* task is still under it, the attempts after it cannot use its worktree.   *)
Restores(c) ==
  /\ \A i \in DOMAIN attempts : i > callers[c].attempt => attempts[i].kind = "initial"
  /\ task.status \in Under \cup Past
  /\ task.status \in Under => callers[c].attempt = Len(attempts)
  /\ Begun(c) => task.status \notin {"validating", "reviewing", "approved", "reapproval_required"}
  /\ worker.pc \in {"idle", "setup", "exit"}
  /\ worktree.state \in {"executing", "validating", "recovery_required", "rolled_back"}
  /\ Recorded(c) => ~worktree.dirty

RequestsClean ==
  \A c \in Callers :
    /\ callers[c].pc \in ReconcileSteps => Alone(c)
    /\ callers[c].pc \in Restoring => Restores(c)
    /\ callers[c].pc = "clean" => task.status = "rolled_back"

Resting(c) == callers[c].pc \in {"reconcile", "undo"} \/ DispatchesRetry(c)

(* What has been restored stays so while no attempt follows.                *)
RestedClean ==
  /\ \A c \in Callers : Resting(c) /\ callers[c].attempt = Len(attempts) => ~worktree.dirty
  /\ \A k \in Keys :
       rollbacks[k].restored /\ rollbacks[k].attempt = Len(attempts) => ~worktree.dirty

CleanHolds == TreeHolds /\ RequestsClean /\ RestedClean

LEMMA MovedStatus ==
  ASSUME RecordShape
  PROVE  /\ \A s : Moved(s).status = s
         /\ \A s : \/ MovedIfAllowed(s) = task /\ ~CanMoveTo(s)
                   \/ MovedIfAllowed(s).status = s /\ CanMoveTo(s)
<1>1. \A s : Moved(s).status = s BY DEF RecordShape, Moved
<1> QED BY <1>1 DEF MovedIfAllowed

LEMMA BystandsClean ==
  ASSUME CleanHolds, Bystands
  PROVE  CleanHolds'
<1>1. /\ UNCHANGED <<attempts, rollbacks, jobs, worker, worktree>>
      /\ \A d \in Callers : callers'[d].pc \in Watched => callers'[d] = callers[d]
  BY DEF Bystands
<1>2. \/ task'.status = task.status
      \/ /\ task'.status \in ALLOWED_TRANSITIONS[task.status]
         /\ task'.status \in {"planning", "awaiting_approval", "approved",
                              "reapproval_required", "cancelled"}
  BY DEF Bystands
<1>3. /\ task'.status = "rolled_back" <=> task.status = "rolled_back"
      /\ task.status \in Under \cup Past => task'.status \in Under \cup Past
      /\ task'.status \in Under => task'.status = task.status
      /\ task.status \in {"recovery_required", "succeeded", "failed", "blocked", "cancelled"} =>
           task'.status \in {"recovery_required", "succeeded", "failed", "blocked", "cancelled"}
  BY <1>2 DEF ALLOWED_TRANSITIONS, Under, Past
<1>4. TreeHolds' BY <1>1, <1>3 DEF CleanHolds, TreeHolds, Live, Editing
<1>5. RestedClean'
  BY <1>1 DEF CleanHolds, RestedClean, Resting, DispatchesRetry, Dispatches, Watched, AdmissionSteps
<1>6. ASSUME NEW c \in Callers, callers'[c].pc \in ReconcileSteps PROVE Alone(c)'
  <2>1. Alone(c) BY <1>1, <1>6 DEF CleanHolds, RequestsClean, Watched
  <2> QED BY <1>1, <2>1 DEF Alone, Dispatches, Watched, AdmissionSteps
<1>7. ASSUME NEW c \in Callers, callers'[c].pc \in Restoring PROVE Restores(c)'
  <2>1. callers'[c] = callers[c] BY <1>1, <1>7 DEF Watched, Restoring
  <2>2. Restores(c) BY <1>7, <2>1 DEF CleanHolds, RequestsClean
  <2>3. Begun(c)' <=> Begun(c) BY <2>1 DEF Begun
  <2>4. Recorded(c)' <=> Recorded(c) BY <1>1, <2>1 DEF Recorded
  <2>5. Begun(c) => task.status \in {"recovery_required", "succeeded", "failed", "blocked", "cancelled"}
    BY <2>2 DEF Restores, Under, Past
  <2>6. Begun(c)' => task'.status \notin {"validating", "reviewing", "approved", "reapproval_required"}
    BY <1>3, <2>3, <2>5
  <2> QED BY <1>1, <1>3, <2>1, <2>2, <2>4, <2>6 DEF Restores
<1>8. \A c \in Callers : callers'[c].pc = "clean" => task'.status = "rolled_back"
  BY <1>1, <1>3 DEF CleanHolds, RequestsClean, Watched, ReconcileSteps
<1>9. RequestsClean' BY <1>6, <1>7, <1>8 DEF RequestsClean
<1> QED BY <1>4, <1>5, <1>9 DEF CleanHolds

-----------------------------------------------------------------------------
(* The worker's steps.                                                      *)

LEMMA WorkerTree ==
  ASSUME RecordShape, TreeShape, TreeHolds, Worker
  PROVE  /\ TreeHolds'
         /\ task.status = "rolled_back" => task'.status = "rolled_back"
<1> USE DEF RecordShape, TreeShape, TreeHolds, Live, Editing
<1> DEFINE Goal == /\ TreeHolds'
                   /\ task.status = "rolled_back" => task'.status = "rolled_back"
<1>1. CASE LoadPlan
  <2>1. \/ worker'.pc = "exit"
        \/ worker'.pc = "setup" /\ task.status \in {"approved", "executing"}
    BY <1>1 DEF LoadPlan, WorkerGoto, Fails, IdleWorker, MayRun
  <2>2. UNCHANGED <<task, worktree>> BY <1>1 DEF LoadPlan, record
  <2> QED BY <2>1, <2>2
<1>2. CASE SetUpWorktree
  <2>1. task.status # "rolled_back" /\ task' = task
    BY <1>2 DEF SetUpWorktree, WorkerAt, record
  <2>2. \/ worker'.pc = "exit" /\ UNCHANGED worktree
        \/ worker'.pc = "mark" /\ worktree'.state = "executing"
        \/ worker'.pc = "exit" /\ (UNCHANGED worktree \/ worktree'.dirty = FALSE)
    BY <1>2 DEF SetUpWorktree, WorkerGoto, Fails, IdleWorker
  <2> QED BY <2>1, <2>2
<1>3. CASE MarkExecutionStarted
  <2>1. task.status # "rolled_back" /\ worktree' = worktree /\ worker'.pc = "edit"
        /\ worker.pc = "mark"
    BY <1>3 DEF MarkExecutionStarted, WorkerAt, WorkerGoto
  <2>2. task' = task \/ task'.status = "executing"
    BY <1>3 DEF MarkExecutionStarted, Moved
  <2> QED BY <2>1, <2>2
<1>4. CASE Edit
  <2>1. task.status # "rolled_back" /\ task' = task /\ worker.pc = "edit"
        /\ worktree'.state = worktree.state
    BY <1>4 DEF Edit, WorkerAt, record
  <2>2. worker'.pc \in {"decide", "validate", "check", "exit"}
    BY <1>4 DEF Edit, Fails, IdleWorker
  <2> QED BY <2>1, <2>2
<1>5. CASE CheckCancelled
  <2>1. task.status # "rolled_back" /\ UNCHANGED <<task, worktree>> /\ worker.pc = "check"
    BY <1>5 DEF CheckCancelled, WorkerAt, record
  <2>2. worker'.pc \in {"decide", "validate"} BY <1>5 DEF CheckCancelled
  <2> QED BY <2>1, <2>2
<1>6. CASE MarkValidationStarted
  <2>1. task.status # "rolled_back" /\ worktree' = worktree /\ worker.pc = "validate"
        /\ worker'.pc \in {"isolate", "checks"}
    BY <1>6 DEF MarkValidationStarted, WorkerAt, WorkerGoto
  <2>2. task' = task \/ task'.status = "validating"
    BY <1>6 DEF MarkValidationStarted, Moved
  <2> QED BY <2>1, <2>2
<1>7. CASE MarkWorktreeValidating
  <2>1. task.status # "rolled_back" /\ task' = task /\ worker.pc = "isolate" /\ worker'.pc = "checks"
    BY <1>7 DEF MarkWorktreeValidating, WorkerAt, WorkerGoto, record
  <2>2. worktree'.state \in {worktree.state, "validating"}
    BY <1>7 DEF MarkWorktreeValidating
  <2> QED BY <2>1, <2>2
<1>8. CASE Validate
  <2>1. task.status # "rolled_back" /\ task' = task /\ worker.pc = "checks"
        /\ worktree'.state = worktree.state
    BY <1>8 DEF Validate, WorkerAt, record
  <2>2. worker'.pc \in {"index", "exit"} BY <1>8 DEF Validate, Fails, IdleWorker
  <2> QED BY <2>1, <2>2
<1>9. CASE ImportValidation
  <2>1. task.status # "rolled_back" /\ worktree' = worktree /\ worker.pc = "index"
        /\ worker'.pc \in {"decide", "edit"}
    BY <1>9 DEF ImportValidation, WorkerAt, WorkerGoto
  <2>2. task'.status # "rolled_back"
    <3>1. PICK advanced : advanced = Advanced("validating") OBVIOUS
    <3>2. advanced.status \in {task.status, "validating"} /\ "status" \in DOMAIN advanced
      BY <3>1 DEF Advanced, Moved
    <3>3. \/ task' \in {task, advanced}
          \/ task' = [advanced EXCEPT !.status = "reviewing", !.fresh = TRUE]
      BY <1>9, <3>1 DEF ImportValidation
    <3> QED BY <2>1, <3>2, <3>3
  <2> QED BY <2>1, <2>2
<1>10. CASE Decide
  <2>1. task.status # "rolled_back" /\ task' = task /\ worker.pc = "decide"
    BY <1>10 DEF Decide, WorkerAt, record
  <2>2. \/ worker'.pc = "exit" /\ worktree' = worktree
        \/ /\ worker'.pc = "persist"
           /\ IF worker'.outcome = "review_required"
              THEN worker'.ok /\ worktree' = worktree
              ELSE worktree'.dirty = FALSE /\ worktree'.state = worktree.state
    <3>1. CASE Fails /\ UNCHANGED worktree BY <3>1 DEF Fails, IdleWorker
    <3>2. ASSUME NEW success \in BOOLEAN, NEW cancelled,
                 NEW outcome \in IF success THEN {"review_required", "rolled_back"}
                                 ELSE {IF cancelled THEN "cancelled_rolled_back" ELSE "rolled_back"},
                 worker' = [IdleWorker EXCEPT !.pc = "persist", !.outcome = outcome,
                                              !.ok = success, !.cancelled = cancelled],
                 worktree' = IF outcome = "review_required" THEN worktree
                             ELSE [worktree EXCEPT !.dirty = FALSE]
          PROVE  /\ worker'.pc = "persist"
                 /\ IF worker'.outcome = "review_required"
                    THEN worker'.ok /\ worktree' = worktree
                    ELSE worktree'.dirty = FALSE /\ worktree'.state = worktree.state
      <4>1. worker'.pc = "persist" /\ worker'.outcome = outcome /\ worker'.ok = success
        BY <3>2 DEF IdleWorker
      <4>2. outcome = "review_required" => success BY <3>2
      <4> QED BY <3>2, <4>1, <4>2
    <3> QED BY <1>10, <3>1, <3>2 DEF Decide
  <2> QED BY <2>1, <2>2
<1>11. CASE PersistExecution
  <2>1. /\ worker.pc = "persist" /\ worktree' = worktree
        /\ worker'.pc = "record" /\ worker'.outcome = worker.outcome /\ worker'.ok = worker.ok
    BY <1>11 DEF PersistExecution, WorkerAt, WorkerGoto
  <2>2. PICK implied : implied = CASE worker.outcome = "rolled_back" -> {"rolled_back"}
                                   [] worker.outcome = "cancelled_rolled_back" -> {"cancelled"}
                                   [] OTHER -> {}
    OBVIOUS
  <2>3. PICK advanced : advanced = Advanced("executing") OBVIOUS
  <2>4. \/ UNCHANGED task
        \/ implied \cap ALLOWED_TRANSITIONS[advanced.status] = {} /\ task' = advanced
        \/ /\ implied \cap ALLOWED_TRANSITIONS[advanced.status] # {}
           /\ task' = [advanced EXCEPT !.status = CHOOSE s \in implied : TRUE, !.fresh = TRUE]
    BY <1>11, <2>2, <2>3 DEF PersistExecution
  <2>5. /\ task.status = "rolled_back" => advanced = task
        /\ task.status # "rolled_back" => advanced.status # "rolled_back"
    BY <2>3 DEF Advanced, Moved, Terminal
  <2>6. CASE task.status = "rolled_back"
    <3>1. ALLOWED_TRANSITIONS[advanced.status] = {} BY <2>5, <2>6 DEF ALLOWED_TRANSITIONS
    <3>2. task' = task BY <2>4, <2>5, <2>6, <3>1
    <3> QED BY <2>1, <2>6, <3>2
  <2>7. CASE task.status # "rolled_back"
    <3>1. CASE worker.outcome = "review_required"
      <4>1. implied = {} BY <2>2, <3>1
      <4>2. task' = task \/ task' = advanced BY <2>4, <4>1
      <4> QED BY <2>1, <2>5, <2>7, <4>2
    <3>2. CASE worker.outcome # "review_required"
      BY <2>1, <2>7, <3>2
    <3> QED BY <3>1, <3>2
  <2> QED BY <2>6, <2>7
<1>12. CASE FinalizeHistory
  <2>1. /\ worker.pc = "record" /\ worktree' = worktree /\ worker'.pc = "clean"
    BY <1>12 DEF FinalizeHistory, WorkerAt, WorkerGoto
  <2>2. PICK final : final = CASE worker.ok -> "succeeded"
                               [] ~worker.ok /\ worker.cancelled -> "cancelled"
                               [] OTHER -> "rolled_back"
    OBVIOUS
  <2>3. PICK reviewed : reviewed = IF worker.ok /\ task.status = "validating" THEN "reviewing"
                                   ELSE task.status
    OBVIOUS
  <2>4. \/ final \in ALLOWED_TRANSITIONS[reviewed] /\ task'.status = final
        \/ task'.status \in {reviewed, task.status}
    BY <1>12, <2>2, <2>3, MovedStatus DEF FinalizeHistory
  <2>5. CASE task.status = "rolled_back"
    <3>1. reviewed = "rolled_back" BY <2>3, <2>5
    <3>2. ALLOWED_TRANSITIONS[reviewed] = {} BY <3>1 DEF ALLOWED_TRANSITIONS
    <3> QED BY <2>1, <2>4, <2>5, <3>1, <3>2
  <2>6. CASE task.status # "rolled_back"
    <3>1. reviewed # "rolled_back" BY <2>3, <2>6
    <3>2. CASE worker.ok
      <4>1. final = "succeeded" BY <2>2, <3>2
      <4>2. task'.status # "rolled_back" BY <2>4, <2>6, <3>1, <4>1
      <4> QED BY <2>1, <2>6, <4>2
    <3>3. CASE ~worker.ok
      <4>1. ~worktree.dirty BY <2>1, <3>3
      <4> QED BY <2>1, <2>6, <4>1
    <3> QED BY <3>2, <3>3
  <2> QED BY <2>5, <2>6
<1>13. CASE LeaveWorktree
  <2>1. task' = task /\ worker'.pc = "exit" BY <1>13 DEF LeaveWorktree, IdleWorker, record
  <2>2. \/ worktree'.state = "promotion_ready" /\ worktree'.dirty = worktree.dirty
        \/ worktree'.dirty = FALSE
    BY <1>13 DEF LeaveWorktree
  <2> QED BY <2>1, <2>2
<1>14. CASE CompleteFuture
  <2>1. UNCHANGED <<task, worktree>> /\ worker'.pc = "idle"
    BY <1>14 DEF CompleteFuture, IdleWorker
  <2> QED BY <2>1
<1> QED BY <1>1, <1>2, <1>3, <1>4, <1>5, <1>6, <1>7, <1>8, <1>9, <1>10, <1>11, <1>12, <1>13,
           <1>14 DEF Worker

(* A worker runs an attempt, so that the newest one is not settled.         *)
LEMMA WorkerRuns ==
  ASSUME Rows, Worker
  PROVE  /\ jobs # << >> /\ attempts # << >> /\ ~Settled(Len(attempts))
         /\ UNCHANGED <<callers, rollbacks, spent>>
<1>1. jobs # << >> /\ UNCHANGED <<callers, rollbacks, spent>>
  BY DEF Worker, LoadPlan, SetUpWorktree, MarkExecutionStarted, Edit, CheckCancelled,
     MarkValidationStarted, MarkWorktreeValidating, Validate, ImportValidation, Decide,
     PersistExecution, FinalizeHistory, LeaveWorktree, CompleteFuture, WorkerAt, record,
     Rows, FutureRows
<1> QED BY <1>1, SettledEmpties

LEMMA WorkerKinds ==
  ASSUME Rows, Worker
  PROVE  /\ Len(attempts') = Len(attempts) /\ DOMAIN attempts' = DOMAIN attempts
         /\ \A i \in DOMAIN attempts : attempts'[i].kind = attempts[i].kind
<1>1. CASE UNCHANGED attempts BY <1>1
<1>2. CASE ImportValidation \/ PersistExecution BY <1>2, ReportsKeep
<1>3. CASE CompleteFuture
  <2>1. PICK S, failed : S = jobs[1].calls /\ failed = ~worker.ok OBVIOUS
  <2>2. FinishAttempts(S, failed) BY <1>3, <2>1 DEF CompleteFuture
  <2> QED BY <2>2, FinishedStates, AttemptsFinished DEF Rows
<1> QED
  BY <1>1, <1>2, <1>3 DEF Worker, LoadPlan, SetUpWorktree, MarkExecutionStarted, Edit,
     CheckCancelled, MarkValidationStarted, MarkWorktreeValidating, Validate, Decide,
     FinalizeHistory, LeaveWorktree, record

LEMMA WorkerClean ==
  ASSUME Rows, TreeShape, Ended, CleanHolds, Worker
  PROVE  CleanHolds'
<1>1. /\ jobs # << >> /\ attempts # << >> /\ ~Settled(Len(attempts))
      /\ UNCHANGED <<callers, rollbacks, spent>>
  BY WorkerRuns
<1>2. /\ Len(attempts') = Len(attempts) /\ DOMAIN attempts' = DOMAIN attempts
      /\ \A i \in DOMAIN attempts : attempts'[i].kind = attempts[i].kind
  BY WorkerKinds
<1>3. TreeHolds' /\ (task.status = "rolled_back" => task'.status = "rolled_back")
  BY WorkerTree DEF CleanHolds, Rows
<1>4. \A d \in Callers : Dispatches(d) =>
         callers[d].attempt \in DOMAIN attempts
         /\ attempts'[callers[d].attempt].kind = attempts[callers[d].attempt].kind
  BY <1>2 DEF Rows, NamedAttempts, Dispatches
<1>5. RestedClean'
  <2>1. ASSUME NEW c \in Callers, Resting(c)' PROVE callers[c].attempt # Len(attempts)
    <3>1. CASE callers[c].pc \in {"reconcile", "undo"}
      BY <1>1, <3>1 DEF Ended, RequestsEnded
    <3>2. CASE DispatchesRetry(c)'
      <4>1. DispatchesRetry(c) BY <1>1, <1>4, <3>2 DEF DispatchesRetry, Dispatches
      <4> QED BY <1>1, <4>1 DEF Ended, RequestsEnded
    <3> QED BY <1>1, <2>1, <3>1, <3>2 DEF Resting
  <2>2. ASSUME NEW k \in Keys PROVE rollbacks[k].attempt # Len(attempts)
    <3>1. Len(attempts) # 0
      BY <1>1, SeqIndices, EmptySeq DEF Rows, AttemptRows, IsSeq
    <3> QED BY <1>1, <3>1 DEF Ended, RollbacksEnded
  <2> QED BY <1>1, <1>2, <2>1, <2>2 DEF RestedClean
<1>6. ASSUME NEW c \in Callers, callers[c].pc \in Restoring PROVE Restores(c)'
  <2>1. Restores(c) BY <1>6 DEF CleanHolds, RequestsClean
  <2>2. callers[c].attempt \in DOMAIN attempts /\ Settled(callers[c].attempt)
    BY <1>6 DEF Ended, RequestsEnded
  <2>3. callers[c].attempt # Len(attempts) BY <1>1, <2>2
  <2>4. UNCHANGED <<task, worktree>> /\ worker'.pc \in {"idle", "setup", "exit"}
    <3>1. CASE LoadPlan
      BY <3>1 DEF LoadPlan, WorkerGoto, Fails, IdleWorker, record, Rows, RecordShape
    <3>2. CASE CompleteFuture BY <3>2 DEF CompleteFuture, IdleWorker
    <3>3. CASE SetUpWorktree
      <4>1. attempts[Mine].kind = "initial"
        <5>1. 1 \in DOMAIN jobs
          BY <1>1, SeqIndices, EmptySeq DEF Rows, FutureRows, IsSeq
        <5>2. jobs[1].attempt \in DOMAIN attempts /\ jobs[1].attempt > callers[c].attempt
          BY <2>2, <5>1 DEF Rows, FutureRows, Settled
        <5> QED BY <2>1, <5>2 DEF Restores, Mine
      <4>2. worktree.state \notin {"none", "cleaned"} BY <2>1 DEF Restores
      <4>3. Fails /\ UNCHANGED <<record, worktree>> BY <3>3, <4>1, <4>2 DEF SetUpWorktree
      <4> QED BY <4>3 DEF Fails, IdleWorker, record
    <3> QED BY <2>1, <3>1, <3>2, <3>3 DEF Restores, Worker, MarkExecutionStarted, Edit,
         CheckCancelled, MarkValidationStarted, MarkWorktreeValidating, Validate,
         ImportValidation, Decide, PersistExecution, FinalizeHistory, LeaveWorktree, WorkerAt
  <2> QED BY <1>1, <1>2, <2>1, <2>4 DEF Restores, Begun, Recorded
<1>7. ASSUME NEW c \in Callers, Alone(c) PROVE Alone(c)'
  BY <1>1, <1>4, <1>7 DEF Alone, Dispatches
<1>8. RequestsClean' BY <1>1, <1>3, <1>6, <1>7 DEF CleanHolds, RequestsClean
<1> QED BY <1>3, <1>5, <1>8 DEF CleanHolds

-----------------------------------------------------------------------------
(* The owner's steps.                                                       *)

Admitting == {"mark", "recover", "retry", "undo"}

LEMMA OverlapStays ==
  ASSUME RecordShape, [Next]_vars, ~spent'.overlapped
  PROVE  ~spent.overlapped
<1> USE DEF RecordShape
<1>1. CASE Bystands BY <1>1 DEF Bystands
<1>2. CASE Worker
  BY <1>2 DEF Worker, LoadPlan, SetUpWorktree, MarkExecutionStarted, Edit, CheckCancelled,
     MarkValidationStarted, MarkWorktreeValidating, Validate, ImportValidation, Decide,
     PersistExecution, FinalizeHistory, LeaveWorktree, CompleteFuture, WorkerAt
<1>3. CASE ProcessRestarts BY <1>3 DEF ProcessRestarts
<1>4. ASSUME NEW c \in Callers, Owners(c) PROVE ~spent.overlapped
  <2>1. ASSUME NEW others, ArrivesAmid(c, others) PROVE ~spent.overlapped
    BY <2>1 DEF ArrivesAmid
  <2>2. CASE InspectInterruption(c) \/ InspectRollback(c) \/ InspectFailedValidation(c)
             \/ ResumeFinishedRollback(c)
    BY <2>1, <2>2 DEF InspectInterruption, InspectRollback, InspectFailedValidation,
       ResumeFinishedRollback
  <2>3. CASE InspectFailedRetrySetup(c) BY <2>3 DEF InspectFailedRetrySetup, Arrives
  <2>4. CASE UndoRetry(c) BY <2>4 DEF UndoRetry
  <2>5. CASE UNCHANGED spent BY <2>5
  <2> QED BY <1>4, <2>2, <2>3, <2>4, <2>5 DEF Owners, Recovery, Retry, Reconciliation,
       CreateAttempt, Dispatch, MarkRecoveryRequired, BeginRecoveryAttempt, BeginRolledBackRetry,
       StartRollback, RequireRecovery, IsolateForRecovery, RestoreBaseline, MarkRolledBack,
       FinalizeRollback, CleanRolledBack, ReconcileFailedRetrySetup, At
<1> QED BY <1>1, <1>2, <1>3, <1>4, Bystanders

LEMMA AmidNobody ==
  ASSUME RecordShape, NEW c \in Callers, NEW others, ArrivesAmid(c, others), ~spent'.overlapped
  PROVE  callers[c].pc = "idle" /\ \A o \in Callers : callers[o].pc \notin others
<1>1. PICK noted : noted = (spent.overlapped \/ \E o \in Callers : callers[o].pc \in others)
  OBVIOUS
<1>2. spent'.overlapped = noted BY <1>1 DEF ArrivesAmid, RecordShape
<1>3. ~(\E o \in Callers : callers[o].pc \in others) BY <1>1, <1>2
<1> QED BY <1>3 DEF ArrivesAmid

LEMMA SettledIdle ==
  ASSUME Rows, Settled(Len(attempts))
  PROVE  jobs = << >> /\ worker.pc = "idle"
BY SettledEmpties DEF Rows, FutureRows

(* Nobody reconciles beside an admission.                                   *)
LEMMA NobodyReconciles ==
  ASSUME RequestsClean, NEW c \in Callers,
         callers[c].pc \in Admitting \/ DispatchesRetry(c)
  PROVE  \A d \in Callers : callers[d].pc \notin ReconcileSteps
<1> SUFFICES ASSUME NEW d \in Callers, callers[d].pc \in ReconcileSteps PROVE FALSE
  OBVIOUS
<1>1. Alone(d) BY DEF RequestsClean
<1>2. c # d BY DEF Admitting, ReconcileSteps, DispatchesRetry, Dispatches
<1> QED BY <1>1, <1>2 DEF Alone, Admitting, DispatchesRetry

LEMMA QuietRequests ==
  ASSUME \A d \in Callers : callers'[d].pc \notin ReconcileSteps
  PROVE  RequestsClean'
BY DEF RequestsClean, Restoring, ReconcileSteps

SameKinds ==
  /\ Len(attempts') = Len(attempts) /\ DOMAIN attempts' = DOMAIN attempts
  /\ \A i \in DOMAIN attempts : attempts'[i].kind = attempts[i].kind

LEMMA SameKindsKept ==
  ASSUME Rows, SameKinds, NEW d \in Callers, callers'[d] = callers[d]
  PROVE  /\ Dispatches(d)' => Dispatches(d)
         /\ Dispatches(d) => attempts'[callers'[d].attempt].kind = attempts[callers[d].attempt].kind
         /\ Resting(d)' => Resting(d)
<1>1. Dispatches(d) => callers[d].attempt \in DOMAIN attempts
  BY DEF Rows, NamedAttempts, Dispatches
<1> QED BY <1>1 DEF SameKinds, Dispatches, Resting, DispatchesRetry

(* A request turns to something that is neither reconciliation nor admission. *)
LEMMA TurnRequests ==
  ASSUME Rows, RequestsClean, NEW c \in Callers, SameKinds,
         \A d \in Callers \ {c} : callers'[d] = callers[d],
         callers'[c].pc \notin ReconcileSteps \cup Admitting \cup {"dispatch"},
         UNCHANGED <<task, rollbacks, worker, worktree>>
  PROVE  RequestsClean'
<1>1. ASSUME NEW d \in Callers, callers'[d].pc \in ReconcileSteps
      PROVE  d # c /\ callers'[d] = callers[d] /\ callers[d].pc \in ReconcileSteps
  BY <1>1
<1>2. ASSUME NEW d \in Callers, callers'[d].pc \in ReconcileSteps PROVE Alone(d)'
  <2>1. Alone(d) BY <1>1, <1>2 DEF RequestsClean
  <2>2. ASSUME NEW e \in Callers \ {d}
        PROVE  /\ callers'[e].pc \notin ReconcileSteps \cup {"mark", "recover", "retry", "undo"}
               /\ callers'[e].pc = "dispatch" => attempts'[callers'[e].attempt].kind = "initial"
    <3>1. CASE e = c BY <3>1 DEF Admitting
    <3>2. CASE e # c BY <2>1, <3>2, SameKindsKept DEF Alone, Dispatches
    <3> QED BY <3>1, <3>2
  <2> QED BY <2>2 DEF Alone, Dispatches
<1>3. ASSUME NEW d \in Callers, callers'[d].pc \in Restoring PROVE Restores(d)'
  <2>1. callers'[d] = callers[d] BY <1>1, <1>3 DEF Restoring
  <2>2. Restores(d) BY <1>3, <2>1 DEF RequestsClean
  <2> QED BY <2>1, <2>2 DEF Restores, Begun, Recorded, SameKinds
<1>4. ASSUME NEW d \in Callers, callers'[d].pc = "clean" PROVE task'.status = "rolled_back"
  BY <1>1, <1>4 DEF RequestsClean, ReconcileSteps
<1> QED BY <1>2, <1>3, <1>4 DEF RequestsClean

(* A request that reconciles alone takes its next step.                     *)
LEMMA SoloRequests ==
  ASSUME Rows, NEW c \in Callers, Alone(c), UNCHANGED attempts,
         \A d \in Callers \ {c} : callers'[d] = callers[d],
         callers'[c].pc \in Restoring => Restores(c)',
         callers'[c].pc = "clean" => task'.status = "rolled_back"
  PROVE  RequestsClean'
<1>1. \A d \in Callers \ {c} : callers'[d].pc \notin ReconcileSteps
  BY DEF Alone
<1>2. Alone(c)' BY DEF Alone, Dispatches
<1> QED BY <1>1, <1>2 DEF RequestsClean, Restoring, ReconcileSteps

LEMMA RestedKept ==
  ASSUME Rows, RestedClean, NEW c \in Callers, SameKinds,
         \A d \in Callers \ {c} : callers'[d] = callers[d],
         worktree'.dirty => worktree.dirty,
         callers'[c].attempt = Len(attempts) /\ Resting(c)' => ~worktree'.dirty,
         \A k \in Keys : rollbacks'[k].restored /\ rollbacks'[k].attempt = Len(attempts) =>
            \/ rollbacks[k].restored /\ rollbacks[k].attempt = Len(attempts)
            \/ ~worktree'.dirty
  PROVE  RestedClean'
<1>1. ASSUME NEW d \in Callers, Resting(d)', callers'[d].attempt = Len(attempts)
      PROVE  ~worktree'.dirty
  <2>1. CASE d = c
    <3>1. Resting(c)' BY <1>1, <2>1 DEF Resting, DispatchesRetry, Dispatches
    <3> QED BY <1>1, <2>1, <3>1
  <2>2. CASE d # c
    <3>1. callers'[d] = callers[d] BY <2>2
    <3>2. Resting(d) BY <1>1, <3>1, SameKindsKept
    <3> QED BY <1>1, <3>1, <3>2 DEF RestedClean
  <2> QED BY <2>1, <2>2
<1> QED BY <1>1 DEF RestedClean, SameKinds

(* With a new attempt nothing is left of what was restored before it.       *)
LEMMA RestedAdded ==
  ASSUME Rows, Ended, NEW c \in Callers, RowAdded, Dispatching(c),
         UNCHANGED <<rollbacks, worktree>>,
         attempts'[Len(attempts) + 1].kind = "retry" => ~worktree.dirty
  PROVE  RestedClean'
<1>1. PICK n : n = Len(attempts) + 1 OBVIOUS
<1>2. n \notin DOMAIN attempts /\ n # 0
  BY <1>1, SeqIndices DEF Rows, AttemptRows
<1>3. Len(attempts') = n BY <1>1 DEF RowAdded
<1>4. PICK q : q = [[Idle EXCEPT !.pc = "dispatch"] EXCEPT !.attempt = n] OBVIOUS
<1>5. callers' = [callers EXCEPT ![c] = q] BY <1>1, <1>4 DEF Dispatching
<1>6. q.pc = "dispatch" /\ q.attempt = n BY <1>4 DEF Idle
<1>7. \A d \in Callers : callers'[d] = IF d = c THEN q ELSE callers[d]
  BY <1>5 DEF Rows, RecordShape
<1>8. ASSUME NEW d \in Callers, Resting(d)', callers'[d].attempt = n PROVE ~worktree'.dirty
  <2>1. CASE d = c
    BY <1>1, <1>6, <1>7, <1>8, <2>1 DEF Resting, DispatchesRetry, Dispatches
  <2>2. CASE d # c
    <3>1. callers'[d] = callers[d] BY <1>7, <2>2
    <3>2. callers[d].attempt \in DOMAIN attempts
      BY <1>8, <3>1 DEF Resting, DispatchesRetry, Dispatches, Rows, NamedAttempts, Ended, RequestsEnded
    <3> QED BY <1>2, <1>8, <3>1, <3>2
  <2> QED BY <2>1, <2>2
<1>9. \A k \in Keys : rollbacks'[k].attempt # n
  BY <1>2 DEF Ended, RollbacksEnded
<1> QED BY <1>3, <1>8, <1>9 DEF RestedClean

(* A step of one request's, as the rest of the state sees it.               *)
Turns(c) == \A d \in Callers \ {c} : callers'[d] = callers[d]

LEMMA OthersWait ==
  ASSUME RecordShape, NEW c \in Callers, Owners(c)
  PROVE  Turns(c) /\ UNCHANGED worker
<1> USE DEF RecordShape
<1>0. ASSUME NEW q, callers' = [callers EXCEPT ![c] = q] PROVE Turns(c)
  BY <1>0 DEF Turns
<1>1. (Returns(c) \/ Dispatching(c) \/ \E pc : Goto(c, pc)) => Turns(c)
  <2>1. Returns(c) => Turns(c) BY <1>0 DEF Returns
  <2>2. Dispatching(c) => Turns(c) BY <1>0 DEF Dispatching
  <2>3. ASSUME NEW pc, Goto(c, pc) PROVE Turns(c) BY <2>3 DEF Goto, Turns
  <2> QED BY <2>1, <2>2, <2>3
<1>2. ASSUME NEW pc, NEW seen, NEW p, NEW k, Holding(c, pc, seen, p, k) PROVE Turns(c)
  BY <1>2, <1>0 DEF Holding
<1>3. ASSUME NEW pc, NEW k, Reconciles(c, pc, k) PROVE Turns(c)
  BY <1>3, <1>0 DEF Reconciles
<1>4. InspectInterruption(c) \/ InspectRollback(c) => Turns(c)
  BY <1>2 DEF InspectInterruption, InspectRollback
<1>5. InspectFailedValidation(c) \/ ResumeFinishedRollback(c) => Turns(c)
  BY <1>3 DEF InspectFailedValidation, ResumeFinishedRollback
<1>6. InspectFailedRetrySetup(c) => Turns(c)
  BY <1>0 DEF InspectFailedRetrySetup
<1>7. CreateAttempt(c) \/ Dispatch(c) \/ UndoRetry(c) \/ MarkRecoveryRequired(c)
      \/ BeginRecoveryAttempt(c) \/ BeginRolledBackRetry(c) \/ StartRollback(c)
      \/ RequireRecovery(c) \/ IsolateForRecovery(c) \/ RestoreBaseline(c) \/ MarkRolledBack(c)
      \/ FinalizeRollback(c) \/ CleanRolledBack(c) \/ ReconcileFailedRetrySetup(c) => Turns(c)
  BY <1>1 DEF CreateAttempt, Dispatch, UndoRetry, MarkRecoveryRequired, BeginRecoveryAttempt,
     BeginRolledBackRetry, StartRollback, RequireRecovery, IsolateForRecovery, RestoreBaseline,
     MarkRolledBack, FinalizeRollback, CleanRolledBack, ReconcileFailedRetrySetup, NextOrReturn
<1>8. Turns(c)
  BY <1>4, <1>5, <1>6, <1>7 DEF Owners, Recovery, Retry, Reconciliation
<1>9. UNCHANGED worker
  BY DEF Owners, Recovery, Retry, Reconciliation, CreateAttempt, Dispatch, UndoRetry,
     InspectInterruption, MarkRecoveryRequired, BeginRecoveryAttempt, InspectRollback,
     BeginRolledBackRetry, InspectFailedValidation, ResumeFinishedRollback, StartRollback,
     RequireRecovery, IsolateForRecovery, RestoreBaseline, MarkRolledBack, FinalizeRollback,
     CleanRolledBack, InspectFailedRetrySetup, ReconcileFailedRetrySetup, process
<1> QED BY <1>8, <1>9

(* A request returns and has moved neither the task nor its worktree.       *)
LEMMA ReturnsClean ==
  ASSUME Rows, CleanHolds, NEW c \in Callers, Returns(c), SameKinds,
         UNCHANGED <<task, rollbacks, worker, worktree>>
  PROVE  CleanHolds'
<1>1. Turns(c) /\ callers'[c].pc = "idle"
  BY DEF Returns, Idle, Turns, Rows, RecordShape
<1>2. TreeHolds' BY DEF CleanHolds, TreeHolds, Live, Editing
<1>3. callers'[c].pc \notin ReconcileSteps \cup Admitting \cup {"dispatch"}
  BY <1>1 DEF ReconcileSteps, Admitting
<1>4. RequestsClean' BY <1>1, <1>3, TurnRequests DEF CleanHolds, Turns
<1>5. ~Resting(c)' BY <1>1 DEF Resting, DispatchesRetry, Dispatches
<1>6. RestedClean' BY <1>1, <1>5, RestedKept DEF CleanHolds, Turns
<1> QED BY <1>2, <1>4, <1>6 DEF CleanHolds

(* A request moves while nobody reconciles.                                 *)
LEMMA QuietClean ==
  ASSUME Rows, CleanHolds, NEW c \in Callers, Turns(c), SameKinds,
         UNCHANGED <<rollbacks, worker, worktree>>,
         \A d \in Callers : callers[d].pc \notin ReconcileSteps,
         callers'[c].pc \notin ReconcileSteps,
         task'.status = "rolled_back" =>
            task.status = "rolled_back" \/ (~Live /\ ~worktree.dirty),
         callers'[c].attempt = Len(attempts) /\ Resting(c)' => ~worktree.dirty
  PROVE  CleanHolds'
<1>1. TreeHolds' BY DEF CleanHolds, TreeHolds, Live, Editing
<1>2. \A d \in Callers : callers'[d].pc \notin ReconcileSteps BY DEF Turns
<1>3. RequestsClean' BY <1>2, QuietRequests
<1>4. RestedClean' BY RestedKept DEF CleanHolds, Turns
<1> QED BY <1>1, <1>3, <1>4 DEF CleanHolds

(* An attempt is admitted while nobody reconciles.                          *)
LEMMA AddedClean ==
  ASSUME Rows, Ended, CleanHolds, NEW c \in Callers, Turns(c), RowAdded, Dispatching(c),
         UNCHANGED <<rollbacks, worker, worktree>>,
         \A d \in Callers : callers[d].pc \notin ReconcileSteps,
         task'.status # "rolled_back",
         attempts'[Len(attempts) + 1].kind = "retry" => ~worktree.dirty
  PROVE  CleanHolds'
<1>1. TreeHolds' BY DEF CleanHolds, TreeHolds, Live, Editing
<1>2. callers'[c].pc = "dispatch" BY DEF Dispatching, Idle, Rows, RecordShape
<1>3. \A d \in Callers : callers'[d].pc \notin ReconcileSteps
  BY <1>2 DEF Turns, ReconcileSteps
<1>4. RequestsClean' BY <1>3, QuietRequests
<1>5. RestedClean' BY RestedAdded
<1> QED BY <1>1, <1>4, <1>5 DEF CleanHolds

(* A request that reconciles alone takes its next step.                     *)
LEMMA SoloClean ==
  ASSUME Rows, CleanHolds, NEW c \in Callers, Alone(c), Turns(c), UNCHANGED attempts, TreeHolds',
         worktree'.dirty => worktree.dirty,
         callers'[c].pc \in ReconcileSteps \cup {"idle"},
         callers'[c].pc \in Restoring => Restores(c)',
         callers'[c].pc = "clean" => task'.status = "rolled_back",
         \A k \in Keys : rollbacks'[k].restored /\ rollbacks'[k].attempt = Len(attempts) =>
            \/ rollbacks[k].restored /\ rollbacks[k].attempt = Len(attempts)
            \/ ~worktree'.dirty
  PROVE  CleanHolds'
<1>1. RequestsClean' BY SoloRequests DEF Turns
<1>2. SameKinds BY DEF SameKinds
<1>3. ~Resting(c)' BY DEF Resting, DispatchesRetry, Dispatches, ReconcileSteps
<1>4. RestedClean' BY <1>2, <1>3, RestedKept DEF CleanHolds, Turns
<1> QED BY <1>1, <1>4 DEF CleanHolds

-----------------------------------------------------------------------------
(* The owner's admissions.                                                  *)

LEMMA CreateClean ==
  ASSUME Rows, Ended, CleanHolds, NEW c \in Callers, CreateAttempt(c)
  PROVE  CleanHolds'
<1>1. UNCHANGED <<task, rollbacks, worker, worktree>> BY DEF CreateAttempt, process
<1>2. CASE Returns(c) /\ UNCHANGED attempts
  BY <1>1, <1>2, ReturnsClean DEF SameKinds
<1>3. ASSUME task.status = "approved", Dispatching(c), Admitted("initial", callers[c].plan, None)
      PROVE  CleanHolds'
  <2>1. RowAdded /\ attempts'[Len(attempts) + 1].kind = "initial"
    BY <1>3, AdmittedAdds DEF Rows
  <2>2. PICK n : n = Len(attempts) + 1 OBVIOUS
  <2>3. DOMAIN attempts' = DOMAIN attempts \cup {n}
    BY <2>1, <2>2, SeqIndices DEF RowAdded, Rows, AttemptRows
  <2>4. /\ callers'[c].pc = "dispatch" /\ callers'[c].attempt = n
        /\ \A d \in Callers \ {c} : callers'[d] = callers[d]
    <3>1. PICK q : q = [[Idle EXCEPT !.pc = "dispatch"] EXCEPT !.attempt = n] OBVIOUS
    <3>2. callers' = [callers EXCEPT ![c] = q] BY <1>3, <2>2, <3>1 DEF Dispatching
    <3>3. q.pc = "dispatch" /\ q.attempt = n BY <3>1 DEF Idle
    <3> QED BY <3>2, <3>3 DEF Rows, RecordShape
  <2>5. TreeHolds' BY <1>1 DEF CleanHolds, TreeHolds, Live, Editing
  <2>6. RestedClean' BY <1>1, <1>3, <2>1, RestedAdded
  <2>7. \A d \in Callers : callers'[d].pc \in ReconcileSteps => d # c /\ callers'[d] = callers[d]
    BY <2>4 DEF ReconcileSteps
  <2>8. ASSUME NEW d \in Callers, callers'[d].pc \in ReconcileSteps PROVE Alone(d)'
    <3>1. Alone(d) BY <2>7, <2>8 DEF CleanHolds, RequestsClean
    <3>2. ASSUME NEW e \in Callers \ {d}
          PROVE  /\ callers'[e].pc \notin ReconcileSteps \cup {"mark", "recover", "retry", "undo"}
                 /\ callers'[e].pc = "dispatch" => attempts'[callers'[e].attempt].kind = "initial"
      <4>1. CASE e = c BY <2>1, <2>2, <2>4, <4>1 DEF ReconcileSteps
      <4>2. CASE e # c
        <5>1. callers'[e] = callers[e] BY <2>4, <4>2
        <5>2. callers[e].pc = "dispatch" => callers[e].attempt \in DOMAIN attempts
          BY DEF Rows, NamedAttempts
        <5> QED BY <2>1, <3>1, <5>1, <5>2 DEF RowAdded, Alone, Dispatches
      <4> QED BY <4>1, <4>2
    <3> QED BY <3>2 DEF Alone, Dispatches
  <2>9. ASSUME NEW d \in Callers, callers'[d].pc \in Restoring PROVE Restores(d)'
    <3>1. callers'[d] = callers[d] BY <2>7, <2>9 DEF Restoring
    <3>2. Restores(d) BY <2>9, <3>1 DEF CleanHolds, RequestsClean
    <3>3. \A i \in DOMAIN attempts' : i > callers'[d].attempt => attempts'[i].kind = "initial"
      BY <2>1, <2>2, <2>3, <3>1, <3>2 DEF Restores, RowAdded
    <3> QED BY <1>1, <1>3, <3>1, <3>2, <3>3 DEF Restores, Begun, Recorded, Under
  <2>10. \A d \in Callers : callers'[d].pc = "clean" => task'.status = "rolled_back"
    BY <1>1, <2>7 DEF CleanHolds, RequestsClean, ReconcileSteps
  <2>11. RequestsClean' BY <2>8, <2>9, <2>10 DEF RequestsClean
  <2> QED BY <2>5, <2>6, <2>11 DEF CleanHolds
<1> QED BY <1>2, <1>3 DEF CreateAttempt

LEMMA DispatchClean ==
  ASSUME Rows, CleanHolds, NEW c \in Callers, Turns(c), Dispatch(c)
  PROVE  CleanHolds'
<1>1. UNCHANGED <<task, rollbacks, worker, worktree>> BY DEF Dispatch
<1>2. PICK i : i = callers[c].attempt OBVIOUS
<1>3. SameKinds
  <2>1. UNCHANGED attempts \/ FinishAttempts({i}, TRUE) BY <1>2 DEF Dispatch
  <2>2. UNCHANGED attempts => SameKinds BY DEF SameKinds
  <2>3. ASSUME FinishAttempts({i}, TRUE) PROVE SameKinds
    BY <2>3, FinishedStates, AttemptsFinished DEF SameKinds, Rows
  <2> QED BY <2>1, <2>2, <2>3
<1>4. CASE Returns(c) BY <1>1, <1>3, <1>4, ReturnsClean
<1>5. ASSUME attempts[callers[c].attempt].kind = "retry", Goto(c, "undo") PROVE CleanHolds'
  <2>1. DispatchesRetry(c) BY <1>5 DEF DispatchesRetry, Dispatches, Dispatch, At
  <2>2. \A d \in Callers : callers[d].pc \notin ReconcileSteps
    BY <2>1, NobodyReconciles DEF CleanHolds
  <2>3. callers'[c].pc = "undo" /\ callers'[c].attempt = callers[c].attempt
    BY <1>5 DEF Goto, Rows, RecordShape, CallerShape
  <2>4. callers[c].attempt = Len(attempts) => ~worktree.dirty
    BY <2>1 DEF CleanHolds, RestedClean, Resting
  <2>5. callers'[c].pc \notin ReconcileSteps BY <2>3 DEF ReconcileSteps
  <2> QED BY <1>1, <1>3, <2>2, <2>3, <2>4, <2>5, QuietClean
<1> QED BY <1>4, <1>5 DEF Dispatch, NextOrReturn

LEMMA UndoClean ==
  ASSUME Rows, Ended, CleanHolds, ~spent'.overlapped, NEW c \in Callers, Turns(c), UndoRetry(c)
  PROVE  CleanHolds'
<1>1. UNCHANGED <<attempts, rollbacks, worker, worktree>> /\ callers[c].pc = "undo" /\ Returns(c)
  BY DEF UndoRetry, process
<1>2. callers[c].attempt = Len(attempts)
  <2>1. PICK noted : noted = (spent.overlapped \/ callers[c].attempt # Len(attempts)) OBVIOUS
  <2>2. spent'.overlapped = noted BY <2>1 DEF UndoRetry, Rows, RecordShape
  <2> QED BY <2>1, <2>2
<1>3. ~worktree.dirty BY <1>1, <1>2 DEF CleanHolds, RestedClean, Resting
<1>4. worker.pc = "idle"
  BY <1>1, <1>2, SettledIdle DEF Ended, RequestsEnded
<1>5. \A d \in Callers : callers[d].pc \notin ReconcileSteps
  BY <1>1, NobodyReconciles DEF CleanHolds, Admitting
<1>6. callers'[c].pc \notin ReconcileSteps
  BY <1>1 DEF Returns, Idle, Rows, RecordShape, ReconcileSteps
<1> QED BY <1>1, <1>3, <1>4, <1>5, <1>6, QuietClean DEF SameKinds, Live, Editing

LEMMA InspectionClean ==
  ASSUME Rows, CleanHolds, ~spent'.overlapped, NEW c \in Callers, Turns(c),
         InspectInterruption(c) \/ InspectRollback(c)
  PROVE  CleanHolds'
<1>1. ArrivesAmid(c, ReconcileSteps) /\ UNCHANGED <<record, process, worktree>>
  BY DEF InspectInterruption, InspectRollback
<1>2. \A d \in Callers : callers[d].pc \notin ReconcileSteps
  BY <1>1, AmidNobody DEF Rows
<1>3. PICK pc, k : pc \in {"mark", "recover", "retry"} /\ Holding(c, pc, None, task.plan, k)
  BY DEF InspectInterruption, InspectRollback
<1>4. callers'[c].pc \in {"mark", "recover", "retry"}
  BY <1>3 DEF Holding, Idle, Rows, RecordShape
<1>5. callers'[c].pc \notin ReconcileSteps /\ ~Resting(c)'
  BY <1>4 DEF ReconcileSteps, Resting, DispatchesRetry, Dispatches
<1> QED BY <1>1, <1>2, <1>5, QuietClean DEF record, process, SameKinds

LEMMA MarkClean ==
  ASSUME Rows, CleanHolds, NEW c \in Callers, Turns(c), MarkRecoveryRequired(c)
  PROVE  CleanHolds'
<1>1. UNCHANGED <<attempts, rollbacks, worker, worktree>> /\ callers[c].pc = "mark"
  BY DEF MarkRecoveryRequired, process, At
<1>2. Returns(c) \/ Goto(c, "recover") BY DEF MarkRecoveryRequired, NextOrReturn
<1>3. callers'[c].pc \in {"idle", "recover"}
  BY <1>2 DEF Returns, Goto, Idle, Rows, RecordShape, CallerShape
<1>4. callers'[c].pc \notin ReconcileSteps /\ ~Resting(c)'
  BY <1>3 DEF ReconcileSteps, Resting, DispatchesRetry, Dispatches
<1>5. \A d \in Callers : callers[d].pc \notin ReconcileSteps
  BY <1>1, NobodyReconciles DEF CleanHolds, Admitting
<1>6. task' = task \/ task' = Moved("recovery_required") BY DEF MarkRecoveryRequired
<1>7. task'.status = "rolled_back" => task.status = "rolled_back"
  BY <1>6, MovedStatus DEF Rows
<1> QED BY <1>1, <1>4, <1>5, <1>7, QuietClean DEF SameKinds

LEMMA AdmissionClean ==
  ASSUME Rows, Ended, CleanHolds, NEW c \in Callers, Turns(c),
         BeginRecoveryAttempt(c) \/ BeginRolledBackRetry(c)
  PROVE  CleanHolds'
<1>1. UNCHANGED <<rollbacks, worker, worktree>> /\ callers[c].pc \in {"recover", "retry"}
  BY DEF BeginRecoveryAttempt, BeginRolledBackRetry, process, At
<1>2. CASE Returns(c) /\ UNCHANGED <<task, attempts>>
  BY <1>1, <1>2, ReturnsClean DEF SameKinds
<1>3. ASSUME NEW kind, NEW p, NEW k, Admitted(kind, p, k), Dispatching(c),
             task' = Moved("executing"), kind = "retry" => task.status = "rolled_back"
      PROVE  CleanHolds'
  <2>1. RowAdded /\ attempts'[Len(attempts) + 1].kind = kind
    BY <1>3, AdmittedAdds DEF Rows
  <2>2. \A d \in Callers : callers[d].pc \notin ReconcileSteps
    BY <1>1, NobodyReconciles DEF CleanHolds, Admitting
  <2>3. task'.status = "executing" BY <1>3, MovedStatus DEF Rows
  <2>4. kind = "retry" => ~worktree.dirty BY <1>3 DEF CleanHolds, TreeHolds
  <2> QED BY <1>1, <1>3, <2>1, <2>2, <2>3, <2>4, AddedClean
<1>4. CASE BeginRecoveryAttempt(c)
  BY <1>2, <1>3, <1>4 DEF BeginRecoveryAttempt
<1>5. CASE BeginRolledBackRetry(c)
  BY <1>2, <1>3, <1>5 DEF BeginRolledBackRetry
<1> QED BY <1>4, <1>5

-----------------------------------------------------------------------------
(* The owner's reconciliation.                                              *)

LEMMA InspectedClean ==
  ASSUME Rows, TreeShape, Runs, Ended, CleanHolds, ~spent'.overlapped, NEW c \in Callers, Turns(c),
         InspectFailedValidation(c)
  PROVE  CleanHolds'
<1>1. /\ ArrivesAmid(c, ReconcileSteps \cup AdmissionSteps)
      /\ UNCHANGED <<record, process, worktree>>
  BY DEF InspectFailedValidation
<1>2. Alone(c)
  <2>1. \A d \in Callers : callers[d].pc \notin ReconcileSteps \cup AdmissionSteps
    BY <1>1, AmidNobody DEF Rows
  <2> QED BY <2>1 DEF Alone, AdmissionSteps, Dispatches
<1>3. PICK k \in Keys :
        /\ task.status \in Under /\ WorkerTerminated
        /\ worktree.state \in {"executing", "validating", "recovery_required"}
        /\ rollbacks[k].state # "none" => rollbacks[k].attempt = Len(attempts)
        /\ \E pc \in {"start", "resume"} : Reconciles(c, pc, k)
  BY DEF InspectFailedValidation, Under
<1>4. PICK pc \in {"start", "resume"} : Reconciles(c, pc, k)
  BY <1>3
<1>5. /\ callers'[c].pc \in {"start", "resume"} /\ callers'[c].attempt = Len(attempts)
      /\ callers'[c].seen = task.status /\ callers'[c].key = k
      /\ callers'[c].restored => rollbacks[k].restored
  <2>1. PICK q : q = [pc |-> pc, seen |-> task.status, plan |-> task.plan,
                      attempt |-> Len(attempts), key |-> k, restored |-> rollbacks[k].restored]
    OBVIOUS
  <2>2. callers' = [callers EXCEPT ![c] = q] BY <1>4, <2>1 DEF Reconciles
  <2>3. callers'[c] = q BY <2>2 DEF Rows, RecordShape
  <2> QED BY <2>1, <2>3
<1>6. worker.pc = "idle"
  BY <1>3 DEF WorkerTerminated, Runs, FuturesInOrder, Rows, FutureRows
<1>7. rollbacks[k].restored => ~worktree.dirty
  BY <1>3 DEF Ended, RollbacksEnded, CleanHolds, RestedClean
<1>8. Restores(c)'
  <2>1. UNCHANGED <<attempts, task, worker, worktree, rollbacks>> BY <1>1 DEF record, process
  <2>2. \A i \in DOMAIN attempts : ~(i > Len(attempts))
    BY SeqIndices DEF Rows, AttemptRows
  <2>3. Recorded(c)' => ~worktree'.dirty BY <1>5, <1>7, <2>1 DEF Recorded
  <2>4. Begun(c)' => task'.status = "recovery_required" BY <1>5, <2>1 DEF Begun
  <2> QED BY <1>3, <1>5, <1>6, <2>1, <2>2, <2>3, <2>4 DEF Restores
<1>9. TreeHolds' BY <1>1 DEF record, process, CleanHolds, TreeHolds, Live, Editing
<1>10. callers'[c].pc \in ReconcileSteps /\ callers'[c].pc # "clean" BY <1>5 DEF ReconcileSteps
<1> QED BY <1>1, <1>2, <1>8, <1>9, <1>10, SoloClean DEF record, process

LEMMA ResumedClean ==
  ASSUME Rows, CleanHolds, ~spent'.overlapped, NEW c \in Callers, Turns(c),
         ResumeFinishedRollback(c)
  PROVE  CleanHolds'
<1>1. /\ ArrivesAmid(c, ReconcileSteps \cup AdmissionSteps)
      /\ UNCHANGED <<record, process, worktree>> /\ task.status = "rolled_back"
  BY DEF ResumeFinishedRollback
<1>2. Alone(c)
  <2>1. \A d \in Callers : callers[d].pc \notin ReconcileSteps \cup AdmissionSteps
    BY <1>1, AmidNobody DEF Rows
  <2> QED BY <2>1 DEF Alone, AdmissionSteps, Dispatches
<1>3. PICK k \in Keys : Reconciles(c, "clean", k) BY DEF ResumeFinishedRollback
<1>4. callers'[c].pc = "clean" BY <1>3 DEF Reconciles, Rows, RecordShape
<1>5. TreeHolds' BY <1>1 DEF record, process, CleanHolds, TreeHolds, Live, Editing
<1>6. callers'[c].pc \in ReconcileSteps /\ callers'[c].pc \notin Restoring
  BY <1>4 DEF ReconcileSteps, Restoring
<1> QED BY <1>1, <1>2, <1>5, <1>6, SoloClean DEF record, process

(* What a step of a request that restores starts from.                      *)
LEMMA Restorer ==
  ASSUME Rows, Ended, CleanHolds, NEW c \in Callers, callers[c].pc \in Restoring
  PROVE  /\ Alone(c) /\ Restores(c) /\ callers[c].key \in Keys
         /\ callers[c].attempt \in DOMAIN attempts /\ Settled(callers[c].attempt)
BY DEF CleanHolds, RequestsClean, Ended, RequestsEnded, Restoring

LEMMA Steps ==
  ASSUME RecordShape, NEW c \in Callers
  PROVE  /\ \A pc : Goto(c, pc) =>
              /\ callers'[c].pc = pc /\ callers'[c].attempt = callers[c].attempt
              /\ callers'[c].key = callers[c].key /\ callers'[c].seen = callers[c].seen
              /\ callers'[c].restored = callers[c].restored
         /\ Returns(c) => callers'[c].pc = "idle"
BY DEF RecordShape, CallerShape, Goto, Returns, Idle

LEMMA StartClean ==
  ASSUME Rows, TreeShape, Ended, CleanHolds, NEW c \in Callers, Turns(c), StartRollback(c)
  PROVE  CleanHolds'
<1>1. UNCHANGED <<task, attempts, worker, worktree>> /\ callers[c].pc \in {"start", "resume"}
  BY DEF StartRollback, process, At
<1>2. PICK k : k = callers[c].key OBVIOUS
<1>3. Alone(c) /\ Restores(c) /\ k \in Keys
  BY <1>1, <1>2, Restorer DEF Restoring, ReconcileSteps
<1>4. TreeHolds' BY <1>1 DEF CleanHolds, TreeHolds, Live, Editing
<1>5. CASE Returns(c) /\ rollbacks' = [rollbacks EXCEPT ![k].shadowed = TRUE]
  <2>1. \A o \in Keys : /\ rollbacks'[o].attempt = rollbacks[o].attempt
                        /\ rollbacks'[o].restored = rollbacks[o].restored
    BY <1>3, <1>5 DEF TreeShape, RollbackFields
  <2>2. callers'[c].pc = "idle" BY <1>5, Steps DEF Rows
  <2> QED BY <1>1, <1>3, <1>4, <2>1, <2>2, SoloClean DEF Restoring, ReconcileSteps
<1>6. ASSUME NEW pc \in {"isolate", "require"}, Goto(c, pc),
             pc = "isolate" => callers[c].seen = "recovery_required",
             rollbacks' = [rollbacks EXCEPT ![k].state = "executing",
                                            ![k].attempt = callers[c].attempt]
      PROVE  CleanHolds'
  <2>1. /\ \A o \in Keys : rollbacks'[o].restored = rollbacks[o].restored
        /\ \A o \in Keys : o # k => rollbacks'[o] = rollbacks[o]
    BY <1>3, <1>6 DEF TreeShape, RollbackFields
  <2>2. /\ callers'[c].pc = pc /\ callers'[c].attempt = callers[c].attempt
        /\ callers'[c].key = k /\ callers'[c].restored = callers[c].restored
        /\ callers'[c].seen = callers[c].seen
    BY <1>2, <1>6, Steps DEF Rows
  <2>3. Restores(c)'
    <3>1. Begun(c)' => Begun(c) BY <1>1, <1>6, <2>2 DEF Begun
    <3>2. Recorded(c)' => Recorded(c) BY <1>2, <1>3, <1>6, <2>1, <2>2 DEF Recorded
    <3> QED BY <1>1, <1>3, <2>2, <3>1, <3>2 DEF Restores
  <2>4. rollbacks[k].restored => ~worktree'.dirty
    BY <1>1, <1>2, <1>3 DEF Restores, Recorded
  <2>5. \A o \in Keys : rollbacks'[o].restored /\ rollbacks'[o].attempt = Len(attempts) =>
            \/ rollbacks[o].restored /\ rollbacks[o].attempt = Len(attempts)
            \/ ~worktree'.dirty
    BY <2>1, <2>4
  <2>6. callers'[c].pc \in ReconcileSteps /\ callers'[c].pc # "clean"
    BY <1>6, <2>2 DEF ReconcileSteps
  <2> QED BY <1>1, <1>3, <1>4, <2>3, <2>5, <2>6, SoloClean
<1> QED BY <1>2, <1>5, <1>6 DEF StartRollback

LEMMA RequireClean ==
  ASSUME Rows, Ended, CleanHolds, NEW c \in Callers, Turns(c), RequireRecovery(c)
  PROVE  CleanHolds'
<1>1. UNCHANGED <<attempts, rollbacks, worker, worktree>> /\ callers[c].pc = "require"
  BY DEF RequireRecovery, process, At
<1>2. Alone(c) /\ Restores(c)
  BY <1>1, Restorer DEF Restoring, ReconcileSteps
<1>3. CASE Returns(c) /\ task' = task
  BY <1>1, <1>3, ReturnsClean DEF SameKinds
<1>4. CASE Goto(c, "isolate") /\ CanMoveTo("recovery_required")
  <2>1. task'.status = "recovery_required"
    BY <1>4, MovedStatus DEF RequireRecovery, MovedIfAllowed, Rows
  <2>2. task.status \in Under BY <1>2, <1>4 DEF CanMoveTo, Restores, Past, ALLOWED_TRANSITIONS
  <2>3. /\ callers'[c].pc = "isolate" /\ callers'[c].attempt = callers[c].attempt
        /\ callers'[c].key = callers[c].key /\ callers'[c].restored = callers[c].restored
    BY <1>4, Steps DEF Rows
  <2>4. Recorded(c)' => Recorded(c) BY <1>1, <2>3 DEF Recorded
  <2>5. Restores(c)' BY <1>1, <1>2, <2>1, <2>2, <2>3, <2>4 DEF Restores, Under
  <2>6. TreeHolds' BY <1>1, <2>1 DEF CleanHolds, TreeHolds, Live, Editing
  <2>7. callers'[c].pc \in ReconcileSteps /\ callers'[c].pc # "clean"
    BY <2>3 DEF ReconcileSteps
  <2> QED BY <1>1, <1>2, <2>5, <2>6, <2>7, SoloClean
<1> QED BY <1>3, <1>4 DEF RequireRecovery, NextOrReturn, MovedIfAllowed

LEMMA TreeMovesClean ==
  ASSUME Rows, TreeShape, Ended, CleanHolds, NEW c \in Callers, Turns(c),
         IsolateForRecovery(c) \/ MarkRolledBack(c)
  PROVE  CleanHolds'
<1>1. UNCHANGED <<record, process>> /\ callers[c].pc \in {"isolate", "rolled"}
  BY DEF IsolateForRecovery, MarkRolledBack, At
<1>2. Alone(c) /\ Restores(c)
  BY <1>1, Restorer DEF Restoring, ReconcileSteps
<1>3. PICK pc, s : /\ pc \in {"restore", "finalize"} /\ Goto(c, pc)
                   /\ s \in {"recovery_required", "rolled_back"}
                   /\ worktree' = [worktree EXCEPT !.state = s]
                   /\ pc = "finalize" => callers[c].pc = "rolled"
  BY <1>2 DEF IsolateForRecovery, MarkRolledBack, Restores, At
<1>4. worktree'.state = s /\ worktree'.dirty = worktree.dirty
  BY <1>3 DEF TreeShape
<1>5. /\ callers'[c].pc = pc /\ callers'[c].attempt = callers[c].attempt
      /\ callers'[c].key = callers[c].key /\ callers'[c].restored = callers[c].restored
  BY <1>3, Steps DEF Rows
<1>6. UNCHANGED <<task, attempts, rollbacks, worker>> BY <1>1 DEF record, process
<1>7. Recorded(c)' => Recorded(c) BY <1>3, <1>5, <1>6 DEF Recorded
<1>8. Begun(c) BY <1>1 DEF Begun
<1>9. Restores(c)'
  BY <1>2, <1>3, <1>4, <1>5, <1>6, <1>7, <1>8 DEF Restores
<1>10. TreeHolds'
  BY <1>2, <1>3, <1>4, <1>6 DEF CleanHolds, TreeHolds, Restores, Live, Editing
<1>11. callers'[c].pc \in ReconcileSteps /\ callers'[c].pc # "clean"
  BY <1>3, <1>5 DEF ReconcileSteps
<1> QED BY <1>2, <1>4, <1>6, <1>9, <1>10, <1>11, SoloClean

LEMMA RestoreClean ==
  ASSUME Rows, TreeShape, Ended, CleanHolds, NEW c \in Callers, Turns(c), RestoreBaseline(c)
  PROVE  CleanHolds'
<1>1. UNCHANGED <<task, attempts, worker>> /\ callers[c].pc = "restore"
  BY DEF RestoreBaseline, process, At
<1>2. PICK k : k = callers[c].key OBVIOUS
<1>3. Alone(c) /\ Restores(c) /\ k \in Keys
  BY <1>1, <1>2, Restorer DEF Restoring, ReconcileSteps
<1>4. ASSUME worktree' = [worktree EXCEPT !.dirty = @ /\ callers[c].restored], Goto(c, "rolled"),
             rollbacks' = [rollbacks EXCEPT ![k].restored = TRUE, ![k].state = "succeeded"]
      PROVE  CleanHolds'
  <2>1. worktree'.state = worktree.state /\ (worktree'.dirty => worktree.dirty /\ callers[c].restored)
    BY <1>4 DEF TreeShape
  <2>2. ~worktree'.dirty BY <1>3, <2>1 DEF Restores, Recorded
  <2>3. callers'[c].pc = "rolled" /\ callers'[c].attempt = callers[c].attempt
    BY <1>4, Steps DEF Rows
  <2>4. Begun(c) BY <1>1 DEF Begun
  <2>5. Restores(c)' BY <1>1, <1>3, <2>1, <2>2, <2>3, <2>4 DEF Restores
  <2>6. TreeHolds' BY <1>1, <1>3, <2>1, <2>2 DEF CleanHolds, TreeHolds, Live, Editing
  <2>7. callers'[c].pc \in ReconcileSteps /\ callers'[c].pc # "clean"
    BY <2>3 DEF ReconcileSteps
  <2> QED BY <1>1, <1>3, <2>2, <2>5, <2>6, <2>7, SoloClean
<1>5. ASSUME rollbacks' \in {rollbacks, [rollbacks EXCEPT ![k].state = "failed"]}, Returns(c),
             UNCHANGED worktree
      PROVE  CleanHolds'
  <2>1. \A o \in Keys : /\ rollbacks'[o].attempt = rollbacks[o].attempt
                        /\ rollbacks'[o].restored = rollbacks[o].restored
    BY <1>3, <1>5 DEF TreeShape, RollbackFields
  <2>2. callers'[c].pc = "idle" BY <1>5, Steps DEF Rows
  <2>3. TreeHolds' BY <1>1, <1>5 DEF CleanHolds, TreeHolds, Live, Editing
  <2> QED BY <1>1, <1>3, <1>5, <2>1, <2>2, <2>3, SoloClean DEF Restoring, ReconcileSteps
<1> QED BY <1>2, <1>4, <1>5 DEF RestoreBaseline

LEMMA FinalizeClean ==
  ASSUME Rows, Ended, CleanHolds, NEW c \in Callers, Turns(c), FinalizeRollback(c)
  PROVE  CleanHolds'
<1>1. UNCHANGED <<attempts, rollbacks, worker, worktree>> /\ callers[c].pc = "finalize"
  BY DEF FinalizeRollback, process, At
<1>2. Alone(c) /\ Restores(c) /\ Settled(callers[c].attempt)
  BY <1>1, Restorer DEF Restoring, ReconcileSteps
<1>3. CASE Returns(c) /\ task' = task
  BY <1>1, <1>3, ReturnsClean DEF SameKinds
<1>4. CASE Goto(c, "clean") /\ CanMoveTo("rolled_back")
  <2>1. task'.status = "rolled_back"
    BY <1>4, MovedStatus DEF FinalizeRollback, MovedIfAllowed, Rows
  <2>2. Begun(c) /\ Recorded(c) BY <1>1 DEF Begun, Recorded
  <2>3. task.status \in Under
    BY <1>2, <1>4, <2>2 DEF CanMoveTo, Restores, Past, ALLOWED_TRANSITIONS
  <2>4. worker.pc = "idle" /\ ~worktree.dirty
    BY <1>2, <2>2, <2>3, SettledIdle DEF Restores
  <2>5. TreeHolds' BY <1>1, <2>4 DEF CleanHolds, TreeHolds, Live, Editing
  <2>6. callers'[c].pc = "clean" BY <1>4, Steps DEF Rows
  <2>7. callers'[c].pc \in ReconcileSteps /\ callers'[c].pc \notin Restoring
    BY <2>6 DEF ReconcileSteps, Restoring
  <2> QED BY <1>1, <1>2, <2>1, <2>5, <2>7, SoloClean
<1> QED BY <1>3, <1>4 DEF FinalizeRollback, NextOrReturn, MovedIfAllowed

LEMMA CleanedClean ==
  ASSUME Rows, TreeShape, Ended, CleanHolds, NEW c \in Callers, Turns(c), CleanRolledBack(c)
  PROVE  CleanHolds'
<1>1. UNCHANGED <<task, attempts, worker>> /\ callers[c].pc = "clean" /\ Returns(c)
  BY DEF CleanRolledBack, process, At
<1>2. PICK k : k = callers[c].key OBVIOUS
<1>3. Alone(c) /\ task.status = "rolled_back" /\ k \in Keys
  BY <1>1, <1>2 DEF CleanHolds, RequestsClean, Ended, RequestsEnded, ReconcileSteps
<1>4. CASE UNCHANGED <<worktree, rollbacks>>
  BY <1>1, <1>4, ReturnsClean DEF SameKinds
<1>5. CASE /\ worktree' = [worktree EXCEPT !.state = "cleaned", !.dirty = FALSE]
           /\ rollbacks' = [rollbacks EXCEPT ![k].state = "succeeded", ![k].completed = TRUE]
  <2>1. worktree'.state = "cleaned" /\ worktree'.dirty = FALSE BY <1>5 DEF TreeShape
  <2>2. TreeHolds' BY <1>1, <1>3, <2>1 DEF CleanHolds, TreeHolds, Live, Editing
  <2>3. callers'[c].pc = "idle" BY <1>1, Steps DEF Rows
  <2> QED BY <1>1, <1>3, <2>1, <2>2, <2>3, SoloClean DEF Restoring, ReconcileSteps
<1> QED BY <1>2, <1>4, <1>5 DEF CleanRolledBack

LEMMA SetupInspectedClean ==
  ASSUME Rows, CleanHolds, NEW c \in Callers, Turns(c), InspectFailedRetrySetup(c)
  PROVE  CleanHolds'
<1>1. UNCHANGED <<record, process, worktree>> /\ worktree.state = "cleaned"
  BY DEF InspectFailedRetrySetup
<1>2. UNCHANGED <<task, attempts, rollbacks, worker>> BY <1>1 DEF record, process
<1>3. callers'[c].pc = "reconcile"
  BY DEF InspectFailedRetrySetup, Idle, Rows, RecordShape
<1>4. ~worktree.dirty BY <1>1 DEF CleanHolds, TreeHolds
<1>5. SameKinds BY <1>2 DEF SameKinds
<1>6. callers'[c].pc \notin ReconcileSteps \cup Admitting \cup {"dispatch"}
  BY <1>3 DEF ReconcileSteps, Admitting
<1>7. RequestsClean' BY <1>1, <1>2, <1>5, <1>6, TurnRequests DEF CleanHolds, Turns
<1>8. RestedClean' BY <1>1, <1>2, <1>4, <1>5, RestedKept DEF CleanHolds, Turns
<1>9. TreeHolds' BY <1>1, <1>2 DEF CleanHolds, TreeHolds, Live, Editing
<1> QED BY <1>7, <1>8, <1>9 DEF CleanHolds

LEMMA SetupReconciledClean ==
  ASSUME Rows, Ended, CleanHolds, NEW c \in Callers, Turns(c), ReconcileFailedRetrySetup(c)
  PROVE  CleanHolds'
<1>1. UNCHANGED <<rollbacks, worker, worktree>> /\ callers[c].pc = "reconcile" /\ Returns(c)
  BY DEF ReconcileFailedRetrySetup, process, At
<1>2. CASE UNCHANGED <<task, attempts>>
  BY <1>1, <1>2, ReturnsClean DEF SameKinds
<1>3. CASE /\ task.status = "executing" /\ callers[c].attempt = Len(attempts)
           /\ attempts' = [attempts EXCEPT ![Len(attempts)].reconciled = TRUE]
  <2>1. SameKinds BY <1>3, ReconciledKeeps DEF SameKinds, Rows
  <2>2. ~worktree.dirty BY <1>1, <1>3 DEF CleanHolds, RestedClean, Resting
  <2>3. worker.pc = "idle" BY <1>1, <1>3, SettledIdle DEF Ended, RequestsEnded
  <2>4. ASSUME NEW d \in Callers, callers[d].pc \in ReconcileSteps PROVE FALSE
    <3>1. task.status \in Under \cup Past \cup {"rolled_back"}
      BY <2>4 DEF CleanHolds, RequestsClean, Restores, Restoring
    <3> QED BY <1>3, <3>1 DEF Under, Past
  <2>5. callers'[c].pc = "idle" BY <1>1, Steps DEF Rows
  <2>6. callers'[c].pc \notin ReconcileSteps BY <2>5 DEF ReconcileSteps
  <2> QED BY <1>1, <2>1, <2>2, <2>3, <2>4, <2>6, QuietClean DEF Live, Editing
<1> QED BY <1>2, <1>3 DEF ReconcileFailedRetrySetup, FailedRetrySetup

LEMMA OwnersClean ==
  ASSUME Rows, TreeShape, Runs, Ended, CleanHolds, ~spent'.overlapped,
         NEW c \in Callers, Owners(c)
  PROVE  CleanHolds'
<1>1. Turns(c) BY OthersWait DEF Rows
<1> QED
  BY <1>1, CreateClean, DispatchClean, UndoClean, InspectionClean, MarkClean, AdmissionClean,
     InspectedClean, ResumedClean, StartClean, RequireClean, TreeMovesClean, RestoreClean,
     FinalizeClean, CleanedClean, SetupInspectedClean, SetupReconciledClean
     DEF Owners, Recovery, Retry, Reconciliation

-----------------------------------------------------------------------------
(* The invariant.                                                           *)

LEMMA RestartClean ==
  ASSUME Rows, CleanHolds, ProcessRestarts
  PROVE  CleanHolds'
<1>1. /\ UNCHANGED <<attempts, rollbacks, worktree>> /\ worker'.pc = "idle"
      /\ \A c \in Callers : callers'[c].pc = "idle" /\ task'.status = task.status
  BY DEF ProcessRestarts, Idle, IdleWorker, Rows, RecordShape
<1>2. task'.status = task.status BY DEF ProcessRestarts, Rows, RecordShape
<1>3. TreeHolds' BY <1>1, <1>2 DEF CleanHolds, TreeHolds, Live, Editing
<1>4. RequestsClean' BY <1>1 DEF RequestsClean, Restoring, ReconcileSteps
<1>5. RestedClean'
  BY <1>1 DEF CleanHolds, RestedClean, Resting, DispatchesRetry, Dispatches
<1> QED BY <1>3, <1>4, <1>5 DEF CleanHolds

CleanStays == ~spent.overlapped => CleanHolds

RollbackInvariant == ClaimInvariant /\ TreeShape /\ Runs /\ Ended /\ CleanStays

LEMMA RollbackStep == RollbackInvariant /\ [Next]_vars => RollbackInvariant'
<1> SUFFICES ASSUME RollbackInvariant, [Next]_vars PROVE RollbackInvariant'
  OBVIOUS
<1>1. ClaimInvariant' BY ClaimStep DEF RollbackInvariant
<1>2. Rows /\ Rows' BY <1>1 DEF RollbackInvariant, ClaimInvariant
<1>3. TreeShape' BY <1>2, TreeStep DEF RollbackInvariant, Rows
<1>4. Runs' BY <1>2, RunsStep DEF RollbackInvariant
<1>5. Ended' BY <1>2, EndedStep DEF RollbackInvariant
<1>6. ASSUME ~spent'.overlapped PROVE CleanHolds'
  <2>1. CleanHolds BY <1>2, <1>6, OverlapStays DEF RollbackInvariant, CleanStays, Rows
  <2>2. CASE Bystands BY <2>1, <2>2, BystandsClean
  <2>3. ASSUME NEW c \in Callers, Owners(c) PROVE CleanHolds'
    BY <1>2, <1>6, <2>1, <2>3, OwnersClean DEF RollbackInvariant
  <2>4. CASE Worker BY <1>2, <2>1, <2>4, WorkerClean DEF RollbackInvariant
  <2>5. CASE ProcessRestarts BY <1>2, <2>1, <2>5, RestartClean
  <2> QED BY <1>2, <2>2, <2>3, <2>4, <2>5, Bystanders DEF Rows
<1> QED BY <1>1, <1>3, <1>4, <1>5, <1>6 DEF RollbackInvariant, CleanStays

LEMMA RollbackInit == Init => RollbackInvariant
<1> SUFFICES ASSUME Init PROVE RollbackInvariant
  OBVIOUS
<1>1. ClaimInvariant BY ClaimInit
<1>2. /\ attempts = << >> /\ jobs = << >> /\ DOMAIN attempts = {} /\ DOMAIN jobs = {}
      /\ \A c \in Callers : callers[c].pc = "idle" /\ callers[c].attempt = 0
  BY DEF Init, Idle
<1>3. /\ worktree = [state |-> "none", dirty |-> FALSE, plan |-> None] /\ worker.pc = "idle"
      /\ rollbacks = [k \in Keys |-> NoRollback] /\ task.status = "created"
  BY DEF Init, IdleWorker
<1>4. TreeShape BY <1>3 DEF TreeShape, RollbackFields, NoRollback
<1>5. \A c \in Callers : ~Dispatches(c) BY <1>2 DEF Dispatches
<1>6. Runs BY <1>2, <1>5 DEF Runs, FuturesInOrder, DispatchOwns
<1>7. \A k \in Keys : rollbacks[k].attempt = 0 /\ rollbacks[k].restored = FALSE
  BY <1>3 DEF NoRollback
<1>8. Ended
  BY <1>2, <1>5, <1>7 DEF Ended, AttemptsEnded, RollbacksEnded, RequestsEnded, Restoring,
     ReconcileSteps, DispatchesRetry
<1>9. CleanHolds
  <2>1. TreeHolds BY <1>3 DEF TreeHolds, Live, Editing
  <2>2. RequestsClean BY <1>2 DEF RequestsClean, Restoring, ReconcileSteps
  <2>3. RestedClean BY <1>3 DEF RestedClean
  <2> QED BY <2>1, <2>2, <2>3 DEF CleanHolds
<1> QED BY <1>1, <1>4, <1>6, <1>8, <1>9 DEF RollbackInvariant, CleanStays

(* PersistExecution, _finalize_execution_history, the owner's rollback and  *)
(* the undone dispatch each write ROLLED_BACK under conditions of their     *)
(* own: whichever of them did, and however the worker, the crashes and the  *)
(* owner's requests fell together, the worktree of a rolled-back task holds *)
(* none of its edits, as long as no reconciliation was overlapped.          *)
THEOREM RolledBackHasNoEdits == Spec => []RolledBackIsRestored
<1>1. RollbackInvariant => RolledBackIsRestored
  BY DEF RollbackInvariant, CleanStays, CleanHolds, TreeHolds, RolledBackIsRestored
<1> QED BY <1>1, RollbackInit, RollbackStep, PTL DEF Spec

(* begin_rolled_back_retry inspects long before its transaction: still, a   *)
(* retry is admitted only when no future of the task is left and, unless a  *)
(* reconciliation was overlapped, no edit of an earlier attempt is.         *)
THEOREM RetriesStartRestored == Spec => RetryStartsFromRollback
<1> DEFINE A == Len(attempts') > Len(attempts) /\ attempts'[Len(attempts')].kind = "retry" =>
                  jobs = <<>> /\ (worktree.dirty => spent.overlapped)
<1>1. ASSUME RollbackInvariant, [Next]_vars PROVE A
  <2> SUFFICES ASSUME Len(attempts') > Len(attempts), attempts'[Len(attempts')].kind = "retry"
               PROVE  jobs = <<>> /\ (worktree.dirty => spent.overlapped)
    OBVIOUS
  <2>1. Rows BY <1>1 DEF RollbackInvariant, ClaimInvariant
  <2>2. Len(attempts) \in Nat BY <2>1, SeqIndices DEF Rows, AttemptRows
  <2>3. PICK c \in Callers :
          /\ RowAdded
          /\ CreateAttempt(c) \/ BeginRecoveryAttempt(c) \/ BeginRolledBackRetry(c)
    BY <1>1, <2>1, <2>2, AttemptRowsStep DEF RowsKept
  <2>4. ~UNCHANGED attempts BY <2>2
  <2>5. ASSUME NEW kind, NEW p, NEW k, Admitted(kind, p, k) PROVE kind = "retry"
    BY <2>1, <2>3, <2>5, AdmittedAdds DEF Rows, RowAdded
  <2>6. PICK p, k : p = callers[c].plan /\ k = callers[c].key OBVIOUS
  <2>7. BeginRolledBackRetry(c)
    <3>1. CreateAttempt(c) => Admitted("initial", p, None) BY <2>4, <2>6 DEF CreateAttempt
    <3>2. BeginRecoveryAttempt(c) => Admitted("recovery", p, k)
      BY <2>4, <2>6 DEF BeginRecoveryAttempt
    <3>3. ~CreateAttempt(c) BY <2>5, <3>1
    <3>4. ~BeginRecoveryAttempt(c) BY <2>5, <3>2
    <3> QED BY <2>3, <3>3, <3>4
  <2>8. jobs = << >> BY <1>1, <2>1, <2>4, <2>7, RetryEvidence DEF RollbackInvariant
  <2>9. task.status = "rolled_back" BY <2>4, <2>7 DEF BeginRolledBackRetry
  <2>10. worktree.dirty => spent.overlapped
    BY <1>1, <2>9 DEF RollbackInvariant, CleanStays, CleanHolds, TreeHolds
  <2> QED BY <2>8, <2>10
<1>2. RollbackInvariant /\ [Next]_vars => [A]_vars BY <1>1
<1> QED BY <1>2, RollbackInit, RollbackStep, PTL DEF Spec, RetryStartsFromRollback
=============================================================================
