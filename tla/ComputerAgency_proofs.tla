-------------------- MODULE ComputerAgency_proofs --------------------
(***************************************************************************)
(* Theorems about the ledger and the processes that share it, for every    *)
(* value of the constants.                                                 *)
(***************************************************************************)
EXTENDS ComputerAgency, FiniteSetTheorems, SequenceTheorems, WellFoundedInduction, TLAPS

-----------------------------------------------------------------------------
(* Rows and sequences of rows.                                             *)

LEMMA RowUpdate ==
  ASSUME NEW R, NEW S, NEW f \in [S -> Seq(R)], NEW t \in S,
         NEW i \in DOMAIN f[t], NEW r \in R
  PROVE  [f EXCEPT ![t][i] = r] \in [S -> Seq(R)]
<1>1. f[t] \in Seq(R) OBVIOUS
<1>2. [f[t] EXCEPT ![i] = r] \in Seq(R)
  BY <1>1, ExceptSeq
<1> QED BY <1>2

LEMMA RowAppend ==
  ASSUME NEW R, NEW S, NEW f \in [S -> Seq(R)], NEW t \in S, NEW r \in R
  PROVE  [f EXCEPT ![t] = Append(@, r)] \in [S -> Seq(R)]
OBVIOUS

LEMMA RewriteType ==
  ASSUME NEW t \in Tasks, actions \in [Tasks -> Seq(ActionRow)],
         NEW old, NEW new \in ActionStates
  PROVE  Rewrite(t, old, new) \in Seq(ActionRow)
<1>1. PICK n \in Nat : actions[t] \in [1..n -> ActionRow] OBVIOUS
<1>2. Rewrite(t, old, new) \in [1..n -> ActionRow]
  BY <1>1 DEF Rewrite, ActionRow
<1> QED BY <1>2

LEMMA CloseType ==
  ASSUME NEW t \in Tasks, clars \in [Tasks -> Seq(ClarRow)], NEW old,
         NEW new \in {"answered", "superseded", "cancelled", "expired"}
  PROVE  Close(t, old, new) \in Seq(ClarRow)
<1>1. PICK n \in Nat : clars[t] \in [1..n -> ClarRow] OBVIOUS
<1>2. Close(t, old, new) \in [1..n -> ClarRow]
  BY <1>1 DEF Close, ClarRow
<1> QED BY <1>2

LEMMA RowState ==
  ASSUME TypeOK, NEW t \in Tasks, NEW i \in DOMAIN actions[t], NEW s \in ActionStates
  PROVE  [actions EXCEPT ![t][i].state = s] \in [Tasks -> Seq(ActionRow)]
<1>1. actions[t][i] \in ActionRow BY DEF TypeOK
<1>2. [actions[t][i] EXCEPT !.state = s] \in ActionRow BY <1>1 DEF ActionRow
<1> QED BY <1>2, RowUpdate DEF TypeOK

-----------------------------------------------------------------------------
(* Type correctness, operation by operation.                               *)

LEMMA ActionStepType ==
  ASSUME TypeOK, NEW t \in Tasks, ActionStep(t), LedgerAssumption
  PROVE  TypeOK'
<1>1. ASSUME NEW spec \in ActionSpecs, RecordStaleAttempt(t, spec) \/ Prepare(t, spec)
      PROVE  TypeOK'
  <2>1. NewRow(spec, "stale", TRUE) \in ActionRow /\ NewRow(spec, "prepared", FALSE) \in ActionRow
    BY LedgerAssumption DEF LedgerAssumption, NewRow, ActionRow, ActionStates, Verifications
  <2>2. actions' \in [Tasks -> Seq(ActionRow)]
    <3>1. \A row \in ActionRow : [actions EXCEPT ![t] = Append(@, row)] \in [Tasks -> Seq(ActionRow)]
      BY RowAppend DEF TypeOK
    <3> QED BY <1>1, <2>1, <3>1 DEF RecordStaleAttempt, Prepare
  <2> QED BY <1>1, <2>2 DEF RecordStaleAttempt, Prepare, TypeOK
<1>2. ASSUME NEW i \in DOMAIN actions[t], NEW b \in BOOLEAN, Claim(t, i, b)
      PROVE  TypeOK'
  <2> DEFINE s == IF b THEN "stale" ELSE "in_flight"
  <2>0. s \in ActionStates BY DEF ActionStates
  <2>1. actions' \in [Tasks -> Seq(ActionRow)]
    <3> HIDE DEF s
    <3>1. [actions EXCEPT ![t][i].state = s] \in [Tasks -> Seq(ActionRow)] BY <2>0, RowState
    <3> QED BY <1>2, <3>1 DEF Claim, s
  <2>2. tasks' \in [Tasks -> TaskRow]
    <3>1. tasks[t] \in TaskRow BY DEF TypeOK
    <3>2. [tasks[t] EXCEPT !.count = IF b THEN @ ELSE @ + 1] \in TaskRow BY <3>1 DEF TaskRow
    <3> QED BY <1>2, <3>2 DEF Claim, TypeOK
  <2> QED BY <1>2, <2>1, <2>2 DEF Claim, TypeOK
<1>3. ASSUME NEW i \in DOMAIN actions[t], NEW b \in BOOLEAN, Reconcile(t, i, b)
      PROVE  TypeOK'
  BY <1>3, RowState DEF Reconcile, ActionStates, TypeOK
<1>4. ASSUME NEW i \in DOMAIN actions[t], NEW b \in BOOLEAN, ResumeNativePlan(t, i, b)
      PROVE  TypeOK'
  <2>1. actions[t][i] \in ActionRow BY DEF TypeOK
  <2>2. (IF actions[t][i].state = "in_doubt" THEN "not_executed" ELSE actions[t][i].state)
          \in ActionStates
    BY <2>1 DEF ActionRow, ActionStates
  <2>3. actions' \in [Tasks -> Seq(ActionRow)]
    BY <1>4, <2>2, RowState DEF ResumeNativePlan
  <2>4. tasks' \in [Tasks -> TaskRow]
    BY <1>4 DEF ResumeNativePlan, TypeOK, TaskRow, TaskStates
  <2> QED BY <1>4, <2>3, <2>4 DEF ResumeNativePlan, TypeOK
<1>5. ASSUME NEW i \in DOMAIN actions[t], MarkExecutionStarted(t, i)
      PROVE  TypeOK'
  <2>0. actions[t][i] \in ActionRow BY DEF TypeOK
  <2>1. [actions[t][i] EXCEPT !.started = TRUE] \in ActionRow BY <2>0 DEF ActionRow
  <2> QED BY <1>5, <2>1, RowUpdate DEF MarkExecutionStarted, TypeOK
<1>6. ASSUME NEW i \in DOMAIN actions[t], NEW ok \in BOOLEAN, NEW v \in Verifications,
             Finish(t, i, ok, v)
      PROVE  TypeOK'
  <2> DEFINE row == [actions[t][i] EXCEPT !.state = IF ok THEN "verified" ELSE "failed",
                                          !.verification = v]
  <2>0. actions[t][i] \in ActionRow BY DEF TypeOK
  <2>1. row \in ActionRow BY <2>0 DEF ActionRow, ActionStates
  <2>2. actions' = [actions EXCEPT ![t][i] = row] BY <1>6 DEF Finish, TypeOK
  <2> HIDE DEF row
  <2>3. actions' \in [Tasks -> Seq(ActionRow)] BY <2>1, <2>2, RowUpdate DEF TypeOK
  <2> QED BY <1>6, <2>3 DEF Finish, TypeOK
<1>7. ASSUME NEW i \in DOMAIN actions[t], MarkInDoubt(t, i)
      PROVE  TypeOK'
  <2>1. actions' \in [Tasks -> Seq(ActionRow)]
    BY <1>7, RowState DEF MarkInDoubt, ActionStates
  <2>2. tasks' \in [Tasks -> TaskRow]
    BY ZenonT(40), <1>7 DEF MarkInDoubt, RequireRecovery, TypeOK, TaskRow, TaskStates
  <2> QED BY <1>7, <2>1, <2>2 DEF MarkInDoubt, TypeOK
<1>8. ASSUME NEW b \in BOOLEAN, Complete(t, b)
      PROVE  TypeOK'
  <2>1. Rewrite(t, "prepared", "cancelled") \in Seq(ActionRow)
    BY RewriteType DEF TypeOK, ActionStates
  <2> QED BY ZenonT(40), <1>8, <2>1 DEF Complete, TypeOK, TaskRow, TaskStates
<1> QED
  BY <1>1, <1>2, <1>3, <1>4, <1>5, <1>6, <1>7, <1>8 DEF ActionStep, Verifications

LEMMA ClarificationStepType ==
  ASSUME TypeOK, NEW t \in Tasks, ClarificationStep(t)
  PROVE  TypeOK'
<1>1. ASSUME AwaitClarification(t)
      PROVE  TypeOK'
  <2> DEFINE new == [status |-> "awaiting_answer", delivery |-> "pending", lapsed |-> FALSE]
  <2>1. Close(t, "awaiting_answer", "superseded") \in Seq(ClarRow) BY CloseType DEF TypeOK
  <2>2. new \in ClarRow BY DEF ClarRow
  <2>3. Append(Close(t, "awaiting_answer", "superseded"), new) \in Seq(ClarRow)
    BY <2>1, <2>2
  <2>4. clars' \in [Tasks -> Seq(ClarRow)] BY <1>1, <2>3 DEF AwaitClarification, TypeOK
  <2> QED BY <1>1, <2>4 DEF AwaitClarification, TypeOK, TaskRow, TaskStates
<1>2. ASSUME CancelClarification(t)
      PROVE  TypeOK'
  <2>1. Close(t, "awaiting_answer", "cancelled") \in Seq(ClarRow) BY CloseType DEF TypeOK
  <2> QED BY <1>2, <2>1 DEF CancelClarification, Withdraw, TypeOK, TaskRow, TaskStates
<1>3. ASSUME NEW k \in DOMAIN clars[t], NEW b \in BOOLEAN, RecordClarificationDelivery(t, k, b)
      PROVE  TypeOK'
  <2> DEFINE row == [clars[t][k] EXCEPT !.delivery = IF b THEN "played" ELSE "failed"]
  <2>1. clars[t][k] \in ClarRow BY DEF TypeOK
  <2>2. row \in ClarRow BY <2>1 DEF ClarRow
  <2>3. clars' = [clars EXCEPT ![t][k] = row] BY <1>3 DEF RecordClarificationDelivery, TypeOK
  <2> HIDE DEF row
  <2>4. clars' \in [Tasks -> Seq(ClarRow)] BY <2>2, <2>3, RowUpdate DEF TypeOK
  <2> QED BY <1>3, <2>4 DEF RecordClarificationDelivery, TypeOK
<1>4. ASSUME NEW k \in DOMAIN clars[t], ClarificationLapses(t, k)
      PROVE  TypeOK'
  <2> DEFINE row == [clars[t][k] EXCEPT !.lapsed = TRUE]
  <2>1. clars[t][k] \in ClarRow BY DEF TypeOK
  <2>2. row \in ClarRow BY <2>1 DEF ClarRow
  <2>3. clars' = [clars EXCEPT ![t][k] = row] BY <1>4 DEF ClarificationLapses, TypeOK
  <2> HIDE DEF row
  <2>4. clars' \in [Tasks -> Seq(ClarRow)] BY <2>2, <2>3, RowUpdate DEF TypeOK
  <2> QED BY <1>4, <2>4 DEF ClarificationLapses, TypeOK
<1> QED BY <1>1, <1>2, <1>3, <1>4 DEF ClarificationStep

\* The caller of a call in progress works on a task.
CallsNameTasks ==
  \A c \in Callers :
    /\ calls[c].pc \notin {"idle", "finalize_stop", "stopped"} => calls[c].task \in Tasks
    /\ calls[c].pc = "expire_lapsed" => calls[c].clar \in DOMAIN clars[calls[c].task]

LEMMA OverType ==
  ASSUME TypeOK, NEW c \in Callers, Over(c)
  PROVE  calls' \in [Callers -> Call]
<1>1. calls[c] \in Call BY DEF TypeOK
<1>2. CASE calls' = [calls EXCEPT ![c] = IF calls[c].stop = {} THEN IdleCall
                       ELSE [IdleCall EXCEPT !.pc = "stopped", !.stop = calls[c].stop]]
  BY <1>1, <1>2 DEF TypeOK, Call, IdleCall, Pcs
<1>3. ASSUME NEW t \in calls[c].targets,
             calls' = [calls EXCEPT ![c] = [IdleCall EXCEPT
                         !.pc = "read", !.task = t, !.then = "cancel",
                         !.targets = calls[c].targets \ {t}, !.stop = calls[c].stop]]
      PROVE  calls' \in [Callers -> Call]
  <2>1. t \in Tasks BY <1>1 DEF Call
  <2>2. [IdleCall EXCEPT !.pc = "read", !.task = t, !.then = "cancel",
           !.targets = calls[c].targets \ {t}, !.stop = calls[c].stop] \in Call
    BY <1>1, <2>1 DEF Call, IdleCall, Pcs
  <2> QED BY <1>3, <2>2 DEF TypeOK
<1> QED BY <1>2, <1>3 DEF Over

LEMMA PcType ==
  ASSUME TypeOK, NEW c \in Callers, NEW pc \in Pcs
  PROVE  [calls EXCEPT ![c].pc = pc] \in [Callers -> Call]
BY DEF TypeOK, Call

LEMMA ReturnedType ==
  ASSUME TypeOK, NEW c \in Callers, NEW s, Returned(c, s)
  PROVE  calls' \in [Callers -> Call]
<1>1. CASE calls[c].then = "return"
  BY <1>1, OverType DEF Returned
<1>2. CASE calls[c].then # "return"
  <2> DEFINE pc == IF s = "awaiting_clarification" THEN "cancel_clarification"
                   ELSE "request_cancel"
  <2>1. pc \in Pcs BY DEF Pcs
  <2>2. calls' = [calls EXCEPT ![c].pc = pc] BY <1>2 DEF Returned
  <2> HIDE DEF pc
  <2> QED BY <2>1, <2>2, PcType
<1> QED BY <1>1, <1>2

LEMMA CallAtType ==
  ASSUME TypeOK, NEW c \in Callers, NEW call \in Call
  PROVE  [calls EXCEPT ![c] = call] \in [Callers -> Call]
BY DEF TypeOK

LEMMA CallStepType ==
  ASSUME TypeOK, CallsNameTasks, NEW c \in Callers, CallStep(c)
  PROVE  TypeOK'
<1>0. calls[c] \in Call BY DEF TypeOK
<1>1. ASSUME NEW t \in Tasks, CallTask(c, t)
      PROVE  TypeOK'
  BY <1>1 DEF CallTask, ReturnTask, TypeOK, Call, IdleCall, Pcs
<1>2. ASSUME NEW t \in Tasks, Cancel(c, t)
      PROVE  TypeOK'
  BY <1>2 DEF Cancel, TypeOK, Call, IdleCall, Pcs
<1>3. ASSUME NEW t \in Tasks, NEW k \in DOMAIN clars[t], ResumeClarification(c, t, k)
      PROVE  TypeOK'
  <2> DEFINE row == [clars[t][k] EXCEPT !.status = "answered"]
  <2>1. clars[t][k] \in ClarRow BY DEF TypeOK
  <2>2. row \in ClarRow BY <2>1 DEF ClarRow
  <2>3. clars' = [clars EXCEPT ![t][k] = row] BY <1>3 DEF ResumeClarification, TypeOK
  <2> HIDE DEF row
  <2>4. clars' \in [Tasks -> Seq(ClarRow)] BY <2>2, <2>3, RowUpdate DEF TypeOK
  <2>5. calls' \in [Callers -> Call]
    BY <1>3 DEF ResumeClarification, ReturnTask, TypeOK, Call, IdleCall, Pcs
  <2>6. tasks' \in [Tasks -> TaskRow]
    BY <1>3 DEF ResumeClarification, TypeOK, TaskRow, TaskStates
  <2> QED BY <1>3, <2>4, <2>5, <2>6 DEF ResumeClarification, TypeOK
<1>4. ASSUME ReadTask(c)
      PROVE  TypeOK'
  <2>1. calls' \in [Callers -> Call]
    <3>1. \A pc \in Pcs : [calls EXCEPT ![c].pc = pc] \in [Callers -> Call] BY PcType
    <3>2. {"expire", "read_clarification"} \subseteq Pcs BY DEF Pcs
    <3> QED BY <1>4, <3>1, <3>2, ReturnedType DEF ReadTask
  <2> QED BY <1>4, <2>1 DEF ReadTask, TypeOK
<1>5. ASSUME ExpireTask(c)
      PROVE  TypeOK'
  <2>1. calls' \in [Callers -> Call] BY <1>5, ReturnedType DEF ExpireTask
  <2>2. calls[c].task \in Tasks BY <1>5 DEF ExpireTask, CallsNameTasks
  <2>3. Rewrite(calls[c].task, "prepared", "expired") \in Seq(ActionRow)
    BY <2>2, RewriteType DEF TypeOK, ActionStates
  <2>4. tasks' \in [Tasks -> TaskRow] BY <1>5, <2>2 DEF ExpireTask, TypeOK, TaskRow, TaskStates
  <2>5. actions' \in [Tasks -> Seq(ActionRow)] BY <1>5, <2>3 DEF ExpireTask, TypeOK
  <2> QED BY <1>5, <2>1, <2>4, <2>5 DEF ExpireTask, TypeOK
<1>6. ASSUME ReadClarification(c)
      PROVE  TypeOK'
  <2>1. CASE calls' = [calls EXCEPT ![c].pc = "expire_unanswered"]
    BY <1>6, <2>1, PcType DEF ReadClarification, TypeOK, Pcs
  <2>2. ASSUME NEW k \in DOMAIN clars[calls[c].task],
               calls' = [calls EXCEPT ![c].pc = "expire_lapsed", ![c].clar = k]
        PROVE  TypeOK'
    <3>1. calls[c].task \in Tasks BY <1>6 DEF ReadClarification, CallsNameTasks
    <3>2. k \in Nat BY <3>1 DEF TypeOK
    <3>3. [calls[c] EXCEPT !.pc = "expire_lapsed", !.clar = k] \in Call
      BY <1>0, <3>2 DEF Call, Pcs
    <3>4. calls' = [calls EXCEPT ![c] = [calls[c] EXCEPT !.pc = "expire_lapsed", !.clar = k]]
      BY <2>2 DEF TypeOK
    <3> QED BY <1>6, <3>3, <3>4, CallAtType DEF ReadClarification, TypeOK
  <2>3. CASE Returned(c, "awaiting_clarification")
    BY <1>6, <2>3, ReturnedType DEF ReadClarification, TypeOK
  <2> QED BY <1>6, <2>1, <2>2, <2>3 DEF ReadClarification
<1>7. ASSUME ExpireClarification(c)
      PROVE  TypeOK'
  <2> DEFINE t == calls[c].task
  <2>1. calls' \in [Callers -> Call] BY <1>7, ReturnedType DEF ExpireClarification
  <2>2. t \in Tasks BY <1>7 DEF ExpireClarification, CallsNameTasks
  <2>3. tasks' \in [Tasks -> TaskRow]
    BY ZenonT(40), <1>7, <2>2 DEF ExpireClarification, TypeOK, TaskRow, TaskStates
  <2>4. clars' \in [Tasks -> Seq(ClarRow)]
    <3>1. CASE calls[c].pc = "expire_lapsed"
      <4> DEFINE k == calls[c].clar
                 row == [clars[t][k] EXCEPT !.status = "expired"]
      <4>1. k \in DOMAIN clars[t] BY <3>1 DEF CallsNameTasks
      <4>2. clars[t][k] \in ClarRow BY <2>2, <4>1 DEF TypeOK
      <4>3. row \in ClarRow BY <4>2 DEF ClarRow
      <4>4. clars' = [clars EXCEPT ![t][k] = row]
        BY <1>7, <2>2, <3>1 DEF ExpireClarification, TypeOK
      <4> HIDE DEF row, t, k
      <4> QED BY <2>2, <4>1, <4>3, <4>4, RowUpdate DEF TypeOK
    <3>2. CASE calls[c].pc # "expire_lapsed"
      BY <1>7, <3>2 DEF ExpireClarification, TypeOK
    <3> QED BY <3>1, <3>2
  <2> QED BY <1>7, <2>1, <2>3, <2>4 DEF ExpireClarification, TypeOK
<1>8. ASSUME WithdrawInCancel(c)
      PROVE  TypeOK'
  <2> DEFINE t == calls[c].task
  <2>1. calls' \in [Callers -> Call] BY <1>8, OverType DEF WithdrawInCancel
  <2>2. t \in Tasks BY <1>8 DEF WithdrawInCancel, CallsNameTasks
  <2>3. CASE Withdraw(t)
    <3>1. Close(t, "awaiting_answer", "cancelled") \in Seq(ClarRow) BY <2>2, CloseType DEF TypeOK
    <3> QED BY ZenonT(40), <2>1, <2>2, <2>3, <3>1 DEF Withdraw, TypeOK, TaskRow, TaskStates
  <2> QED BY <1>8, <2>1, <2>3 DEF WithdrawInCancel, TypeOK
<1>9. ASSUME RequestCancel(c)
      PROVE  TypeOK'
  <2> DEFINE t == calls[c].task
  <2>1. t \in Tasks BY <1>9 DEF RequestCancel, CallsNameTasks
  <2>2. CASE t \in Tasks /\ tasks' = [tasks EXCEPT ![t].cancel = TRUE]
             /\ calls' = [calls EXCEPT ![c].pc = "finalize_cancel"]
    <3>1. calls' \in [Callers -> Call] BY <2>2, PcType DEF Pcs
    <3>2. tasks' \in [Tasks -> TaskRow] BY <2>2 DEF TypeOK, TaskRow
    <3> QED BY <1>9, <3>1, <3>2 DEF RequestCancel, TypeOK
  <2>3. CASE Over(c) /\ UNCHANGED tasks
    <3>1. calls' \in [Callers -> Call] BY <2>3, OverType
    <3> QED BY <1>9, <2>3, <3>1 DEF RequestCancel, TypeOK
  <2> QED BY <1>9, <2>1, <2>2, <2>3 DEF RequestCancel
<1>10. ASSUME FinalizeCancel(c)
       PROVE  TypeOK'
  <2> DEFINE t == calls[c].task
  <2>1. t \in Tasks BY <1>10 DEF FinalizeCancel, CallsNameTasks
  <2>2. calls' \in [Callers -> Call] BY <1>10, OverType DEF FinalizeCancel
  <2>3. Rewrite(t, "prepared", "cancelled") \in Seq(ActionRow)
    BY <2>1, RewriteType DEF TypeOK, ActionStates
  <2>4. CASE tasks[t].state \in {"active", "recovery_required"}
    <3>1. /\ tasks' = [tasks EXCEPT ![t].state = "cancelled"]
          /\ actions' = [actions EXCEPT ![t] = Rewrite(t, "prepared", "cancelled")]
          /\ UNCHANGED clars
      BY <1>10, <2>4 DEF FinalizeCancel
    <3> QED BY <2>1, <2>2, <2>3, <3>1 DEF TypeOK, TaskRow, TaskStates
  <2>5. CASE tasks[t].state \notin {"active", "recovery_required"}
    <3>1. UNCHANGED <<tasks, actions, clars>> BY <1>10, <2>5 DEF FinalizeCancel
    <3> QED BY <2>2, <3>1 DEF TypeOK
  <2> QED BY <2>4, <2>5
<1>11. PendingTasks \subseteq Tasks BY DEF PendingTasks
<1>12. ASSUME StopAll(c)
       PROVE  TypeOK'
  <2>1. PICK t \in PendingTasks : calls' = [calls EXCEPT ![c] = [IdleCall EXCEPT
                 !.pc = "read", !.task = t, !.then = "cancel",
                 !.targets = PendingTasks \ {t}, !.stop = PendingTasks]]
    BY <1>12 DEF StopAll
  <2>2. [IdleCall EXCEPT !.pc = "read", !.task = t, !.then = "cancel",
           !.targets = PendingTasks \ {t}, !.stop = PendingTasks] \in Call
    BY <1>11 DEF IdleCall, Call, Pcs
  <2>3. calls' \in [Callers -> Call] BY <2>1, <2>2, CallAtType
  <2>4. tasks' \in [Tasks -> TaskRow] BY <1>12 DEF StopAll, RequestAll, TypeOK, TaskRow
  <2> QED BY <1>12, <2>3, <2>4 DEF StopAll, TypeOK
<1>13. ASSUME CancelActiveTasks(c)
       PROVE  TypeOK'
  <2>1. [IdleCall EXCEPT !.pc = "finalize_stop", !.stop = PendingTasks] \in Call
    BY <1>11 DEF IdleCall, Call, Pcs
  <2>2. calls' \in [Callers -> Call] BY <1>13, <2>1, CallAtType DEF CancelActiveTasks
  <2>3. tasks' \in [Tasks -> TaskRow] BY <1>13 DEF CancelActiveTasks, RequestAll, TypeOK, TaskRow
  <2> QED BY <1>13, <2>2, <2>3 DEF CancelActiveTasks, TypeOK
<1>14. ASSUME FinalizeStop(c)
       PROVE  TypeOK'
  <2>1. calls' \in [Callers -> Call] BY <1>14, PcType DEF FinalizeStop, Pcs
  <2>2. tasks' \in [Tasks -> TaskRow] BY <1>14 DEF FinalizeStop, TypeOK, TaskRow, TaskStates
  <2>3. \A t \in Tasks : /\ Rewrite(t, "prepared", "cancelled") \in Seq(ActionRow)
                         /\ Close(t, "awaiting_answer", "cancelled") \in Seq(ClarRow)
    BY RewriteType, CloseType DEF TypeOK, ActionStates
  <2>4. actions' \in [Tasks -> Seq(ActionRow)] BY <1>14, <2>3 DEF FinalizeStop, TypeOK
  <2>5. clars' \in [Tasks -> Seq(ClarRow)] BY <1>14, <2>3 DEF FinalizeStop, TypeOK
  <2> QED BY <2>1, <2>2, <2>4, <2>5 DEF TypeOK
<1>15. ASSUME StopReturns(c)
       PROVE  TypeOK'
  BY <1>15 DEF StopReturns, TypeOK, IdleCall, Call, Pcs
<1> QED
  BY <1>1, <1>2, <1>3, <1>4, <1>5, <1>6, <1>7, <1>8, <1>9, <1>10, <1>12, <1>13, <1>14, <1>15
  DEF CallStep

LEMMA OverNamesTask ==
  ASSUME TypeOK, CallsNameTasks, NEW c \in Callers, Over(c),
         \A t \in Tasks : DOMAIN clars[t] \subseteq DOMAIN clars'[t]
  PROVE  CallsNameTasks'
<1>1. ASSUME calls' = [calls EXCEPT ![c] = IF calls[c].stop = {} THEN IdleCall
                       ELSE [IdleCall EXCEPT !.pc = "stopped", !.stop = calls[c].stop]]
      PROVE  CallsNameTasks'
  BY <1>1 DEF TypeOK, CallsNameTasks, IdleCall
<1>2. ASSUME NEW t \in calls[c].targets,
             calls' = [calls EXCEPT ![c] = [IdleCall EXCEPT
                         !.pc = "read", !.task = t, !.then = "cancel",
                         !.targets = calls[c].targets \ {t}, !.stop = calls[c].stop]]
      PROVE  CallsNameTasks'
  <2>1. t \in Tasks BY DEF TypeOK, Call
  <2> QED BY <1>2, <2>1 DEF TypeOK, CallsNameTasks, IdleCall
<1> QED BY <1>1, <1>2 DEF Over

\* A step of one call that leaves its task and adds no clarification number.
LEMMA PcNamesTask ==
  ASSUME TypeOK, CallsNameTasks, NEW c \in Callers, NEW pc \in Pcs \ {"expire_lapsed"},
         calls' = [calls EXCEPT ![c].pc = pc],
         calls[c].task \in Tasks \/ pc \in {"idle", "finalize_stop", "stopped"},
         \A t \in Tasks : DOMAIN clars[t] \subseteq DOMAIN clars'[t]
  PROVE  CallsNameTasks'
BY DEF TypeOK, CallsNameTasks, Pcs

LEMMA ReturnedNamesTask ==
  ASSUME TypeOK, CallsNameTasks, NEW c \in Callers, NEW s, Returned(c, s),
         calls[c].task \in Tasks,
         \A t \in Tasks : DOMAIN clars[t] \subseteq DOMAIN clars'[t]
  PROVE  CallsNameTasks'
<1>1. CASE calls[c].then = "return" BY <1>1, OverNamesTask DEF Returned
<1>2. CASE calls[c].then # "return"
  <2> DEFINE pc == IF s = "awaiting_clarification" THEN "cancel_clarification"
                   ELSE "request_cancel"
  <2>1. pc \in Pcs \ {"expire_lapsed"} BY DEF Pcs
  <2>2. calls' = [calls EXCEPT ![c].pc = pc] BY <1>2 DEF Returned
  <2> HIDE DEF pc
  <2> QED BY <2>1, <2>2, PcNamesTask
<1> QED BY <1>1, <1>2

\* A call that starts over with a task, or with none.
LEMMA CallNamesTask ==
  ASSUME TypeOK, CallsNameTasks, NEW c \in Callers, NEW call \in Call,
         calls' = [calls EXCEPT ![c] = call],
         call.task \in Tasks \/ call.pc \in {"idle", "finalize_stop", "stopped"},
         call.pc # "expire_lapsed",
         \A t \in Tasks : DOMAIN clars[t] \subseteq DOMAIN clars'[t]
  PROVE  CallsNameTasks'
BY DEF TypeOK, CallsNameTasks

LEMMA CallStepNamesTasks ==
  ASSUME TypeOK, CallsNameTasks, NEW c \in Callers, CallStep(c)
  PROVE  CallsNameTasks'
<1>0. calls[c] \in Call BY DEF TypeOK
<1>1. \A t \in Tasks : [IdleCall EXCEPT !.pc = "read", !.task = t] \in Call
  BY DEF IdleCall, Call, Pcs
<1>2. \A t \in Tasks : [IdleCall EXCEPT !.pc = "read", !.task = t, !.then = "cancel"] \in Call
  BY DEF IdleCall, Call, Pcs
<1>3. ASSUME NEW t \in Tasks, CallTask(c, t) \/ Cancel(c, t)
      PROVE  CallsNameTasks'
  <2>1. UNCHANGED clars BY <1>3 DEF CallTask, Cancel
  <2>2. CASE CallTask(c, t)
    BY <1>1, <2>1, <2>2, CallNamesTask DEF CallTask, ReturnTask, IdleCall
  <2>3. CASE Cancel(c, t)
    BY <1>2, <2>1, <2>3, CallNamesTask DEF Cancel, IdleCall
  <2> QED BY <1>3, <2>2, <2>3
<1>4. ASSUME NEW t \in Tasks, NEW k \in DOMAIN clars[t], ResumeClarification(c, t, k)
      PROVE  CallsNameTasks'
  <2>1. \A u \in Tasks : DOMAIN clars[u] \subseteq DOMAIN clars'[u]
    BY <1>4 DEF ResumeClarification, TypeOK
  <2>2. calls' = [calls EXCEPT ![c] = [IdleCall EXCEPT !.pc = "read", !.task = t]]
    BY <1>4 DEF ResumeClarification, ReturnTask
  <2> QED BY <1>1, <2>1, <2>2, CallNamesTask DEF IdleCall
<1>5. ASSUME ReadTask(c)
      PROVE  CallsNameTasks'
  <2>1. UNCHANGED clars /\ calls[c].task \in Tasks BY <1>5 DEF ReadTask, CallsNameTasks
  <2>2. ASSUME NEW pc \in {"expire", "read_clarification"},
               calls' = [calls EXCEPT ![c].pc = pc]
        PROVE  CallsNameTasks'
    BY <2>1, <2>2, PcNamesTask DEF Pcs
  <2>3. CASE Returned(c, tasks[calls[c].task].state) BY <2>1, <2>3, ReturnedNamesTask
  <2> QED BY <1>5, <2>2, <2>3 DEF ReadTask
<1>6. ASSUME ExpireTask(c)
      PROVE  CallsNameTasks'
  <2>1. UNCHANGED clars /\ calls[c].task \in Tasks BY <1>6 DEF ExpireTask, CallsNameTasks
  <2>2. Returned(c, "expired") BY <1>6 DEF ExpireTask
  <2> QED BY <2>1, <2>2, ReturnedNamesTask
<1>7. ASSUME ReadClarification(c)
      PROVE  CallsNameTasks'
  <2>1. UNCHANGED clars /\ calls[c].task \in Tasks BY <1>7 DEF ReadClarification, CallsNameTasks
  <2>2. CASE calls' = [calls EXCEPT ![c].pc = "expire_unanswered"]
    BY <2>1, <2>2, PcNamesTask DEF Pcs
  <2>3. ASSUME NEW k \in DOMAIN clars[calls[c].task],
               calls' = [calls EXCEPT ![c].pc = "expire_lapsed", ![c].clar = k]
        PROVE  CallsNameTasks'
    BY <2>1, <2>3 DEF TypeOK, CallsNameTasks
  <2>4. CASE Returned(c, "awaiting_clarification") BY <2>1, <2>4, ReturnedNamesTask
  <2> QED BY <1>7, <2>2, <2>3, <2>4 DEF ReadClarification
<1>8. ASSUME ExpireClarification(c)
      PROVE  CallsNameTasks'
  <2>1. calls[c].task \in Tasks BY <1>8 DEF ExpireClarification, CallsNameTasks
  <2>2. \A u \in Tasks : DOMAIN clars[u] \subseteq DOMAIN clars'[u]
    BY <1>8, <2>1 DEF ExpireClarification, TypeOK
  <2>3. Returned(c, "expired") BY <1>8 DEF ExpireClarification
  <2> QED BY <2>1, <2>2, <2>3, ReturnedNamesTask
<1>9. ASSUME WithdrawInCancel(c)
      PROVE  CallsNameTasks'
  <2>1. calls[c].task \in Tasks BY <1>9 DEF WithdrawInCancel, CallsNameTasks
  <2>2. \A u \in Tasks : DOMAIN clars[u] \subseteq DOMAIN clars'[u]
    BY <1>9, <2>1 DEF WithdrawInCancel, Withdraw, Close, TypeOK
  <2>3. Over(c) BY <1>9 DEF WithdrawInCancel
  <2> QED BY <2>2, <2>3, OverNamesTask
<1>10. ASSUME RequestCancel(c)
       PROVE  CallsNameTasks'
  <2>1. UNCHANGED clars /\ calls[c].task \in Tasks BY <1>10 DEF RequestCancel, CallsNameTasks
  <2>2. CASE calls' = [calls EXCEPT ![c].pc = "finalize_cancel"]
    BY <2>1, <2>2, PcNamesTask DEF Pcs
  <2>3. CASE Over(c) BY <2>1, <2>3, OverNamesTask
  <2> QED BY <1>10, <2>2, <2>3 DEF RequestCancel
<1>11. ASSUME FinalizeCancel(c)
       PROVE  CallsNameTasks'
  <2>1. UNCHANGED clars /\ Over(c) BY <1>11 DEF FinalizeCancel
  <2> QED BY <2>1, OverNamesTask
<1>12. PendingTasks \subseteq Tasks BY DEF PendingTasks
<1>13. ASSUME StopAll(c)
       PROVE  CallsNameTasks'
  <2>1. UNCHANGED clars BY <1>13 DEF StopAll
  <2>2. PICK t \in PendingTasks : calls' = [calls EXCEPT ![c] = [IdleCall EXCEPT
                 !.pc = "read", !.task = t, !.then = "cancel",
                 !.targets = PendingTasks \ {t}, !.stop = PendingTasks]]
    BY <1>13 DEF StopAll
  <2>3. [IdleCall EXCEPT !.pc = "read", !.task = t, !.then = "cancel",
           !.targets = PendingTasks \ {t}, !.stop = PendingTasks] \in Call
    BY <1>12 DEF IdleCall, Call, Pcs
  <2> QED BY <1>12, <2>1, <2>2, <2>3, CallNamesTask DEF IdleCall
<1>14. ASSUME CancelActiveTasks(c)
       PROVE  CallsNameTasks'
  <2>1. UNCHANGED clars BY <1>14 DEF CancelActiveTasks
  <2>2. calls' = [calls EXCEPT ![c] = [IdleCall EXCEPT !.pc = "finalize_stop", !.stop = PendingTasks]]
    BY <1>14 DEF CancelActiveTasks
  <2>3. [IdleCall EXCEPT !.pc = "finalize_stop", !.stop = PendingTasks] \in Call
    BY <1>12 DEF IdleCall, Call, Pcs
  <2> QED BY <2>1, <2>2, <2>3, CallNamesTask DEF IdleCall
<1>15. ASSUME FinalizeStop(c)
       PROVE  CallsNameTasks'
  <2>1. \A u \in Tasks : DOMAIN clars[u] \subseteq DOMAIN clars'[u]
    BY <1>15 DEF FinalizeStop, Close, TypeOK
  <2>2. calls' = [calls EXCEPT ![c].pc = "stopped"] BY <1>15 DEF FinalizeStop
  <2> QED BY <2>1, <2>2, PcNamesTask DEF Pcs
<1>16. ASSUME StopReturns(c)
       PROVE  CallsNameTasks'
  BY <1>16 DEF StopReturns, TypeOK, CallsNameTasks, IdleCall
<1> QED
  BY <1>3, <1>4, <1>5, <1>6, <1>7, <1>8, <1>9, <1>10, <1>11, <1>13, <1>14, <1>15, <1>16
  DEF CallStep

LEMMA TaskStepNamesTasks ==
  ASSUME TypeOK, CallsNameTasks, NEW t \in Tasks, LedgerAssumption,
         ActionStep(t) \/ ClarificationStep(t)
  PROVE  CallsNameTasks'
<1>1. CASE ActionStep(t)
  <2>1. UNCHANGED <<clars, calls>>
    BY <1>1 DEF ActionStep, RecordStaleAttempt, Prepare, Claim, Reconcile, ResumeNativePlan,
                MarkExecutionStarted, Finish, MarkInDoubt, Complete
  <2> QED BY <2>1 DEF CallsNameTasks
<1>2. CASE ClarificationStep(t)
  <2>1. UNCHANGED calls
    BY <1>2 DEF ClarificationStep, AwaitClarification, CancelClarification,
                RecordClarificationDelivery, ClarificationLapses
  <2>2. \A u \in Tasks : DOMAIN clars[u] \subseteq DOMAIN clars'[u]
    <3>1. CASE AwaitClarification(t)
      <4> DEFINE old == Close(t, "awaiting_answer", "superseded")
                 new == [status |-> "awaiting_answer", delivery |-> "pending", lapsed |-> FALSE]
      <4>1. old \in Seq(ClarRow) /\ DOMAIN old = DOMAIN clars[t]
        BY CloseType DEF TypeOK, Close
      <4>2. clars' = [clars EXCEPT ![t] = Append(old, new)] BY <3>1 DEF AwaitClarification
      <4> HIDE DEF old, new
      <4>3. DOMAIN old \subseteq DOMAIN Append(old, new) BY <4>1
      <4> QED BY <4>1, <4>2, <4>3 DEF TypeOK
    <3>2. CASE CancelClarification(t) BY <3>2 DEF CancelClarification, Withdraw, Close, TypeOK
    <3>3. ASSUME NEW k \in DOMAIN clars[t], NEW b \in BOOLEAN, RecordClarificationDelivery(t, k, b)
          PROVE  \A u \in Tasks : DOMAIN clars[u] \subseteq DOMAIN clars'[u]
      BY <3>3 DEF RecordClarificationDelivery, TypeOK
    <3>4. ASSUME NEW k \in DOMAIN clars[t], ClarificationLapses(t, k)
          PROVE  \A u \in Tasks : DOMAIN clars[u] \subseteq DOMAIN clars'[u]
      BY <3>4 DEF ClarificationLapses, TypeOK
    <3> QED BY <1>2, <3>1, <3>2, <3>3, <3>4 DEF ClarificationStep
  <2> QED BY <2>1, <2>2 DEF CallsNameTasks, TypeOK
<1> QED BY <1>1, <1>2

-----------------------------------------------------------------------------
(* The theorem. *)

LEMMA InitType ==
  ASSUME Init
  PROVE  TypeOK /\ CallsNameTasks
<1>1. TypeOK
  <2>1. IdleCall \in Call BY DEF IdleCall, Call, Pcs
  <2>2. <<>> \in Seq(ActionRow) /\ <<>> \in Seq(ClarRow) OBVIOUS
  <2> QED BY <2>1, <2>2 DEF Init, TypeOK, TaskRow, TaskStates
<1>2. CallsNameTasks BY DEF Init, CallsNameTasks, IdleCall
<1> QED BY <1>1, <1>2

LEMMA NextType ==
  ASSUME LedgerAssumption, TypeOK, CallsNameTasks, [Next]_vars
  PROVE  TypeOK' /\ CallsNameTasks'
<1>1. ASSUME NEW t \in Tasks, Create(t) \/ SignalCancel(t) \/ TaskAges(t)
      PROVE  TypeOK' /\ CallsNameTasks'
  <2>1. tasks' \in [Tasks -> TaskRow]
    <3>1. tasks[t] \in TaskRow BY DEF TypeOK
    <3>2. /\ [tasks[t] EXCEPT !.state = "active"] \in TaskRow
          /\ [tasks[t] EXCEPT !.cancel = TRUE] \in TaskRow
          /\ [tasks[t] EXCEPT !.aged = TRUE] \in TaskRow
      BY <3>1 DEF TaskRow, TaskStates
    <3> QED BY <1>1, <3>2 DEF Create, SignalCancel, TaskAges, TypeOK
  <2>2. UNCHANGED <<actions, clars, calls>> BY <1>1 DEF Create, SignalCancel, TaskAges
  <2> QED BY <2>1, <2>2 DEF TypeOK, CallsNameTasks
<1>2. ASSUME NEW t \in Tasks, ActionStep(t) \/ ClarificationStep(t)
      PROVE  TypeOK' /\ CallsNameTasks'
  BY <1>2, ActionStepType, ClarificationStepType, TaskStepNamesTasks
<1>3. ASSUME NEW c \in Callers, CallStep(c)
      PROVE  TypeOK' /\ CallsNameTasks'
  BY <1>3, CallStepType, CallStepNamesTasks
<1>4. ASSUME NEW S \in SUBSET Callers, CallersDie(S)
      PROVE  TypeOK' /\ CallsNameTasks'
  <2>1. IdleCall \in Call BY DEF IdleCall, Call, Pcs
  <2> QED BY <1>4, <2>1 DEF CallersDie, TypeOK, CallsNameTasks, IdleCall
<1>5. ASSUME RecoverInFlight
      PROVE  TypeOK' /\ CallsNameTasks'
  <2>1. \A t \in Tasks : Rewrite(t, "in_flight", "in_doubt") \in Seq(ActionRow)
    BY RewriteType DEF TypeOK, ActionStates
  <2>2. tasks' \in [Tasks -> TaskRow]
    BY ZenonT(40), <1>5 DEF RecoverInFlight, RequireRecovery, TypeOK, TaskRow, TaskStates
  <2> QED BY <1>5, <2>1, <2>2 DEF RecoverInFlight, TypeOK, CallsNameTasks
<1>6. CASE UNCHANGED vars BY <1>6 DEF vars, TypeOK, CallsNameTasks
<1> QED BY <1>1, <1>2, <1>3, <1>4, <1>5, <1>6 DEF Next

\* Every reachable ledger has rows of the declared shapes: no interleaving of
\* callers that read and write in separate transactions, no stop and no
\* restart leaves a row, or the record of a call, outside its type.
THEOREM TypeCorrect == Spec => [](TypeOK /\ CallsNameTasks)
<1>1. Init => TypeOK /\ CallsNameTasks BY InitType
<1>2. TypeOK /\ CallsNameTasks /\ [Next]_vars => (TypeOK /\ CallsNameTasks)'
  BY NextType, LedgerAssumption
<1> QED BY <1>1, <1>2, PTL DEF Spec

-----------------------------------------------------------------------------
(* What a step does to the rows: each one moves along the life of an       *)
(* action, and a new one has not begun.                                    *)

Quiet == {"not_executed", "prepared", "stale", "cancelled", "expired"}

RowStep(old, new) ==
  /\ NotReplayed(old, new)
  /\ new.started /\ ~old.started => new.state = "in_flight"
  /\ new.state \in Quiet => old.state \in Quiet \/ ~old.started

RowsStep ==
  \A t \in Tasks :
    /\ DOMAIN actions[t] \subseteq DOMAIN actions'[t]
    /\ \A i \in DOMAIN actions'[t] :
         \/ i \in DOMAIN actions[t] /\ RowStep(actions[t][i], actions'[t][i])
         \/ i \notin DOMAIN actions[t] /\ ~actions'[t][i].started /\ i \in 1..MaxActions

LEMMA SameRows ==
  ASSUME UNCHANGED actions
  PROVE  RowsStep
BY DEF RowsStep, RowStep, NotReplayed

\* One row of a task is rewritten.
LEMMA OneRow ==
  ASSUME TypeOK, NEW t \in Tasks, NEW i \in DOMAIN actions[t], NEW row,
         actions' = [actions EXCEPT ![t][i] = row],
         RowStep(actions[t][i], row)
  PROVE  RowsStep
BY DEF TypeOK, RowsStep, RowStep, NotReplayed

\* The prepared rows of some tasks are withdrawn.
LEMMA WithdrawnRows ==
  ASSUME TypeOK, NEW S \in SUBSET Tasks, NEW new \in {"cancelled", "expired"},
         actions' \in [Tasks -> Seq(ActionRow)],
         \A t \in S : actions'[t] = Rewrite(t, "prepared", new),
         \A t \in Tasks \ S : actions'[t] = actions[t]
  PROVE  RowsStep
<1>1. ASSUME NEW t \in S
      PROVE  /\ DOMAIN actions'[t] = DOMAIN actions[t]
             /\ \A i \in DOMAIN actions[t] :
                  actions'[t][i] = IF actions[t][i].state = "prepared"
                                   THEN [actions[t][i] EXCEPT !.state = new] ELSE actions[t][i]
  BY <1>1 DEF Rewrite
<1>2. ASSUME NEW t \in S, NEW i \in DOMAIN actions[t]
      PROVE  RowStep(actions[t][i], actions'[t][i])
  <2>1. actions[t][i] \in ActionRow BY DEF TypeOK
  <2> QED BY <1>1, <2>1 DEF RowStep, NotReplayed, Quiet, ActionRow
<1>3. ASSUME NEW t \in Tasks \ S, NEW i \in DOMAIN actions[t]
      PROVE  RowStep(actions[t][i], actions'[t][i])
  BY DEF RowStep, NotReplayed
<1> QED BY <1>1, <1>2, <1>3 DEF RowsStep

LEMMA WithdrawnRow ==
  ASSUME TypeOK, NEW t \in Tasks, NEW new \in {"cancelled", "expired"},
         actions' \in [Tasks -> Seq(ActionRow)],
         actions' = [actions EXCEPT ![t] = Rewrite(t, "prepared", new)]
  PROVE  RowsStep
<1>1. {t} \in SUBSET Tasks OBVIOUS
<1>2. \A u \in {t} : actions'[u] = Rewrite(u, "prepared", new) BY DEF TypeOK
<1>3. \A u \in Tasks \ {t} : actions'[u] = actions[u] BY DEF TypeOK
<1> QED BY <1>1, <1>2, <1>3, WithdrawnRows

LEMMA ActionStepRows ==
  ASSUME LedgerAssumption, TypeOK, NEW t \in Tasks, ActionStep(t)
  PROVE  RowsStep
<1>0. \A i \in DOMAIN actions[t] : actions[t][i] \in ActionRow BY DEF TypeOK
<1>1. ASSUME NEW spec \in ActionSpecs, RecordStaleAttempt(t, spec) \/ Prepare(t, spec)
      PROVE  RowsStep
  <2>1. PICK row \in {NewRow(spec, "stale", TRUE), NewRow(spec, "prepared", FALSE)} :
          actions' = [actions EXCEPT ![t] = Append(@, row)]
    BY <1>1 DEF RecordStaleAttempt, Prepare
  <2>2. ~row.started BY <2>1 DEF NewRow
  <2>3. actions[t] \in Seq(ActionRow) BY DEF TypeOK
  <2>4. actions' = [actions EXCEPT ![t] = Append(actions[t], row)] BY <2>1
  <2>5. /\ \A i \in DOMAIN actions[t] : Append(actions[t], row)[i] = actions[t][i]
        /\ DOMAIN Append(actions[t], row) = DOMAIN actions[t] \cup {Len(actions[t]) + 1}
        /\ Append(actions[t], row)[Len(actions[t]) + 1] = row
    BY <2>3
  <2>6. Len(actions[t]) + 1 \in 1..MaxActions
    <3>1. Len(actions[t]) < MaxActions BY <1>1 DEF RecordStaleAttempt, Prepare
    <3>2. MaxActions \in Nat /\ Len(actions[t]) \in Nat BY <2>3, LedgerAssumption DEF LedgerAssumption
    <3> QED BY <3>1, <3>2
  <2>7. \A i \in DOMAIN actions'[t] :
          \/ i \in DOMAIN actions[t] /\ actions'[t][i] = actions[t][i]
          \/ i \notin DOMAIN actions[t] /\ ~actions'[t][i].started /\ i \in 1..MaxActions
    BY <2>2, <2>4, <2>5, <2>6 DEF TypeOK
  <2>8. DOMAIN actions[t] \subseteq DOMAIN actions'[t] BY <2>4, <2>5 DEF TypeOK
  <2>9. \A u \in Tasks : u # t => actions'[u] = actions[u] BY <2>4 DEF TypeOK
  <2> QED BY <2>7, <2>8, <2>9 DEF RowsStep, RowStep, NotReplayed
<1>2. ASSUME NEW i \in DOMAIN actions[t], NEW b \in BOOLEAN,
             Claim(t, i, b) \/ Reconcile(t, i, b) \/ ResumeNativePlan(t, i, b)
      PROVE  RowsStep
  <2>1. PICK s \in ActionStates :
          /\ actions' = [actions EXCEPT ![t][i] = [actions[t][i] EXCEPT !.state = s]]
          /\ \/ actions[t][i].state = "prepared" /\ s \in {"stale", "in_flight"}
             \/ actions[t][i].state = "in_doubt" /\ s = "result_present"
             \/ actions[t][i].state = "in_doubt" /\ s = "not_executed" /\ ~actions[t][i].started
             \/ s = actions[t][i].state
    <3>1. CASE Claim(t, i, b)
      BY <3>1 DEF Claim, ActionStates
    <3>2. CASE Reconcile(t, i, b)
      BY <3>2 DEF Reconcile, ActionStates
    <3>3. CASE ResumeNativePlan(t, i, b)
      BY <1>0, <3>3 DEF ResumeNativePlan, Settled, ActionStates, ActionRow
    <3> QED BY <1>2, <3>1, <3>2, <3>3
  <2> DEFINE row == [actions[t][i] EXCEPT !.state = s]
  <2>2. RowStep(actions[t][i], row) BY <1>0, <2>1 DEF RowStep, NotReplayed, ActionRow, Quiet
  <2> HIDE DEF row
  <2> QED BY <2>1, <2>2, OneRow DEF row
<1>3. ASSUME NEW i \in DOMAIN actions[t], MarkExecutionStarted(t, i)
      PROVE  RowsStep
  <2> DEFINE row == [actions[t][i] EXCEPT !.started = TRUE]
  <2>1. RowStep(actions[t][i], row)
    BY <1>0, <1>3 DEF MarkExecutionStarted, RowStep, NotReplayed, ActionRow, Quiet
  <2>2. actions' = [actions EXCEPT ![t][i] = row] BY <1>3 DEF MarkExecutionStarted
  <2> HIDE DEF row
  <2> QED BY <2>1, <2>2, OneRow
<1>4. ASSUME NEW i \in DOMAIN actions[t], NEW ok \in BOOLEAN, NEW v \in Verifications,
             Finish(t, i, ok, v)
      PROVE  RowsStep
  <2> DEFINE row == [actions[t][i] EXCEPT !.state = IF ok THEN "verified" ELSE "failed",
                                          !.verification = v]
  <2>1. RowStep(actions[t][i], row)
    BY <1>0, <1>4 DEF Finish, RowStep, NotReplayed, ActionRow, Quiet
  <2>2. actions' = [actions EXCEPT ![t][i] = row] BY <1>4 DEF Finish, TypeOK
  <2> HIDE DEF row
  <2> QED BY <2>1, <2>2, OneRow
<1>5. ASSUME NEW i \in DOMAIN actions[t], MarkInDoubt(t, i)
      PROVE  RowsStep
  <2> DEFINE row == [actions[t][i] EXCEPT !.state = "in_doubt"]
  <2>1. RowStep(actions[t][i], row)
    BY <1>0, <1>5 DEF MarkInDoubt, RowStep, NotReplayed, ActionRow, Quiet
  <2>2. actions' = [actions EXCEPT ![t][i] = row] BY <1>5 DEF MarkInDoubt
  <2> HIDE DEF row
  <2> QED BY <2>1, <2>2, OneRow
<1>6. ASSUME NEW b \in BOOLEAN, Complete(t, b)
      PROVE  RowsStep
  <2>1. actions' = [actions EXCEPT ![t] = Rewrite(t, "prepared", "cancelled")]
    BY <1>6 DEF Complete
  <2>2. actions' \in [Tasks -> Seq(ActionRow)]
    BY <2>1, RewriteType DEF TypeOK, ActionStates
  <2> QED BY <2>1, <2>2, WithdrawnRow
<1> QED BY <1>1, <1>2, <1>3, <1>4, <1>5, <1>6 DEF ActionStep, Verifications

LEMMA CallStepRows ==
  ASSUME TypeOK, TypeOK', CallsNameTasks, NEW c \in Callers, CallStep(c)
  PROVE  RowsStep
<1>1. ASSUME \/ \E t \in Tasks :
                  \/ CallTask(c, t) \/ Cancel(c, t)
                  \/ \E k \in DOMAIN clars[t] : ResumeClarification(c, t, k)
             \/ ReadTask(c) \/ ReadClarification(c) \/ ExpireClarification(c)
             \/ WithdrawInCancel(c) \/ RequestCancel(c)
             \/ StopAll(c) \/ CancelActiveTasks(c) \/ StopReturns(c)
      PROVE  RowsStep
  <2>1. UNCHANGED actions
    BY <1>1 DEF CallTask, Cancel, ResumeClarification, ReadTask, ReadClarification,
                ExpireClarification, WithdrawInCancel, Withdraw, RequestCancel, StopAll,
                CancelActiveTasks, StopReturns
  <2> QED BY <2>1, SameRows
<1>2. ASSUME ExpireTask(c)
      PROVE  RowsStep
  <2>1. calls[c].task \in Tasks BY <1>2 DEF ExpireTask, CallsNameTasks
  <2> QED BY <1>2, <2>1, WithdrawnRow DEF ExpireTask, TypeOK
<1>3. ASSUME FinalizeCancel(c)
      PROVE  RowsStep
  <2>1. calls[c].task \in Tasks BY <1>3 DEF FinalizeCancel, CallsNameTasks
  <2>2. CASE actions' = [actions EXCEPT ![calls[c].task] =
                           Rewrite(calls[c].task, "prepared", "cancelled")]
    BY <2>1, <2>2, WithdrawnRow DEF TypeOK
  <2>3. CASE UNCHANGED actions BY <2>3, SameRows
  <2> QED BY <1>3, <2>2, <2>3 DEF FinalizeCancel
<1>4. ASSUME FinalizeStop(c)
      PROVE  RowsStep
  <2> DEFINE S == calls[c].stop
  <2>1. S \in SUBSET Tasks BY DEF TypeOK, Call
  <2>2. /\ \A t \in S : actions'[t] = Rewrite(t, "prepared", "cancelled")
        /\ \A t \in Tasks \ S : actions'[t] = actions[t]
    BY <1>4, <2>1 DEF FinalizeStop
  <2> HIDE DEF S
  <2> QED BY <2>1, <2>2, WithdrawnRows DEF TypeOK
<1> QED BY <1>1, <1>2, <1>3, <1>4 DEF CallStep

LEMMA NextRows ==
  ASSUME LedgerAssumption, TypeOK, TypeOK', CallsNameTasks, [Next]_vars
  PROVE  RowsStep
<1>1. ASSUME \/ \E t \in Tasks : \/ Create(t) \/ ClarificationStep(t)
                                 \/ SignalCancel(t) \/ TaskAges(t)
             \/ \E S \in SUBSET Callers : CallersDie(S)
             \/ UNCHANGED vars
      PROVE  RowsStep
  <2>1. UNCHANGED actions
    BY <1>1 DEF Create, ClarificationStep, AwaitClarification, CancelClarification, Withdraw,
                RecordClarificationDelivery, ClarificationLapses, SignalCancel, TaskAges,
                CallersDie, vars
  <2> QED BY <2>1, SameRows
<1>2. ASSUME RecoverInFlight
      PROVE  RowsStep
  <2>1. ASSUME NEW t \in Tasks
        PROVE  /\ DOMAIN actions'[t] = DOMAIN actions[t]
               /\ \A i \in DOMAIN actions[t] :
                    actions'[t][i] = IF actions[t][i].state = "in_flight"
                                     THEN [actions[t][i] EXCEPT !.state = "in_doubt"]
                                     ELSE actions[t][i]
    BY <1>2 DEF RecoverInFlight, Rewrite
  <2>2. ASSUME NEW t \in Tasks, NEW i \in DOMAIN actions[t]
        PROVE  RowStep(actions[t][i], actions'[t][i])
    <3>1. actions[t][i] \in ActionRow BY DEF TypeOK
    <3> QED BY <2>1, <3>1 DEF RowStep, NotReplayed, Quiet, ActionRow
  <2> QED BY <2>1, <2>2 DEF RowsStep
<1> QED BY <1>1, <1>2, ActionStepRows, CallStepRows DEF Next

\* A step keeps the rows that never started as they were said to be.
LEMMA QuietStaysQuiet ==
  ASSUME TypeOK, NotExecutedMeansNotStarted, RowsStep
  PROVE  NotExecutedMeansNotStarted'
<1> SUFFICES ASSUME NEW t \in Tasks, NEW i \in DOMAIN actions'[t],
                    actions'[t][i].state \in Quiet
             PROVE  ~actions'[t][i].started
  BY DEF NotExecutedMeansNotStarted, Quiet
<1> QED BY DEF RowsStep, RowStep, NotReplayed, NotExecutedMeansNotStarted, Quiet

\* A row the ledger says was not executed, was rejected or was withdrawn never
\* crossed the durable actor-start boundary (resume_native_plan takes an
\* uncertain row for one that did not run only when it did not start).
THEOREM NeverExecuted == Spec => []NotExecutedMeansNotStarted
<1>1. Init => NotExecutedMeansNotStarted BY DEF Init, NotExecutedMeansNotStarted
<1>2. /\ TypeOK /\ CallsNameTasks /\ (TypeOK /\ CallsNameTasks)'
      /\ NotExecutedMeansNotStarted /\ [Next]_vars
      => NotExecutedMeansNotStarted'
  BY QuietStaysQuiet, NextRows, LedgerAssumption
<1> QED BY <1>1, <1>2, TypeCorrect, PTL DEF Spec

\* No replay, whatever the callers, stops, restarts and resumed plans do: a row
\* leaves prepared once, crosses the actor-start boundary once, and an uncertain
\* row is only ever settled by evidence.
THEOREM NothingIsReplayed == Spec => NoReplay
<1>1. /\ TypeOK /\ CallsNameTasks /\ (TypeOK /\ CallsNameTasks)' /\ [Next]_vars
      => [\A t \in Tasks : \A i \in DOMAIN actions[t] :
            NotReplayed(actions[t][i], actions'[t][i])]_vars
  BY NextRows, LedgerAssumption DEF RowsStep, RowStep
<1> QED BY <1>1, TypeCorrect, PTL DEF Spec, NoReplay

-----------------------------------------------------------------------------
(* An uncertain effect holds its task. *)

Held == {"recovery_required", "cancelled", "expired"}

UncertaintyHolds(t) ==
  \A i \in DOMAIN actions[t] :
    /\ actions[t][i].state = "in_doubt" => tasks[t].state \in Held
    /\ actions[t][i].state = "in_flight" => tasks[t].state \in Held \cup {"active"}

LEMMA ActionStepHolds ==
  ASSUME LedgerAssumption, TypeOK, TypeOK', NEW t \in Tasks, UncertaintyHolds(t), ActionStep(t)
  PROVE  UncertaintyHolds(t)'
<1>0. \A i \in DOMAIN actions[t] : actions[t][i] \in ActionRow BY DEF TypeOK
<1>1. ASSUME NEW spec \in ActionSpecs, RecordStaleAttempt(t, spec) \/ Prepare(t, spec)
      PROVE  UncertaintyHolds(t)'
  <2>1. PICK row \in {NewRow(spec, "stale", TRUE), NewRow(spec, "prepared", FALSE)} :
          actions' = [actions EXCEPT ![t] = Append(@, row)]
    BY <1>1 DEF RecordStaleAttempt, Prepare
  <2>2. row.state \in {"stale", "prepared"} BY <2>1 DEF NewRow
  <2>3. actions[t] \in Seq(ActionRow) BY DEF TypeOK
  <2>4. actions'[t] = Append(actions[t], row) BY <2>1 DEF TypeOK
  <2>5. /\ \A i \in DOMAIN actions[t] : Append(actions[t], row)[i] = actions[t][i]
        /\ DOMAIN Append(actions[t], row) = DOMAIN actions[t] \cup {Len(actions[t]) + 1}
        /\ Append(actions[t], row)[Len(actions[t]) + 1] = row
    BY <2>3
  <2>6. UNCHANGED tasks BY <1>1 DEF RecordStaleAttempt, Prepare
  <2> QED BY <2>2, <2>4, <2>5, <2>6 DEF UncertaintyHolds
<1>2. ASSUME NEW i \in DOMAIN actions[t], NEW b \in BOOLEAN, Claim(t, i, b)
      PROVE  UncertaintyHolds(t)'
  <2>1. /\ DOMAIN actions'[t] = DOMAIN actions[t]
        /\ actions'[t][i].state \in {"stale", "in_flight"}
        /\ \A j \in DOMAIN actions[t] \ {i} : actions'[t][j] = actions[t][j]
    <3>1. PICK s \in {"stale", "in_flight"} : actions' = [actions EXCEPT ![t][i].state = s]
      BY <1>2 DEF Claim
    <3> QED BY <1>0, <3>1 DEF TypeOK, ActionRow
  <2>2. tasks'[t].state = "active" BY <1>2 DEF Claim, TypeOK, TaskRow
  <2>3. tasks[t].state = "active" BY <1>2 DEF Claim
  <2> QED BY <2>1, <2>2, <2>3 DEF UncertaintyHolds, Held
<1>3. ASSUME NEW i \in DOMAIN actions[t],
             \/ \E b \in BOOLEAN : Reconcile(t, i, b)
             \/ MarkExecutionStarted(t, i)
             \/ \E v \in Verifications, ok \in BOOLEAN : Finish(t, i, ok, v)
      PROVE  UncertaintyHolds(t)'
  <2>1. /\ DOMAIN actions'[t] = DOMAIN actions[t]
        /\ actions'[t][i].state \in {actions[t][i].state, "result_present", "verified", "failed"}
        /\ \A j \in DOMAIN actions[t] \ {i} : actions'[t][j] = actions[t][j]
    <3>1. CASE \E b \in BOOLEAN : Reconcile(t, i, b)
      BY <1>0, <3>1 DEF Reconcile, TypeOK, ActionRow
    <3>2. CASE MarkExecutionStarted(t, i)
      BY <1>0, <3>2 DEF MarkExecutionStarted, TypeOK, ActionRow
    <3>3. CASE \E v \in Verifications, ok \in BOOLEAN : Finish(t, i, ok, v)
      <4>1. PICK v \in Verifications, ok \in BOOLEAN : Finish(t, i, ok, v) BY <3>3
      <4> DEFINE row == [actions[t][i] EXCEPT !.state = IF ok THEN "verified" ELSE "failed",
                                              !.verification = v]
      <4>2. row.state \in {"verified", "failed"} BY <1>0 DEF ActionRow
      <4>3. actions' = [actions EXCEPT ![t][i] = row] BY ZenonT(40), <4>1 DEF Finish, TypeOK
      <4> HIDE DEF row
      <4> QED BY <4>2, <4>3 DEF TypeOK
    <3> QED BY <1>3, <3>1, <3>2, <3>3
  <2>2. UNCHANGED tasks BY <1>3 DEF Reconcile, MarkExecutionStarted, Finish
  <2> QED BY <2>1, <2>2 DEF UncertaintyHolds
<1>4. ASSUME NEW i \in DOMAIN actions[t], NEW b \in BOOLEAN, ResumeNativePlan(t, i, b)
      PROVE  UncertaintyHolds(t)'
  <2>1. /\ DOMAIN actions'[t] = DOMAIN actions[t]
        /\ actions'[t][i].state \in {"not_executed", "result_present"}
        /\ \A j \in DOMAIN actions[t] \ {i} : actions'[t][j] = actions[t][j]
    <3>1. PICK s \in {"not_executed", "result_present"} :
            actions' = [actions EXCEPT ![t][i].state = s]
      BY <1>4 DEF ResumeNativePlan, Settled
    <3> QED BY <1>0, <3>1 DEF TypeOK, ActionRow
  <2>2. \A j \in DOMAIN actions[t] \ {i} : actions[t][j].state \in {"prepared", "stale", "verified"}
    BY <1>4 DEF ResumeNativePlan, Attempted
  <2> QED BY <2>1, <2>2 DEF UncertaintyHolds
<1>5. ASSUME NEW i \in DOMAIN actions[t], MarkInDoubt(t, i)
      PROVE  UncertaintyHolds(t)'
  <2>1. tasks[t].state \in Held \cup {"active"}
    BY <1>5 DEF MarkInDoubt, UncertaintyHolds
  <2>2. tasks'[t].state \in Held
    BY <1>5, <2>1 DEF MarkInDoubt, RequireRecovery, TypeOK, TaskRow, Held
  <2> QED BY <2>2 DEF UncertaintyHolds
<1>6. ASSUME NEW b \in BOOLEAN, Complete(t, b)
      PROVE  UncertaintyHolds(t)'
  <2>1. \A i \in DOMAIN actions[t] : actions[t][i].state \notin {"in_doubt", "in_flight"}
    BY <1>6 DEF Complete, InState, UncertaintyHolds, Held
  <2>2. actions'[t] = Rewrite(t, "prepared", "cancelled") BY <1>6 DEF Complete, TypeOK
  <2>3. \A i \in DOMAIN actions'[t] : actions'[t][i].state \notin {"in_doubt", "in_flight"}
    BY <1>0, <2>1, <2>2 DEF Rewrite, ActionRow
  <2> QED BY <2>3 DEF UncertaintyHolds
<1> QED BY <1>1, <1>2, <1>3, <1>4, <1>5, <1>6 DEF ActionStep, Verifications

LEMMA ClarificationStepHolds ==
  ASSUME TypeOK, NEW t \in Tasks, UncertaintyHolds(t), ClarificationStep(t)
  PROVE  UncertaintyHolds(t)'
<1>1. CASE AwaitClarification(t)
  <2>1. \A i \in DOMAIN actions[t] : actions[t][i].state \notin {"in_doubt", "in_flight"}
    BY <1>1 DEF AwaitClarification, CanAwaitClarification, InState, UncertaintyHolds, Held
  <2> QED BY <1>1, <2>1 DEF AwaitClarification, UncertaintyHolds
<1>2. CASE CancelClarification(t)
  BY <1>2 DEF CancelClarification, Withdraw, TypeOK, TaskRow, UncertaintyHolds, Held
<1>3. CASE UNCHANGED <<tasks, actions>> BY <1>3 DEF UncertaintyHolds
<1> QED
  BY <1>1, <1>2, <1>3 DEF ClarificationStep, RecordClarificationDelivery, ClarificationLapses

\* The calls write to the task they named, and no row becomes uncertain.
LEMMA WithdrawnHolds ==
  ASSUME TypeOK, NEW t \in Tasks, NEW new \in {"cancelled", "expired"},
         UncertaintyHolds(t), actions'[t] \in {actions[t], Rewrite(t, "prepared", new)},
         tasks'[t].state = tasks[t].state \/ tasks'[t].state \in Held
  PROVE  UncertaintyHolds(t)'
<1>0. \A i \in DOMAIN actions[t] : actions[t][i] \in ActionRow BY DEF TypeOK
<1>1. \A i \in DOMAIN actions'[t] :
        /\ i \in DOMAIN actions[t]
        /\ actions'[t][i].state \in {actions[t][i].state, new}
  BY <1>0 DEF Rewrite, ActionRow
<1> QED BY <1>1 DEF UncertaintyHolds, Held

LEMMA CallStepHolds ==
  ASSUME TypeOK, CallsNameTasks, NEW c \in Callers, CallStep(c),
         NEW t \in Tasks, UncertaintyHolds(t)
  PROVE  UncertaintyHolds(t)'
<1>1. ASSUME NEW u \in Tasks, NEW k \in DOMAIN clars[u], ResumeClarification(c, u, k)
      PROVE  UncertaintyHolds(t)'
  <2>1. CASE t = u
    <3>1. \A i \in DOMAIN actions[t] : actions[t][i].state \notin {"in_doubt", "in_flight"}
      BY <1>1, <2>1 DEF ResumeClarification, UncertaintyHolds, Held
    <3> QED BY <1>1, <3>1 DEF ResumeClarification, UncertaintyHolds
  <2>2. CASE t # u
    BY <1>1, <2>2 DEF ResumeClarification, UncertaintyHolds, TypeOK
  <2> QED BY <2>1, <2>2
<1>2. ASSUME \/ \E u \in Tasks : CallTask(c, u) \/ Cancel(c, u)
             \/ ReadTask(c) \/ ReadClarification(c) \/ StopReturns(c)
      PROVE  UncertaintyHolds(t)'
  BY <1>2 DEF CallTask, Cancel, ReadTask, ReadClarification, StopReturns, UncertaintyHolds
<1>3. ASSUME ExpireTask(c)
      PROVE  UncertaintyHolds(t)'
  BY <1>3, WithdrawnHolds DEF ExpireTask, TypeOK, TaskRow, Held
<1>4. ASSUME ExpireClarification(c)
      PROVE  UncertaintyHolds(t)'
  BY <1>4, WithdrawnHolds DEF ExpireClarification, TypeOK, TaskRow, Held
<1>5. ASSUME WithdrawInCancel(c)
      PROVE  UncertaintyHolds(t)'
  BY ZenonT(40), <1>5, WithdrawnHolds DEF WithdrawInCancel, Withdraw, TypeOK, TaskRow, Held
<1>6. ASSUME RequestCancel(c)
      PROVE  UncertaintyHolds(t)'
  BY ZenonT(40), <1>6, WithdrawnHolds DEF RequestCancel, TypeOK, TaskRow
<1>7. ASSUME FinalizeCancel(c)
      PROVE  UncertaintyHolds(t)'
  BY ZenonT(40), <1>7, WithdrawnHolds DEF FinalizeCancel, TypeOK, TaskRow, Held
<1>8. ASSUME StopAll(c) \/ CancelActiveTasks(c)
      PROVE  UncertaintyHolds(t)'
  <2>1. UNCHANGED actions /\ RequestAll BY <1>8 DEF StopAll, CancelActiveTasks
  <2>2. tasks'[t].state = tasks[t].state BY <2>1 DEF RequestAll, TypeOK, TaskRow
  <2> QED BY <2>1, <2>2 DEF UncertaintyHolds
<1>9. ASSUME FinalizeStop(c)
      PROVE  UncertaintyHolds(t)'
  BY <1>9, WithdrawnHolds DEF FinalizeStop, TypeOK, TaskRow, Held
<1> QED BY <1>1, <1>2, <1>3, <1>4, <1>5, <1>6, <1>7, <1>8, <1>9 DEF CallStep

LEMMA NextHolds ==
  ASSUME LedgerAssumption, TypeOK, TypeOK', CallsNameTasks, [Next]_vars,
         \A t \in Tasks : UncertaintyHolds(t)
  PROVE  \A t \in Tasks : UncertaintyHolds(t)'
<1> SUFFICES ASSUME NEW t \in Tasks
             PROVE  UncertaintyHolds(t)'
  OBVIOUS
<1>1. ASSUME NEW u \in Tasks, ActionStep(u) \/ ClarificationStep(u)
      PROVE  UncertaintyHolds(t)'
  <2>1. CASE t = u BY <1>1, <2>1, ActionStepHolds, ClarificationStepHolds
  <2>2. CASE t # u
    <3>1. tasks'[t] = tasks[t] /\ actions'[t] = actions[t]
      BY ZenonT(40), <1>1, <2>2 DEF ActionStep, RecordStaleAttempt, Prepare, Claim, Reconcile,
           ResumeNativePlan, MarkExecutionStarted, Finish, MarkInDoubt, Complete,
           ClarificationStep, AwaitClarification, CancelClarification, Withdraw,
           RecordClarificationDelivery, ClarificationLapses, TypeOK
    <3> QED BY <3>1 DEF UncertaintyHolds
  <2> QED BY <2>1, <2>2
<1>2. ASSUME NEW u \in Tasks, Create(u)
      PROVE  UncertaintyHolds(t)'
  BY <1>2 DEF Create, UncertaintyHolds, Held, TypeOK
<1>3. ASSUME NEW u \in Tasks, SignalCancel(u) \/ TaskAges(u)
      PROVE  UncertaintyHolds(t)'
  BY SMTT(30), <1>3 DEF SignalCancel, TaskAges, UncertaintyHolds, TypeOK, TaskRow
<1>4. ASSUME NEW S \in SUBSET Callers, CallersDie(S)
      PROVE  UncertaintyHolds(t)'
  BY <1>4 DEF CallersDie, UncertaintyHolds
<1>5. ASSUME RecoverInFlight
      PROVE  UncertaintyHolds(t)'
  <2>1. /\ DOMAIN actions'[t] = DOMAIN actions[t]
        /\ \A i \in DOMAIN actions[t] :
             actions'[t][i].state = IF actions[t][i].state = "in_flight" THEN "in_doubt"
                                    ELSE actions[t][i].state
    BY <1>5 DEF RecoverInFlight, Rewrite, TypeOK, ActionRow
  <2>2. CASE InState(t, {"in_flight"}) = {}
    <3>1. tasks'[t] = tasks[t] BY <1>5, <2>2 DEF RecoverInFlight
    <3> QED BY <2>1, <2>2, <3>1 DEF UncertaintyHolds, InState
  <2>3. CASE InState(t, {"in_flight"}) # {}
    <3>1. tasks[t].state \in Held \cup {"active"} BY <2>3 DEF InState, UncertaintyHolds
    <3>2. tasks'[t].state \in Held
      BY <1>5, <2>3, <3>1 DEF RecoverInFlight, RequireRecovery, TypeOK, TaskRow, Held
    <3> QED BY <3>2 DEF UncertaintyHolds
  <2> QED BY <2>2, <2>3
<1>6. CASE UNCHANGED vars BY <1>6 DEF vars, UncertaintyHolds
<1> QED BY <1>1, <1>2, <1>3, <1>4, <1>5, <1>6, CallStepHolds DEF Next

\* No task with an effect of unknown outcome goes on, waits for an answer or
\* reports success or failure: the row may stay in doubt for ever, its task is
\* then held for recovery or closed (mark_in_doubt, recover_in_flight, and
\* resume_native_plan, which settles the last such row first).
THEOREM UncertaintyNeverHidden == Spec => []UncertaintyIsVisible
<1>1. Init => \A t \in Tasks : UncertaintyHolds(t) BY DEF Init, UncertaintyHolds
<1>2. /\ TypeOK /\ CallsNameTasks /\ (TypeOK /\ CallsNameTasks)' /\ [Next]_vars
      /\ \A t \in Tasks : UncertaintyHolds(t)
      => (\A t \in Tasks : UncertaintyHolds(t))'
  BY NextHolds, LedgerAssumption
<1>3. (\A t \in Tasks : UncertaintyHolds(t)) => UncertaintyIsVisible
  BY DEF UncertaintyHolds, UncertaintyIsVisible, InState, Held
<1> QED BY <1>1, <1>2, <1>3, TypeCorrect, PTL DEF Spec

-----------------------------------------------------------------------------
(* A stop intent binds, and an outcome stands.                             *)

Bound(t) ==
  tasks[t].cancel =>
    /\ tasks'[t].cancel
    /\ tasks'[t].state \in {tasks[t].state, "cancelled", "expired", "recovery_required"}
    /\ \A i \in DOMAIN actions[t] :
         /\ actions[t][i].state = "prepared" => actions'[t][i].state # "in_flight"
         /\ actions'[t][i].started = actions[t][i].started

Stands(t) ==
  /\ tasks[t].state \in {"succeeded", "failed", "cancelled"} =>
       tasks'[t].state \in {tasks[t].state, "expired"}
  /\ tasks[t].state # "absent" => tasks'[t].state # "absent"
  /\ tasks'[t].cancel => tasks[t].cancel \/ tasks[t].state # "absent"

\* What cancel_active_tasks signalled before its last update is still to stop, and only what
\* was created was told to stop.
SignalledStop ==
  /\ \A t \in Tasks : tasks[t].cancel => tasks[t].state # "absent"
  /\ \A c \in Callers : calls[c].pc = "finalize_stop" =>
       \A t \in calls[c].stop :
         tasks[t].cancel /\ tasks[t].state \notin {"succeeded", "failed"}

LEMMA KeptTask ==
  ASSUME NEW t \in Tasks, tasks'[t] = tasks[t], actions'[t] = actions[t]
  PROVE  Bound(t) /\ Stands(t)
BY DEF Bound, Stands

\* Withdrawing the prepared rows of a task starts none of them.
LEMMA WithdrawnIsNotStarted ==
  ASSUME TypeOK, NEW t \in Tasks, NEW old \in ActionStates, NEW new \in ActionStates \ {"in_flight"},
         actions'[t] \in {actions[t], Rewrite(t, old, new)}
  PROVE  \A i \in DOMAIN actions[t] :
           /\ actions[t][i].state = "prepared" => actions'[t][i].state # "in_flight"
           /\ actions'[t][i].started = actions[t][i].started
<1>1. \A i \in DOMAIN actions[t] : actions[t][i] \in ActionRow BY DEF TypeOK
<1>2. CASE actions'[t] = actions[t] BY <1>2
<1>3. CASE actions'[t] = Rewrite(t, old, new)
  <2>1. \A i \in DOMAIN actions[t] :
          actions'[t][i] = IF actions[t][i].state = old THEN [actions[t][i] EXCEPT !.state = new]
                           ELSE actions[t][i]
    BY <1>3 DEF Rewrite
  <2> QED BY <1>1, <2>1 DEF ActionRow
<1> QED BY <1>2, <1>3

LEMMA ActionStepStops ==
  ASSUME LedgerAssumption, TypeOK, NEW t \in Tasks, ActionStep(t)
  PROVE  Bound(t) /\ Stands(t)
<1>0. /\ \A i \in DOMAIN actions[t] : actions[t][i] \in ActionRow
      /\ tasks[t] \in TaskRow /\ t \in DOMAIN tasks /\ t \in DOMAIN actions
  BY DEF TypeOK
<1>1. ASSUME NEW spec \in ActionSpecs, RecordStaleAttempt(t, spec) \/ Prepare(t, spec)
      PROVE  Bound(t) /\ Stands(t)
  <2>1. ~tasks[t].cancel /\ tasks[t].state = "active" /\ tasks'[t] = tasks[t]
    BY <1>1 DEF RecordStaleAttempt, Prepare
  <2> QED BY <2>1 DEF Bound, Stands
<1>2. ASSUME NEW i \in DOMAIN actions[t],
             \/ \E b \in BOOLEAN : Claim(t, i, b) \/ ResumeNativePlan(t, i, b)
             \/ MarkExecutionStarted(t, i)
             \/ \E b \in BOOLEAN : Complete(t, b)
      PROVE  Bound(t) /\ Stands(t)
  <2>1. ~tasks[t].cancel /\ tasks[t].state \in {"active", "recovery_required"}
    BY <1>2 DEF Claim, ResumeNativePlan, MarkExecutionStarted, Complete
  <2>2. tasks'[t].state # "absent"
    BY <1>0, <1>2, <2>1 DEF Claim, ResumeNativePlan, MarkExecutionStarted, Complete, TaskRow
  <2> QED BY <2>1, <2>2 DEF Bound, Stands
<1>3. ASSUME NEW i \in DOMAIN actions[t],
             \/ \E b \in BOOLEAN : Reconcile(t, i, b)
             \/ \E v \in Verifications, ok \in BOOLEAN : Finish(t, i, ok, v)
             \/ MarkInDoubt(t, i)
      PROVE  Bound(t) /\ Stands(t)
  <2>1. /\ actions'[t][i].state \in {"result_present", "verified", "failed", "in_doubt"}
        /\ actions'[t][i].started = actions[t][i].started
        /\ \A j \in DOMAIN actions[t] \ {i} : actions'[t][j] = actions[t][j]
    <3>1. CASE \E b \in BOOLEAN : Reconcile(t, i, b) BY <1>0, <3>1 DEF Reconcile, ActionRow
    <3>2. CASE \E v \in Verifications, ok \in BOOLEAN : Finish(t, i, ok, v)
      <4>1. PICK v \in Verifications, ok \in BOOLEAN : Finish(t, i, ok, v) BY <3>2
      <4> DEFINE row == [actions[t][i] EXCEPT !.state = IF ok THEN "verified" ELSE "failed",
                                              !.verification = v]
      <4>2. row.state \in {"verified", "failed"} /\ row.started = actions[t][i].started
        BY <1>0 DEF ActionRow
      <4>3. actions' = [actions EXCEPT ![t][i] = row] BY <1>0, <4>1 DEF Finish
      <4> HIDE DEF row
      <4> QED BY <1>0, <4>2, <4>3
    <3>3. CASE MarkInDoubt(t, i) BY <1>0, <3>3 DEF MarkInDoubt, ActionRow
    <3> QED BY <1>3, <3>1, <3>2, <3>3
  <2>2. \/ tasks'[t] = tasks[t]
        \/ tasks[t].state = "active" /\ tasks'[t] = [tasks[t] EXCEPT !.state = "recovery_required"]
    <3>1. tasks'[t] \in {tasks[t], RequireRecovery(tasks[t])}
      BY <1>0, <1>3 DEF Reconcile, Finish, MarkInDoubt
    <3> QED BY <3>1 DEF RequireRecovery
  <2>4. CASE tasks'[t] = tasks[t] BY <2>1, <2>4 DEF Bound, Stands
  <2>5. CASE tasks[t].state = "active" /\ tasks'[t] = [tasks[t] EXCEPT !.state = "recovery_required"]
    BY <1>0, <2>1, <2>5 DEF Bound, Stands, TaskRow
  <2> QED BY <2>2, <2>4, <2>5
<1>4. ASSUME NEW b \in BOOLEAN, Complete(t, b) PROVE Bound(t) /\ Stands(t)
  BY <1>4 DEF Complete, Bound, Stands
<1> QED BY <1>1, <1>2, <1>3, <1>4 DEF ActionStep, Verifications

LEMMA CallStepStops ==
  ASSUME TypeOK, CallsNameTasks, SignalledStop, NEW c \in Callers, CallStep(c), NEW t \in Tasks
  PROVE  Bound(t) /\ Stands(t)
<1>0. tasks[t] \in TaskRow /\ DOMAIN tasks = Tasks /\ DOMAIN actions = Tasks BY DEF TypeOK
<1>1. ASSUME \/ \E u \in Tasks : CallTask(c, u) \/ Cancel(c, u)
             \/ ReadTask(c) \/ ReadClarification(c) \/ StopReturns(c)
      PROVE  Bound(t) /\ Stands(t)
  BY <1>1, KeptTask DEF CallTask, Cancel, ReadTask, ReadClarification, StopReturns
<1>2. ASSUME NEW u \in Tasks, NEW k \in DOMAIN clars[u], ResumeClarification(c, u, k)
      PROVE  Bound(t) /\ Stands(t)
  <2>1. CASE u = t
    BY <1>2, <2>1 DEF ResumeClarification, Bound, Stands
  <2>2. CASE u # t BY <1>0, <1>2, <2>2, KeptTask DEF ResumeClarification
  <2> QED BY <2>1, <2>2
<1>3. ASSUME NEW u \in Tasks, u = calls[c].task,
             ExpireTask(c) \/ ExpireClarification(c) \/ WithdrawInCancel(c)
               \/ RequestCancel(c) \/ FinalizeCancel(c)
      PROVE  Bound(t) /\ Stands(t)
  <2>1. CASE u = t
    <3>1. actions'[t] \in {actions[t], Rewrite(t, "prepared", "expired"), Rewrite(t, "prepared", "cancelled")}
      BY <1>0, <1>3, <2>1 DEF ExpireTask, ExpireClarification, WithdrawInCancel, Withdraw, RequestCancel,
                              FinalizeCancel
    <3>2. \A i \in DOMAIN actions[t] :
            /\ actions[t][i].state = "prepared" => actions'[t][i].state # "in_flight"
            /\ actions'[t][i].started = actions[t][i].started
      BY <3>1, WithdrawnIsNotStarted DEF ActionStates
    <3>3. \/ tasks'[t] = tasks[t]
          \/ tasks' = [tasks EXCEPT ![t].state = "expired"]
          \/ tasks' = [tasks EXCEPT ![t].cancel = TRUE] /\ tasks[t].state # "absent"
          \/ /\ tasks' = [tasks EXCEPT ![t].state = "cancelled"]
             /\ tasks[t].state \in {"active", "recovery_required", "awaiting_clarification"}
      BY <1>0, <1>3, <2>1 DEF ExpireTask, ExpireClarification, WithdrawInCancel, Withdraw, RequestCancel,
                              FinalizeCancel
    <3>4. /\ tasks[t].cancel => tasks'[t].cancel
          /\ tasks'[t].cancel => tasks[t].cancel \/ tasks[t].state # "absent"
          /\ \/ tasks'[t].state \in {tasks[t].state, "expired"}
             \/ /\ tasks'[t].state = "cancelled"
                /\ tasks[t].state \in {"active", "recovery_required", "awaiting_clarification"}
      BY <1>0, <3>3 DEF TaskRow
    <3> QED BY <3>2, <3>4 DEF Bound, Stands
  <2>2. CASE u # t
    <3>1. tasks'[t] = tasks[t] /\ actions'[t] = actions[t]
      BY <1>0, <1>3, <2>2 DEF ExpireTask, ExpireClarification, WithdrawInCancel, Withdraw, RequestCancel,
                              FinalizeCancel
    <3> QED BY <3>1, KeptTask
  <2> QED BY <2>1, <2>2
<1>4. ASSUME StopAll(c) \/ CancelActiveTasks(c) PROVE Bound(t) /\ Stands(t)
  <2>1. actions'[t] = actions[t] BY <1>4 DEF StopAll, CancelActiveTasks
  <2>2. tasks'[t] = tasks[t] \/ (t \in PendingTasks /\ tasks'[t] = [tasks[t] EXCEPT !.cancel = TRUE])
    BY <1>4 DEF StopAll, CancelActiveTasks, RequestAll
  <2>3. /\ tasks'[t].state = tasks[t].state
        /\ tasks[t].cancel => tasks'[t].cancel
        /\ tasks'[t].cancel => tasks[t].cancel \/ tasks[t].state # "absent"
    BY <1>0, <2>2 DEF TaskRow, PendingTasks, Pending
  <2> QED BY <2>1, <2>3 DEF Bound, Stands
<1>5. ASSUME FinalizeStop(c) PROVE Bound(t) /\ Stands(t)
  <2>1. CASE t \in calls[c].stop
    <3>1. /\ tasks'[t] = [tasks[t] EXCEPT !.state = "cancelled"]
          /\ actions'[t] = Rewrite(t, "prepared", "cancelled")
          /\ tasks[t].state \notin {"succeeded", "failed"}
      BY <1>5, <2>1 DEF FinalizeStop, SignalledStop
    <3>2. tasks'[t].state = "cancelled" /\ tasks'[t].cancel = tasks[t].cancel BY <1>0, <3>1 DEF TaskRow
    <3>3. \A i \in DOMAIN actions[t] :
            /\ actions[t][i].state = "prepared" => actions'[t][i].state # "in_flight"
            /\ actions'[t][i].started = actions[t][i].started
      BY <3>1, WithdrawnIsNotStarted DEF ActionStates
    <3> QED BY <3>1, <3>2, <3>3 DEF Bound, Stands
  <2>2. CASE t \notin calls[c].stop BY <1>5, <2>2, KeptTask DEF FinalizeStop
  <2> QED BY <2>1, <2>2
<1>6. CallsNameTasks /\ (ExpireTask(c) \/ ExpireClarification(c) \/ WithdrawInCancel(c)
                         \/ RequestCancel(c) \/ FinalizeCancel(c))
      => calls[c].task \in Tasks
  BY DEF CallsNameTasks, ExpireTask, ExpireClarification, WithdrawInCancel, RequestCancel, FinalizeCancel
<1> QED BY <1>1, <1>2, <1>3, <1>4, <1>5, <1>6 DEF CallStep

LEMMA NextStops ==
  ASSUME LedgerAssumption, TypeOK, CallsNameTasks, SignalledStop, [Next]_vars, NEW t \in Tasks
  PROVE  Bound(t) /\ Stands(t)
<1>0. tasks[t] \in TaskRow /\ DOMAIN tasks = Tasks /\ DOMAIN actions = Tasks BY DEF TypeOK
<1>1. ASSUME NEW u \in Tasks, ActionStep(u) \/ ClarificationStep(u) \/ Create(u) \/ SignalCancel(u) \/ TaskAges(u)
      PROVE  Bound(t) /\ Stands(t)
  <2>1. CASE t = u /\ ActionStep(u) BY <2>1, ActionStepStops
  <2>2. CASE t = u /\ ~ActionStep(u)
    <3>1. UNCHANGED actions
      BY <1>1, <2>2 DEF ClarificationStep, AwaitClarification, CancelClarification, Withdraw,
           RecordClarificationDelivery, ClarificationLapses, Create, SignalCancel, TaskAges
    <3>2. \/ tasks'[t] = tasks[t]
          \/ tasks' = [tasks EXCEPT ![t].state = "active"] /\ tasks[t].state = "absent"
          \/ tasks' = [tasks EXCEPT ![t].state = "awaiting_clarification"]
             /\ tasks[t].state = "active" /\ ~tasks[t].cancel
          \/ tasks' = [tasks EXCEPT ![t].state = "cancelled"] /\ tasks[t].state = "awaiting_clarification"
          \/ tasks' = [tasks EXCEPT ![t].cancel = TRUE] /\ tasks[t].state # "absent"
          \/ tasks' = [tasks EXCEPT ![t].aged = TRUE]
      <4>1. ClarificationStep(t) =>
              \/ tasks'[t] = tasks[t]
              \/ tasks' = [tasks EXCEPT ![t].state = "awaiting_clarification"]
                 /\ tasks[t].state = "active" /\ ~tasks[t].cancel
              \/ tasks' = [tasks EXCEPT ![t].state = "cancelled"] /\ tasks[t].state = "awaiting_clarification"
        BY DEF ClarificationStep, AwaitClarification, CanAwaitClarification, CancelClarification,
               Withdraw, RecordClarificationDelivery, ClarificationLapses
      <4>2. Create(t) => tasks' = [tasks EXCEPT ![t].state = "active"] /\ tasks[t].state = "absent"
        BY DEF Create
      <4>3. SignalCancel(t) => tasks' = [tasks EXCEPT ![t].cancel = TRUE] /\ tasks[t].state # "absent"
        BY DEF SignalCancel
      <4>4. TaskAges(t) => tasks' = [tasks EXCEPT ![t].aged = TRUE] BY DEF TaskAges
      <4> QED BY <1>1, <2>2, <4>1, <4>2, <4>3, <4>4
    <3>3. tasks[t].state = "absent" => ~tasks[t].cancel BY DEF SignalledStop
    <3> QED BY <1>0, <3>1, <3>2, <3>3 DEF Bound, Stands, TaskRow
  <2>3. CASE t # u
    <3>1. tasks'[t] = tasks[t] /\ actions'[t] = actions[t]
      BY <1>0, <1>1, <2>3 DEF ActionStep, RecordStaleAttempt, Prepare, Claim, Reconcile,
           ResumeNativePlan, MarkExecutionStarted, Finish, MarkInDoubt, Complete,
           ClarificationStep, AwaitClarification, CancelClarification, Withdraw,
           RecordClarificationDelivery, ClarificationLapses, Create, SignalCancel, TaskAges
    <3> QED BY <3>1, KeptTask
  <2> QED BY <1>1, <2>1, <2>2, <2>3
<1>2. ASSUME NEW S \in SUBSET Callers, CallersDie(S) PROVE Bound(t) /\ Stands(t)
  BY <1>2, KeptTask DEF CallersDie
<1>3. ASSUME RecoverInFlight PROVE Bound(t) /\ Stands(t)
  <2>1. actions'[t] = Rewrite(t, "in_flight", "in_doubt") BY <1>3 DEF RecoverInFlight
  <2>2. \A i \in DOMAIN actions[t] :
          /\ actions[t][i].state = "prepared" => actions'[t][i].state # "in_flight"
          /\ actions'[t][i].started = actions[t][i].started
    BY <2>1, WithdrawnIsNotStarted DEF ActionStates
  <2>3. \/ tasks'[t] = tasks[t]
        \/ tasks[t].state = "active" /\ tasks'[t] = [tasks[t] EXCEPT !.state = "recovery_required"]
    <3>1. tasks'[t] \in {tasks[t], RequireRecovery(tasks[t])} BY <1>3 DEF RecoverInFlight
    <3> QED BY <3>1 DEF RequireRecovery
  <2>4. CASE tasks'[t] = tasks[t] BY <2>2, <2>4 DEF Bound, Stands
  <2>5. CASE tasks[t].state = "active" /\ tasks'[t] = [tasks[t] EXCEPT !.state = "recovery_required"]
    BY <1>0, <2>2, <2>5 DEF Bound, Stands, TaskRow
  <2> QED BY <2>3, <2>4, <2>5
<1>4. CASE UNCHANGED vars BY <1>4, KeptTask DEF vars
<1> QED BY <1>1, <1>2, <1>3, <1>4, CallStepStops DEF Next

\* A call stands before its last update of a stop only after it signalled it.
LEMMA StopsAreSignalled ==
  ASSUME LedgerAssumption, TypeOK, CallsNameTasks, SignalledStop, [Next]_vars
  PROVE  SignalledStop'
<1>0. \A t \in Tasks : Bound(t) /\ Stands(t) BY NextStops
<1>1. \A t \in Tasks : tasks'[t].cancel => tasks'[t].state # "absent"
  BY <1>0 DEF Stands, SignalledStop
<1>2. \A t \in Tasks : tasks[t].cancel /\ tasks[t].state \notin {"succeeded", "failed"} =>
        tasks'[t].cancel /\ tasks'[t].state \notin {"succeeded", "failed"}
  BY <1>0 DEF Bound
<1>3. ASSUME NEW c \in Callers, calls'[c].pc = "finalize_stop"
      PROVE  \A t \in calls'[c].stop : tasks'[t].cancel /\ tasks'[t].state \notin {"succeeded", "failed"}
  <2>0. /\ \A d \in Callers : calls[d] \in Call
        /\ DOMAIN calls = Callers
    BY DEF TypeOK
  <2>1. CASE calls'[c] = calls[c]
    <3>1. calls[c].stop \subseteq Tasks BY <2>0 DEF Call
    <3> QED BY <1>2, <1>3, <2>1, <3>1 DEF SignalledStop
  <2>2. CASE CancelActiveTasks(c)
    <3>1. calls'[c].stop = PendingTasks BY <2>0, <2>2 DEF CancelActiveTasks, IdleCall
    <3>2. \A t \in PendingTasks : tasks'[t] = [tasks[t] EXCEPT !.cancel = TRUE]
      BY <2>2 DEF CancelActiveTasks, RequestAll, PendingTasks
    <3>3. \A t \in PendingTasks : tasks[t] \in TaskRow /\ tasks[t].state \notin {"succeeded", "failed"}
      BY DEF PendingTasks, Pending, TypeOK
    <3>4. \A t \in PendingTasks : tasks'[t].cancel /\ tasks'[t].state = tasks[t].state
      BY <3>2, <3>3 DEF TaskRow
    <3> QED BY <3>1, <3>3, <3>4
  <2>3. CASE calls'[c] # calls[c] /\ ~CancelActiveTasks(c)
    <3>1. ASSUME NEW d \in Callers, d # c, CallStep(d) PROVE calls'[c] = calls[c]
      <4>1. Over(d) => calls'[c] = calls[c] BY <2>0, <3>1 DEF Over
      <4>2. \A s : Returned(d, s) => calls'[c] = calls[c] BY <2>0, <3>1, <4>1 DEF Returned
      <4>3. \A t : ReturnTask(d, t) => calls'[c] = calls[c] BY <2>0, <3>1 DEF ReturnTask
      <4>4. CASE \E t \in Tasks : \/ CallTask(d, t) \/ Cancel(d, t)
                                 \/ \E k \in DOMAIN clars[t] : ResumeClarification(d, t, k)
        BY <2>0, <3>1, <4>3, <4>4 DEF CallTask, Cancel, ResumeClarification
      <4>5. CASE ReadTask(d) \/ ExpireTask(d) \/ ReadClarification(d) \/ ExpireClarification(d)
        BY <2>0, <3>1, <4>2, <4>5 DEF ReadTask, ExpireTask, ReadClarification, ExpireClarification
      <4>6. CASE WithdrawInCancel(d) \/ RequestCancel(d) \/ FinalizeCancel(d)
        BY <2>0, <3>1, <4>1, <4>6 DEF WithdrawInCancel, RequestCancel, FinalizeCancel
      <4>7. CASE StopAll(d) \/ CancelActiveTasks(d) \/ FinalizeStop(d) \/ StopReturns(d)
        BY <2>0, <3>1, <4>7 DEF StopAll, CancelActiveTasks, FinalizeStop, StopReturns
      <4> QED BY <3>1, <4>4, <4>5, <4>6, <4>7 DEF CallStep
    <3>3. ASSUME Over(c) PROVE calls'[c].pc # "finalize_stop"
      <4>1. CASE calls' = [calls EXCEPT ![c] = IF calls[c].stop = {} THEN IdleCall
                             ELSE [IdleCall EXCEPT !.pc = "stopped", !.stop = calls[c].stop]]
        BY <2>0, <4>1 DEF IdleCall
      <4>2. CASE \E t \in calls[c].targets :
                   calls' = [calls EXCEPT ![c] = [IdleCall EXCEPT
                     !.pc = "read", !.task = t, !.then = "cancel",
                     !.targets = calls[c].targets \ {t}, !.stop = calls[c].stop]]
        BY <2>0, <4>2 DEF IdleCall
      <4> QED BY <3>3, <4>1, <4>2 DEF Over
    <3>2. ASSUME NEW s, Returned(c, s) PROVE calls'[c].pc # "finalize_stop"
      <4>1. CASE calls[c].then = "return" BY <3>2, <3>3, <4>1 DEF Returned
      <4>2. CASE calls[c].then # "return"
        <5>1. calls'[c] = [calls[c] EXCEPT !.pc = IF s = "awaiting_clarification"
                             THEN "cancel_clarification" ELSE "request_cancel"]
          BY <2>0, <3>2, <4>2 DEF Returned
        <5> QED BY <2>0, <5>1 DEF Call
      <4> QED BY <4>1, <4>2
    <3>4. ~CallStep(c)
      <4>1. \A t \in Tasks : CallTask(c, t) \/ Cancel(c, t) => calls'[c].pc # "finalize_stop"
        BY <2>0 DEF CallTask, Cancel, ReturnTask, IdleCall
      <4>2. \A t \in Tasks : \A k \in DOMAIN clars[t] :
              ResumeClarification(c, t, k) => calls'[c].pc # "finalize_stop"
        BY <2>0 DEF ResumeClarification, ReturnTask, IdleCall
      <4>3. ReadTask(c) \/ ExpireTask(c) \/ ReadClarification(c) \/ ExpireClarification(c)
            => calls'[c].pc # "finalize_stop"
        BY <2>0, <3>2 DEF ReadTask, ExpireTask, ReadClarification, ExpireClarification, Call
      <4>4. WithdrawInCancel(c) \/ RequestCancel(c) \/ FinalizeCancel(c) => calls'[c].pc # "finalize_stop"
        <5>1. WithdrawInCancel(c) \/ FinalizeCancel(c) => Over(c) BY DEF WithdrawInCancel, FinalizeCancel
        <5>2. RequestCancel(c) => Over(c) \/ calls' = [calls EXCEPT ![c].pc = "finalize_cancel"]
          BY DEF RequestCancel
        <5>3. calls' = [calls EXCEPT ![c].pc = "finalize_cancel"] => calls'[c].pc # "finalize_stop"
          BY <2>0 DEF Call
        <5> QED BY <3>3, <5>1, <5>2, <5>3
      <4>5. StopAll(c) \/ FinalizeStop(c) \/ StopReturns(c) => calls'[c].pc # "finalize_stop"
        <5>1. StopAll(c) => calls'[c].pc = "read" BY <2>0 DEF StopAll, IdleCall
        <5>2. FinalizeStop(c) => calls'[c].pc = "stopped" BY <2>0 DEF FinalizeStop, Call
        <5>3. StopReturns(c) => calls'[c].pc = "idle" BY <2>0 DEF StopReturns, IdleCall
        <5> QED BY <5>1, <5>2, <5>3
      <4> QED BY <1>3, <2>3, <4>1, <4>2, <4>3, <4>4, <4>5 DEF CallStep
    <3>5. \A d \in Callers : ~CallStep(d) BY <2>3, <3>1, <3>4
    <3>6. ASSUME NEW S \in SUBSET Callers, CallersDie(S) PROVE calls'[c].pc # "finalize_stop"
      BY <2>3, <3>6 DEF CallersDie, IdleCall
    <3>7. UNCHANGED calls
      <4>1. ASSUME NEW t \in Tasks, Create(t) \/ ActionStep(t) \/ ClarificationStep(t) \/ SignalCancel(t) \/ TaskAges(t)
            PROVE UNCHANGED calls
        BY <4>1 DEF ActionStep, RecordStaleAttempt, Prepare, Claim, Reconcile,
           ResumeNativePlan, MarkExecutionStarted, Finish, MarkInDoubt, Complete,
           ClarificationStep, AwaitClarification, CancelClarification, Withdraw,
           RecordClarificationDelivery, ClarificationLapses, Create, SignalCancel, TaskAges
      <4>2. ASSUME RecoverInFlight PROVE UNCHANGED calls BY <4>2 DEF RecoverInFlight
      <4>3. CASE UNCHANGED vars BY <4>3 DEF vars
      <4> QED BY <1>3, <3>5, <3>6, <4>1, <4>2, <4>3 DEF Next
    <3> QED BY <2>3, <3>7
  <2> QED BY <2>1, <2>2, <2>3
<1> QED BY <1>1, <1>3 DEF SignalledStop

LEMMA StopInvariant == Spec => [](TypeOK /\ CallsNameTasks /\ SignalledStop)
<1>1. Init => SignalledStop BY DEF Init, SignalledStop, IdleCall
<1>2. TypeOK /\ CallsNameTasks /\ SignalledStop /\ [Next]_vars => SignalledStop'
  BY StopsAreSignalled, LedgerAssumption
<1> QED BY <1>1, <1>2, TypeCorrect, PTL DEF Spec

\* After request_cancel nothing is claimed or started for the task, the intent is never taken
\* back, and the task only ends, expires or is held for recovery.
THEOREM StopsBind == Spec => StopIsBinding
<1>1. TypeOK /\ CallsNameTasks /\ SignalledStop /\ [Next]_vars
      => [\A t \in Tasks : tasks[t].cancel =>
            /\ tasks'[t].cancel
            /\ tasks'[t].state \in {tasks[t].state, "cancelled", "expired", "recovery_required"}
            /\ \A i \in DOMAIN actions[t] :
                 /\ actions[t][i].state = "prepared" => actions'[t][i].state # "in_flight"
                 /\ actions'[t][i].started = actions[t][i].started]_vars
  BY NextStops, LedgerAssumption DEF Bound
<1> QED BY <1>1, StopInvariant, PTL DEF Spec, StopIsBinding

\* complete and the stops settle a task once: cancel_active_tasks, which writes its last update
\* without asking for the state, finds no task that meanwhile succeeded or failed, for a stop
\* intent was recorded before it.
THEOREM OutcomesStand == Spec => OutcomeIsNotRevised
<1>1. TypeOK /\ CallsNameTasks /\ SignalledStop /\ [Next]_vars
      => [\A t \in Tasks : tasks[t].state \in {"succeeded", "failed", "cancelled"} =>
            tasks'[t].state \in {tasks[t].state, "expired"}]_vars
  BY NextStops, LedgerAssumption DEF Stands
<1> QED BY <1>1, StopInvariant, PTL DEF Spec, OutcomeIsNotRevised
-----------------------------------------------------------------------------
(* The processes use the ledger by its operations, and only those.          *)

\* A run has one thread, which holds the guard; the row it acts on exists.
Running == {"entered", "resuming", "step", "acting", "bound", "claimed",
            "started", "acted", "failing", "settling", "leaving"}
OnRow   == {"bound", "claimed", "started", "acted"}

Manned ==
  /\ DOMAIN run = Runners
  /\ \A r \in Runners :
       /\ DOMAIN run[r] = {"pc", "task", "row"} /\ run[r].pc \in Running \cup {"idle"}
       /\ run[r].pc # "idle" => guard = r /\ run[r].task \in Tasks
       /\ run[r].pc \in OnRow => run[r].row \in DOMAIN actions[run[r].task]

LEMMA AppendsRow ==
  ASSUME TypeOK, NEW t \in Tasks, NEW spec \in ActionSpecs, Prepare(t, spec)
  PROVE  /\ Len(actions[t]) + 1 \in DOMAIN actions'[t]
         /\ \A u \in Tasks : DOMAIN actions[u] \subseteq DOMAIN actions'[u]
         /\ \A u \in Tasks : \A i \in DOMAIN actions[u] : actions'[u][i] = actions[u][i]
<1> DEFINE row == NewRow(spec, "prepared", FALSE)
<1>1. actions[t] \in Seq(ActionRow) BY DEF TypeOK
<1> HIDE DEF row
<1>2. /\ \A i \in DOMAIN actions[t] : Append(actions[t], row)[i] = actions[t][i]
      /\ DOMAIN Append(actions[t], row) = DOMAIN actions[t] \cup {Len(actions[t]) + 1}
  BY <1>1
<1>3. actions' = [actions EXCEPT ![t] = Append(actions[t], row)] BY DEF Prepare, row
<1> QED BY <1>2, <1>3 DEF TypeOK

LEMMA RunnerUsesLedger ==
  ASSUME AgencyAssumption, Manned, NEW r \in Runners, RunnerStep(r)
  PROVE  [Next]_vars
<1> DEFINE t == run[r].task
<1>0. r \in Callers BY DEF AgencyAssumption
<1>1. \A pc \in Running : At(r, pc) => t \in Tasks BY DEF Manned, At, Running
<1>2. \A pc \in OnRow : At(r, pc) => t \in Tasks /\ run[r].row \in DOMAIN actions[t]
  BY <1>1 DEF Manned, At, OnRow, Running
<1>3. CASE StartRun(r)
  <2>1. t \in Tasks BY <1>1, <1>3 DEF StartRun, Running
  <2> QED BY <1>0, <1>3, <2>1 DEF StartRun, Next, CallStep
<1>4. CASE ResumeRun(r)
  <2>1. t \in Tasks BY <1>1, <1>4 DEF ResumeRun, Running
  <2> QED BY <1>4, <2>1 DEF ResumeRun, Next, ActionStep
<1>5. CASE NextStep(r)
  <2>1. t \in Tasks BY <1>1, <1>5 DEF NextStep, Running
  <2> QED BY <1>0, <1>5, <2>1 DEF NextStep, Next, CallStep
<1>6. CASE FinishRun(r)
  <2>1. t \in Tasks BY <1>1, <1>6 DEF FinishRun, Running
  <2> QED BY <1>6, <2>1 DEF FinishRun, Next, ActionStep
<1>7. CASE ReadFailed(r)
  <2>1. t \in Tasks BY <1>1, <1>7 DEF ReadFailed, Running
  <2> QED BY <1>0, <1>7, <2>1 DEF ReadFailed, Next, CallStep
<1>8. CASE FailRun(r)
  <2>1. t \in Tasks BY <1>1, <1>8 DEF FailRun, Running
  <2> QED BY <1>8, <2>1 DEF FailRun, Next, ActionStep
<1>9. CASE LeaveRun(r) BY <1>9 DEF LeaveRun
<1>10. CASE PrepareRow(r)
  <2>1. t \in Tasks BY <1>1, <1>10 DEF PrepareRow, Running
  <2> QED BY <1>10, <2>1 DEF PrepareRow, Next, ActionStep
<1>11. CASE ClaimRow(r)
  <2>1. t \in Tasks /\ run[r].row \in DOMAIN actions[t] BY <1>2, <1>11 DEF ClaimRow, OnRow
  <2> QED BY <1>11, <2>1 DEF ClaimRow, Next, ActionStep
<1>12. CASE StartRow(r)
  <2>1. t \in Tasks /\ run[r].row \in DOMAIN actions[t] BY <1>2, <1>12 DEF StartRow, OnRow
  <2> QED BY <1>12, <2>1 DEF StartRow, Next, ActionStep
<1>13. CASE Refrain(r)
  <2>1. t \in Tasks /\ run[r].row \in DOMAIN actions[t] BY <1>2, <1>13 DEF Refrain, OnRow
  <2> QED BY <1>13, <2>1 DEF Refrain, Next, ActionStep
<1>14. CASE PhysicalEffect(r) BY <1>14 DEF PhysicalEffect
<1>15. CASE Verify(r)
  <2>1. t \in Tasks /\ run[r].row \in DOMAIN actions[t] BY <1>2, <1>15 DEF Verify, OnRow
  <2> QED BY <1>15, <2>1 DEF Verify, Next, ActionStep
<1> QED
  BY <1>3, <1>4, <1>5, <1>6, <1>7, <1>8, <1>9, <1>10, <1>11, <1>12, <1>13, <1>14, <1>15 DEF RunnerStep

LEMMA OthersUseLedger ==
  ASSUME AgencyAssumption,
         \/ \E r \in Runners, t \in Tasks : Enter(r, t, "entered") \/ Enter(r, t, "resuming")
         \/ \E c \in Callers : Continue(c) \/ Request(c)
         \/ \E t \in Tasks : OwnerStep(t) \/ Passes(t)
         \/ \E p \in Procs : Crash(p) \/ Start(p)
  PROVE  [Next]_vars
<1>1. ASSUME NEW r \in Runners, NEW t \in Tasks, Enter(r, t, "entered") \/ Enter(r, t, "resuming")
      PROVE  Next
  <2>1. r \in Callers BY DEF AgencyAssumption
  <2> QED BY <1>1, <2>1 DEF Enter, Next, CallStep
<1>2. ASSUME NEW c \in Callers, Continue(c) \/ Request(c) PROVE Next
  BY <1>2 DEF Continue, Request, Next, CallStep
<1>3. ASSUME NEW t \in Tasks, OwnerStep(t) PROVE Next
  BY <1>3 DEF OwnerStep, Next, ActionStep, ClarificationStep
<1>4. ASSUME NEW t \in Tasks, Passes(t) PROVE Next
  BY <1>4 DEF Passes, Next, ClarificationStep
<1>5. ASSUME NEW p \in Procs, Crash(p) PROVE [Next]_vars
  <2>1. Threads(p) \in SUBSET Callers BY DEF Threads
  <2> QED BY <1>5, <2>1 DEF Crash, CallersDie, Next
<1>6. ASSUME NEW p \in Procs, Start(p) PROVE [Next]_vars
  BY <1>6 DEF Start, Next
<1> QED BY <1>1, <1>2, <1>3, <1>4, <1>5, <1>6

\* What the thread of a run does with its own program counter and the guard.
LEMMA RunMoves ==
  ASSUME Manned, NEW r \in Runners, RunnerStep(r)
  PROVE  /\ run[r].pc \in Running
         /\ \/ run' = [run EXCEPT ![r] = IdleRun]
            \/ /\ UNCHANGED guard
               /\ \E pc \in Running : run' = [run EXCEPT ![r].pc = pc] /\ (pc \in OnRow => run[r].pc \in OnRow)
            \/ PrepareRow(r) /\ run' = [run EXCEPT ![r].pc = "bound", ![r].row = Len(actions[run[r].task]) + 1]
<1> USE DEF At, Goto, Leave, Fail, Running, OnRow
<1>3. CASE StartRun(r) BY <1>3 DEF StartRun
<1>4. CASE ResumeRun(r) BY <1>4 DEF ResumeRun
<1>5. CASE NextStep(r) BY <1>5 DEF NextStep
<1>6. CASE FinishRun(r) BY <1>6 DEF FinishRun
<1>7. CASE ReadFailed(r) BY <1>7 DEF ReadFailed
<1>8. CASE FailRun(r) BY <1>8 DEF FailRun
<1>9. CASE LeaveRun(r) BY <1>9 DEF LeaveRun
<1>10. CASE PrepareRow(r) BY <1>10 DEF PrepareRow
<1>11. CASE ClaimRow(r) BY <1>11 DEF ClaimRow
<1>12. CASE StartRow(r) BY <1>12 DEF StartRow
<1>13. CASE Refrain(r) BY <1>13 DEF Refrain
<1>14. CASE PhysicalEffect(r) BY <1>14 DEF PhysicalEffect
<1>15. CASE Verify(r) BY <1>15 DEF Verify
<1> QED
  BY <1>3, <1>4, <1>5, <1>6, <1>7, <1>8, <1>9, <1>10, <1>11, <1>12, <1>13, <1>14, <1>15 DEF RunnerStep

LEMMA MannedKept ==
  ASSUME AgencyAssumption, TypeOK, RowsStep, Manned, [AgencyNext]_avars
  PROVE  Manned'
<1>0. \A t \in Tasks : DOMAIN actions[t] \subseteq DOMAIN actions'[t] BY DEF RowsStep
<1>1. ASSUME NEW r \in Runners, RunnerStep(r) PROVE Manned'
  <2>1. run[r].pc \in Running /\ guard = r /\ run[r].task \in Tasks
    BY <1>1, RunMoves DEF Manned, Running
  <2>2. \A q \in Runners : q # r => run[q].pc = "idle"
    BY <2>1 DEF Manned, Running
  <2>3. CASE run' = [run EXCEPT ![r] = IdleRun]
    BY <2>2, <2>3 DEF Manned, IdleRun, OnRow
  <2>4. ASSUME UNCHANGED guard, NEW pc \in Running,
               run' = [run EXCEPT ![r].pc = pc], pc \in OnRow => run[r].pc \in OnRow
        PROVE  Manned'
    <3>1. /\ run'[r].pc = pc /\ run'[r].task = run[r].task /\ run'[r].row = run[r].row
          /\ DOMAIN run'[r] = {"pc", "task", "row"} /\ DOMAIN run' = Runners
          /\ \A q \in Runners : q # r => run'[q] = run[q]
      BY <2>4 DEF Manned
    <3> QED BY <1>0, <2>1, <2>2, <2>4, <3>1 DEF Manned, OnRow
  <2>5. CASE PrepareRow(r) /\ run' = [run EXCEPT ![r].pc = "bound", ![r].row = Len(actions[run[r].task]) + 1]
    <3>1. /\ run'[r].pc = "bound" /\ run'[r].task = run[r].task /\ run'[r].row = Len(actions[run[r].task]) + 1
          /\ DOMAIN run'[r] = {"pc", "task", "row"} /\ DOMAIN run' = Runners
          /\ \A q \in Runners : q # r => run'[q] = run[q]
      BY <2>5 DEF Manned
    <3>2. run'[r].pc # "failing" BY <3>1
    <3>3. \E spec \in ActionSpecs : Prepare(run[r].task, spec)
      BY <2>5, <3>1 DEF PrepareRow, Fail, Goto, Manned
    <3>4. Len(actions[run[r].task]) + 1 \in DOMAIN actions'[run[r].task] BY <2>1, <3>3, AppendsRow
    <3>5. UNCHANGED guard BY <2>5 DEF PrepareRow
    <3> QED BY <2>1, <2>2, <3>1, <3>4, <3>5 DEF Manned, OnRow, Running
  <2> QED BY <1>1, <2>3, <2>4, <2>5, RunMoves
<1>2. ASSUME NEW r \in Runners, NEW t \in Tasks, Enter(r, t, "entered") \/ Enter(r, t, "resuming")
      PROVE  Manned'
  <2>1. PICK pc \in {"entered", "resuming"} :
          guard = None /\ guard' = r /\ run' = [run EXCEPT ![r] = [pc |-> pc, task |-> t, row |-> 0]]
    BY <1>2 DEF Enter
  <2>2. \A q \in Runners : run[q].pc = "idle" BY <2>1 DEF Manned, AgencyAssumption
  <2> QED BY <2>1, <2>2 DEF Manned, Running, OnRow
<1>3. ASSUME NEW p \in Procs, Crash(p) PROVE Manned'
  <2>1. ASSUME NEW r \in Runners PROVE run'[r] = IdleRun \/ (run'[r] = run[r] /\ (guard = r => guard' = r))
    BY <1>3 DEF Crash
  <2>2. DOMAIN run' = Runners BY <1>3 DEF Crash
  <2> QED BY <1>0, <2>1, <2>2 DEF Manned, IdleRun, Running, OnRow
<1>4. CASE UNCHANGED <<guard, run>> BY <1>0, <1>4 DEF Manned, OnRow, Running
<1> QED
  BY <1>1, <1>2, <1>3, <1>4 DEF AgencyNext, Continue, Request, OwnerStep, Passes, Start, avars

-----------------------------------------------------------------------------
(* The row of an action under way is its runner's alone.                    *)

\* No row in flight is touched, and none is lost.
Undisturbed ==
  \A t \in Tasks : \A i \in DOMAIN actions[t] :
    /\ i \in DOMAIN actions'[t]
    /\ actions[t][i].state = "in_flight" => actions'[t][i] = actions[t][i]

LEMMA WithdrawnUndisturbed ==
  ASSUME NEW new, \A t \in Tasks : actions'[t] \in {actions[t], Rewrite(t, "prepared", new)}
  PROVE  Undisturbed
BY DEF Rewrite, Undisturbed

LEMMA OthersKeepRows ==
  ASSUME TypeOK,
         \/ \E r \in Runners, t \in Tasks : Enter(r, t, "entered") \/ Enter(r, t, "resuming")
         \/ \E c \in Callers : Continue(c) \/ Request(c)
         \/ \E t \in Tasks : OwnerStep(t) \/ Passes(t)
         \/ \E p \in Procs : Crash(p) \/ Start(p)
         \/ UNCHANGED avars,
         guard # None
  PROVE  Undisturbed
<1>1. CASE UNCHANGED actions BY <1>1 DEF Undisturbed
<1>2. ASSUME NEW c \in Callers, ExpireTask(c) \/ FinalizeCancel(c)
      PROVE  Undisturbed
  <2>1. CASE ExpireTask(c)
    <3>1. \A u \in Tasks : actions'[u] \in {actions[u], Rewrite(u, "prepared", "expired")}
      BY <2>1 DEF ExpireTask, TypeOK
    <3> QED BY <3>1, WithdrawnUndisturbed
  <2>2. CASE FinalizeCancel(c)
    <3>1. \A u \in Tasks : actions'[u] \in {actions[u], Rewrite(u, "prepared", "cancelled")}
      BY <2>2 DEF FinalizeCancel, TypeOK
    <3> QED BY <3>1, WithdrawnUndisturbed
  <2> QED BY <1>2, <2>1, <2>2
<1>3. ASSUME NEW t \in Tasks, NEW b \in BOOLEAN, Complete(t, b)
      PROVE  Undisturbed
  <2>1. \A u \in Tasks : actions'[u] \in {actions[u], Rewrite(u, "prepared", "cancelled")}
    BY <1>3 DEF Complete, TypeOK
  <2> QED BY <2>1, WithdrawnUndisturbed
<1>4. ASSUME NEW c \in Callers, Continue(c) PROVE Undisturbed
  <2>1. \/ ExpireTask(c) \/ FinalizeCancel(c) \/ UNCHANGED actions
    BY <1>4 DEF Continue, ReadTask, ReadClarification, ExpireClarification, WithdrawInCancel, Withdraw,
                RequestCancel, StopReturns
  <2> QED BY <1>1, <1>2, <2>1
<1>5. ASSUME NEW c \in Callers, Request(c) PROVE UNCHANGED actions
  BY <1>5 DEF Request, StopAll, CallTask, Cancel, ResumeClarification
<1>6. ASSUME NEW t \in Tasks, OwnerStep(t) PROVE Undisturbed
  <2>1. \/ \E b \in BOOLEAN : Complete(t, b)
        \/ UNCHANGED actions
    BY <1>6 DEF OwnerStep, Create, SignalCancel, AwaitClarification, CancelClarification, Withdraw,
                RecordClarificationDelivery
  <2> QED BY <1>1, <1>3, <2>1
<1>7. ASSUME \/ \E r \in Runners, t \in Tasks : Enter(r, t, "entered") \/ Enter(r, t, "resuming")
             \/ \E t \in Tasks : Passes(t)
             \/ \E p \in Procs : Crash(p) \/ Start(p)
             \/ UNCHANGED avars
      PROVE  UNCHANGED actions
  BY <1>7 DEF Enter, CallTask, Passes, TaskAges, ClarificationLapses, Crash, Start, avars, vars
<1> QED BY <1>1, <1>4, <1>5, <1>6, <1>7

RowIsHeld ==
  \A r \in Runners :
    /\ run[r].pc \in {"claimed", "started", "acted"} =>
         actions[run[r].task][run[r].row].state = "in_flight"
    /\ run[r].pc = "claimed" => ~actions[run[r].task][run[r].row].started
    /\ run[r].pc \in {"started", "acted"} => actions[run[r].task][run[r].row].started

LEMMA RowIsKept ==
  ASSUME AgencyAssumption, TypeOK, NotExecutedMeansNotStarted, Manned, RowIsHeld, [AgencyNext]_avars
  PROVE  RowIsHeld'
<1>1. ASSUME NEW r \in Runners, RunnerStep(r) PROVE RowIsHeld'
  <2> DEFINE t == run[r].task
             i == run[r].row
  <2>1. run[r].pc \in Running /\ guard = r /\ t \in Tasks /\ (run[r].pc \in OnRow => i \in DOMAIN actions[t])
    BY <1>1, RunMoves DEF Manned, Running
  <2>2. \A q \in Runners : q # r => run[q].pc = "idle" /\ run'[q] = run[q]
    BY ZenonT(40), <1>1, <2>1, RunMoves DEF Manned, Running
  <2>3. /\ run'[r].pc \in OnRow => run'[r].task = t
        /\ run'[r].pc \in OnRow \ {"bound"} => run'[r].row = i
    <3>1. DOMAIN run = Runners /\ DOMAIN run[r] = {"pc", "task", "row"} BY DEF Manned
    <3>2. CASE run' = [run EXCEPT ![r] = IdleRun] BY <3>1, <3>2 DEF IdleRun, OnRow
    <3>3. CASE \E pc \in Running : run' = [run EXCEPT ![r].pc = pc] BY <3>1, <3>3
    <3>4. CASE run' = [run EXCEPT ![r].pc = "bound", ![r].row = Len(actions[run[r].task]) + 1]
      BY <3>1, <3>4
    <3> QED BY <1>1, <3>2, <3>3, <3>4, RunMoves
  <2>9. /\ \A pc : Goto(r, pc) => run'[r].pc = pc
        /\ Fail(r) => run'[r].pc = "failing"
        /\ Leave(r) => run'[r].pc = "idle"
    BY DEF Goto, Fail, Leave, IdleRun, Manned
  <2>4. CASE run'[r].pc \notin {"claimed", "started", "acted"}
    BY <2>2, <2>4 DEF RowIsHeld
  <2>5. CASE ClaimRow(r) /\ run'[r].pc \in {"claimed", "started", "acted"}
    <3>1. run'[r].pc = "claimed" /\ Claim(t, i, FALSE)
      BY <2>5, <2>9 DEF ClaimRow
    <3>2. i \in DOMAIN actions[t] /\ actions[t][i].state = "prepared" /\ actions[t][i] \in ActionRow
      <4>1. run[r].pc = "bound" BY <2>5 DEF ClaimRow, At
      <4>2. i \in DOMAIN actions[t] BY <2>1, <4>1 DEF OnRow
      <4> QED BY <2>1, <3>1, <4>2 DEF Claim, TypeOK
    <3>3. ~actions[t][i].started BY <2>1, <3>2 DEF NotExecutedMeansNotStarted
    <3>4. actions' = [actions EXCEPT ![t][i].state = "in_flight"] BY <3>1 DEF Claim
    <3>5. actions'[t][i].state = "in_flight" /\ actions'[t][i].started = actions[t][i].started
      BY <2>1, <3>2, <3>4 DEF TypeOK, ActionRow
    <3> QED BY <2>2, <2>3, <3>1, <3>3, <3>5 DEF RowIsHeld, OnRow
  <2>6. CASE StartRow(r) /\ run'[r].pc \in {"claimed", "started", "acted"}
    <3>1. run'[r].pc = "started" /\ MarkExecutionStarted(t, i)
      BY <2>6, <2>9 DEF StartRow
    <3>2. i \in DOMAIN actions[t] /\ actions[t][i].state = "in_flight" /\ actions[t][i] \in ActionRow
      BY <2>1, <2>6, <3>1 DEF StartRow, At, OnRow, MarkExecutionStarted, TypeOK
    <3>4. actions' = [actions EXCEPT ![t][i].started = TRUE] BY <3>1 DEF MarkExecutionStarted
    <3>5. actions'[t][i].state = "in_flight" /\ actions'[t][i].started
      BY <2>1, <3>2, <3>4 DEF TypeOK, ActionRow
    <3> QED BY <2>2, <2>3, <3>1, <3>5 DEF RowIsHeld, OnRow
  <2>7. CASE PhysicalEffect(r)
    <3>1. run[r].pc = "started" /\ run'[r].pc = "acted" /\ UNCHANGED actions
      BY <2>7 DEF PhysicalEffect, At, Goto, Manned, vars
    <3> QED BY <2>2, <2>3, <3>1 DEF RowIsHeld, OnRow
  <2>8. ASSUME run'[r].pc \in {"claimed", "started", "acted"}
        PROVE  ClaimRow(r) \/ StartRow(r) \/ PhysicalEffect(r)
    <3>1. PrepareRow(r) => run'[r].pc \in {"bound", "failing"}
      BY <2>9 DEF PrepareRow, Manned
    <3>2. StartRun(r) => run'[r].pc \in {"idle", "leaving", "step"} BY <2>9 DEF StartRun
    <3>3. ResumeRun(r) \/ Verify(r) => run'[r].pc \in {"idle", "failing", "step"} BY <2>9 DEF ResumeRun, Verify
    <3>4. NextStep(r) \/ ReadFailed(r) => run'[r].pc \in {"acting", "failing", "settling"}
      BY <2>9 DEF NextStep, ReadFailed
    <3>5. FinishRun(r) \/ FailRun(r) \/ LeaveRun(r) => run'[r].pc = "idle"
      BY <2>9 DEF FinishRun, FailRun, LeaveRun
    <3>6. Refrain(r) => run'[r].pc = "failing" BY <2>9 DEF Refrain
    <3> QED BY <1>1, <2>8, <3>1, <3>2, <3>3, <3>4, <3>5, <3>6 DEF RunnerStep
  <2> QED BY <2>4, <2>5, <2>6, <2>7, <2>8
<1>2. ASSUME \/ \E r \in Runners, t \in Tasks : Enter(r, t, "entered") \/ Enter(r, t, "resuming")
             \/ \E c \in Callers : Continue(c) \/ Request(c)
             \/ \E t \in Tasks : OwnerStep(t) \/ Passes(t)
             \/ \E p \in Procs : Crash(p) \/ Start(p)
             \/ UNCHANGED avars
      PROVE  RowIsHeld'
  <2>1. ASSUME NEW r \in Runners
        PROVE  run'[r] = run[r] \/ run'[r].pc \notin {"claimed", "started", "acted"}
    <3>1. CASE \E q \in Runners, t \in Tasks : Enter(q, t, "entered") \/ Enter(q, t, "resuming")
      BY <3>1 DEF Enter, Manned
    <3>2. CASE \E p \in Procs : Crash(p) BY <3>2 DEF Crash, IdleRun
    <3>3. CASE UNCHANGED run BY <3>3
    <3> QED BY <1>2, <3>1, <3>2, <3>3 DEF Continue, Request, OwnerStep, Passes, Start, avars
  <2>2. CASE guard = None
    <3>1. \A r \in Runners : run[r].pc = "idle" BY <2>2 DEF Manned, AgencyAssumption
    <3> QED BY <2>1, <3>1 DEF RowIsHeld
  <2>3. CASE guard # None
    <3>1. Undisturbed BY <1>2, <2>3, OthersKeepRows
    <3>2. \A r \in Runners : run[r].pc \in {"claimed", "started", "acted"} =>
            run[r].task \in Tasks /\ run[r].row \in DOMAIN actions[run[r].task]
      BY DEF Manned, OnRow
    <3> QED BY <2>1, <3>1, <3>2 DEF RowIsHeld, Undisturbed
  <2> QED BY <2>2, <2>3
<1> QED BY <1>1, <1>2 DEF AgencyNext

-----------------------------------------------------------------------------
(* What happened on the desktop is on record.                               *)

EffectsOnRecord ==
  /\ DOMAIN effects = Tasks /\ \A t \in Tasks : DOMAIN effects[t] = 1..MaxActions
  /\ \A t \in Tasks : DOMAIN actions[t] \subseteq 1..MaxActions
  /\ \A t \in Tasks : \A i \in 1..MaxActions :
       /\ effects[t][i] \in {0, 1}
       /\ effects[t][i] = 1 => i \in DOMAIN actions[t] /\ actions[t][i].started
  /\ \A r \in Runners : run[r].pc = "started" =>
       \A i \in 1..MaxActions : i = run[r].row => effects[run[r].task][i] = 0

\* The durable boundary is behind the row before the desktop is touched, and
\* the only row that crossed it without an effect is that of the runner.
LEMMA EffectsKept ==
  ASSUME TypeOK, RowsStep, Manned, RowIsHeld, EffectsOnRecord, [AgencyNext]_avars
  PROVE  EffectsOnRecord'
<1>1. \A t \in Tasks : \A i \in DOMAIN actions[t] :
        i \in DOMAIN actions'[t] /\ (actions[t][i].started => actions'[t][i].started)
  <2> SUFFICES ASSUME NEW t \in Tasks, NEW i \in DOMAIN actions[t]
               PROVE  i \in DOMAIN actions'[t] /\ (actions[t][i].started => actions'[t][i].started)
    OBVIOUS
  <2> QED BY DEF RowsStep, RowStep, NotReplayed
<1>0. \A t \in Tasks : DOMAIN actions'[t] \subseteq 1..MaxActions
  BY DEF RowsStep, EffectsOnRecord
<1>2. ASSUME NEW r \in Runners, PhysicalEffect(r) PROVE EffectsOnRecord'
  <2> DEFINE t == run[r].task
             i == run[r].row
  <2>1. run[r].pc = "started" /\ t \in Tasks /\ i \in DOMAIN actions[t] /\ actions[t][i].started /\ guard = r
    BY <1>2 DEF PhysicalEffect, At, Manned, OnRow, RowIsHeld
  <2>2. effects' = [effects EXCEPT ![t][i] = @ + 1] /\ UNCHANGED actions
    BY <1>2 DEF PhysicalEffect, vars
  <2>3. run'[r].pc = "acted" /\ \A q \in Runners : q # r => run'[q].pc = "idle"
    BY <1>2, <2>1 DEF PhysicalEffect, Goto, Manned
  <2>4. DOMAIN effects' = Tasks /\ \A u \in Tasks : DOMAIN effects'[u] = 1..MaxActions
    BY <2>1, <2>2 DEF EffectsOnRecord
  <2>5. ASSUME NEW u \in Tasks, NEW j \in 1..MaxActions
        PROVE  /\ effects'[u][j] \in {0, 1}
               /\ effects'[u][j] = 1 => j \in DOMAIN actions[u] /\ actions[u][j].started
    <3>1. CASE u = t /\ j = i
      <4>0. \A k \in 1..MaxActions : k = i => effects[t][k] = 0 BY <2>1 DEF EffectsOnRecord
      <4>1. effects[t][i] = 0 BY <3>1, <4>0
      <4>2. t \in DOMAIN effects /\ i \in DOMAIN effects[t] BY <2>1, <3>1 DEF EffectsOnRecord
      <4>3. effects'[t][i] = effects[t][i] + 1 BY <2>2, <4>2
      <4>4. effects'[t][i] = 1 BY <4>1, <4>3
      <4> QED BY <2>1, <2>2, <3>1, <4>4
    <3>2. CASE ~(u = t /\ j = i)
      <4>1. effects'[u][j] = effects[u][j] BY <2>1, <2>2, <3>2 DEF EffectsOnRecord
      <4> QED BY <4>1 DEF EffectsOnRecord
    <3> QED BY <3>1, <3>2
  <2> QED BY <1>0, <2>2, <2>3, <2>4, <2>5 DEF EffectsOnRecord
<1>3. ASSUME NEW r \in Runners, StartRow(r) PROVE EffectsOnRecord'
  <2> DEFINE t == run[r].task
             i == run[r].row
  <2>1. UNCHANGED effects BY <1>3 DEF StartRow, Unharmed
  <2>2. run[r].pc = "claimed" /\ t \in Tasks /\ ~actions[t][i].started /\ guard = r
    BY <1>3 DEF StartRow, At, Manned, RowIsHeld
  <2>3. run'[r].task = t /\ run'[r].row = i /\ \A q \in Runners : q # r => run'[q].pc = "idle"
    BY <1>3, <2>2 DEF StartRow, Goto, Fail, Manned
  <2>4. \A j \in 1..MaxActions : j = i => effects[t][j] = 0 BY <2>2 DEF EffectsOnRecord
  <2>5. \A q \in Runners : run'[q].pc = "started" => run'[q].task = t /\ run'[q].row = i
    BY <2>3
  <2> QED BY <1>0, <1>1, <2>1, <2>4, <2>5 DEF EffectsOnRecord
<1>4. ASSUME UNCHANGED effects,
             \A r \in Runners : run'[r] = run[r] \/ run'[r].pc # "started"
      PROVE  EffectsOnRecord'
  <2>1. \A t \in Tasks : \A i \in 1..MaxActions :
          /\ effects'[t][i] \in {0, 1}
          /\ effects'[t][i] = 1 => i \in DOMAIN actions'[t] /\ actions'[t][i].started
    BY <1>1, <1>4 DEF EffectsOnRecord
  <2> QED BY <1>0, <1>4, <2>1 DEF EffectsOnRecord
<1>5. ASSUME NEW r \in Runners, RunnerStep(r) PROVE EffectsOnRecord'
  <2>1. CASE ~PhysicalEffect(r) /\ ~StartRow(r)
    <3>1. UNCHANGED effects
      BY <1>5, <2>1 DEF RunnerStep, StartRun, ResumeRun, NextStep, FinishRun, ReadFailed, FailRun, LeaveRun,
                  PrepareRow, ClaimRow, Refrain, Verify, Unharmed
    <3>2. /\ \A pc : Goto(r, pc) => run'[r].pc = pc
          /\ Fail(r) => run'[r].pc = "failing"
          /\ Leave(r) => run'[r].pc = "idle"
      BY DEF Goto, Fail, Leave, IdleRun, Manned
    <3>3. PrepareRow(r) => run'[r].pc \in {"bound", "failing"} BY <3>2 DEF PrepareRow, Manned
    <3>4. StartRun(r) \/ ResumeRun(r) \/ NextStep(r) \/ FinishRun(r) => run'[r].pc # "started"
      BY <3>2 DEF StartRun, ResumeRun, NextStep, FinishRun
    <3>5. ReadFailed(r) \/ FailRun(r) \/ LeaveRun(r) => run'[r].pc # "started"
      BY <3>2 DEF ReadFailed, FailRun, LeaveRun
    <3>6. ClaimRow(r) \/ Refrain(r) \/ Verify(r) => run'[r].pc # "started"
      BY <3>2 DEF ClaimRow, Refrain, Verify
    <3>7. run'[r].pc # "started" BY <1>5, <2>1, <3>3, <3>4, <3>5, <3>6 DEF RunnerStep
    <3>8. \A q \in Runners : q # r => run'[q] = run[q]
      <4>1. \/ run' = [run EXCEPT ![r] = IdleRun]
            \/ \E pc \in Running : run' = [run EXCEPT ![r].pc = pc]
            \/ run' = [run EXCEPT ![r].pc = "bound", ![r].row = Len(actions[run[r].task]) + 1]
        BY <1>5, RunMoves
      <4> QED BY <4>1 DEF Manned
    <3> QED BY <1>4, <3>1, <3>7, <3>8
  <2> QED BY <1>2, <1>3, <2>1
<1>6. ASSUME \/ \E r \in Runners, t \in Tasks : Enter(r, t, "entered") \/ Enter(r, t, "resuming")
             \/ \E c \in Callers : Continue(c) \/ Request(c)
             \/ \E t \in Tasks : OwnerStep(t) \/ Passes(t)
             \/ \E p \in Procs : Crash(p) \/ Start(p)
             \/ UNCHANGED avars
      PROVE  EffectsOnRecord'
  <2>1. ASSUME NEW r \in Runners PROVE run'[r] = run[r] \/ run'[r].pc # "started"
    <3>1. CASE \E q \in Runners, t \in Tasks : Enter(q, t, "entered") \/ Enter(q, t, "resuming")
      BY <3>1 DEF Enter, Manned
    <3>2. CASE \E p \in Procs : Crash(p) BY <3>2 DEF Crash, IdleRun
    <3>3. CASE UNCHANGED run BY <3>3
    <3> QED BY <1>6, <3>1, <3>2, <3>3 DEF Continue, Request, OwnerStep, Passes, Start, avars
  <2>2. UNCHANGED effects
    BY <1>6 DEF Enter, Continue, Request, OwnerStep, Passes, Crash, Start, Unharmed, avars
  <2> QED BY <1>4, <2>1, <2>2
<1> QED BY <1>5, <1>6 DEF AgencyNext

AgencyInvariant == Manned /\ RowIsHeld /\ EffectsOnRecord

\* The processes change the ledger by its transactions only, one at a time: whatever threads run,
\* die and start, what is proved of the ledger holds of it.
LEMMA UsesTheLedger ==
  AgencySpec => /\ Init /\ [][Next]_vars
                /\ [](TypeOK /\ CallsNameTasks /\ NotExecutedMeansNotStarted /\ AgencyInvariant)
<1> USE AgencyAssumption, LedgerAssumption
<1>1. AgencyInit => Init /\ TypeOK /\ CallsNameTasks /\ NotExecutedMeansNotStarted /\ AgencyInvariant
  <2>1. Init => TypeOK /\ CallsNameTasks /\ NotExecutedMeansNotStarted
    BY InitType DEF Init, NotExecutedMeansNotStarted
  <2>2. AgencyInit => AgencyInvariant
    <3>1. AgencyInit => Manned /\ RowIsHeld BY DEF AgencyInit, Manned, RowIsHeld, IdleRun, OnRow
    <3>2. AgencyInit => \A t \in Tasks : DOMAIN actions[t] = {} BY DEF AgencyInit, Init
    <3>3. AgencyInit => EffectsOnRecord BY <3>2 DEF AgencyInit, EffectsOnRecord, IdleRun
    <3> QED BY <3>1, <3>3 DEF AgencyInvariant
  <2> QED BY <2>1, <2>2 DEF AgencyInit
<1>2. ASSUME Manned, [AgencyNext]_avars PROVE [Next]_vars
  <2>1. CASE \E r \in Runners : RunnerStep(r) BY <1>2, <2>1, RunnerUsesLedger
  <2>2. CASE UNCHANGED avars BY <2>2 DEF avars, vars
  <2> QED BY <1>2, <2>1, <2>2, OthersUseLedger DEF AgencyNext
<1>3. ASSUME TypeOK, CallsNameTasks, NotExecutedMeansNotStarted, AgencyInvariant, [AgencyNext]_avars
      PROVE  /\ [Next]_vars
             /\ (TypeOK /\ CallsNameTasks /\ NotExecutedMeansNotStarted /\ AgencyInvariant)'
  <2>1. [Next]_vars BY <1>2, <1>3 DEF AgencyInvariant
  <2>2. (TypeOK /\ CallsNameTasks)' BY <1>3, <2>1, NextType
  <2>3. RowsStep BY <1>3, <2>1, <2>2, NextRows
  <2>4. NotExecutedMeansNotStarted' BY <1>3, <2>3, QuietStaysQuiet
  <2>5. Manned' BY <1>3, <2>3, MannedKept DEF AgencyInvariant
  <2>6. RowIsHeld' BY <1>3, RowIsKept DEF AgencyInvariant
  <2>7. EffectsOnRecord' BY <1>3, <2>3, EffectsKept DEF AgencyInvariant
  <2> QED BY <2>1, <2>2, <2>4, <2>5, <2>6, <2>7 DEF AgencyInvariant
<1> QED BY <1>1, <1>3, PTL DEF AgencySpec

\* The processes that share the ledger change it by its transactions only, one at a time:
\* whatever threads run, die and start, all that is proved of the ledger holds of it.
THEOREM AgencyKeepsToTheLedger == AgencySpec => Spec
BY UsesTheLedger, PTL DEF Spec

\* The physical effect of an action (execute_action of desktop/agency.py, past
\* mark_execution_started) happens at most once, and its row says that it was started, whatever
\* crashes, restarts, stops and resumed plans come between.
THEOREM OneEffectPerAction == AgencySpec => []EffectAtMostOnce
<1>1. EffectsOnRecord => EffectAtMostOnce
  BY DEF EffectsOnRecord, EffectAtMostOnce
<1> QED BY <1>1, UsesTheLedger, PTL DEF AgencyInvariant

\* The execution guard keeps recovery, reconcile, cancel and expiry off the row of an action that
\* is under way: from its claim to its result only its runner writes it.
THEOREM TheActorKeepsItsRow == AgencySpec => []LiveActionKeepsItsClaim
<1>1. TypeOK /\ Manned /\ RowIsHeld => LiveActionKeepsItsClaim
  <2> SUFFICES ASSUME TypeOK, Manned, RowIsHeld, NEW r \in Runners, run[r].pc \in {"claimed", "started", "acted"}
               PROVE  /\ guard = r
                      /\ actions[run[r].task][run[r].row].state = "in_flight"
                      /\ (run[r].pc # "claimed") = actions[run[r].task][run[r].row].started
    BY DEF LiveActionKeepsItsClaim
  <2>1. /\ guard = r /\ run[r].task \in Tasks /\ run[r].row \in DOMAIN actions[run[r].task]
    <3>1. run[r].pc \in OnRow /\ run[r].pc # "idle" BY DEF OnRow
    <3> QED BY <3>1 DEF Manned
  <2>2. actions[run[r].task][run[r].row] \in ActionRow BY <2>1 DEF TypeOK
  <2>3. actions[run[r].task][run[r].row].started \in BOOLEAN BY <2>2 DEF ActionRow
  <2> QED BY <2>1, <2>3 DEF RowIsHeld
<1> QED BY <1>1, UsesTheLedger, PTL DEF AgencyInvariant

\* What happened on the desktop is never declared not executed, rejected or withdrawn.
THEOREM NoEffectGoesUntold == AgencySpec => []NoEffectIsDenied
<1>1. EffectsOnRecord /\ TypeOK /\ NotExecutedMeansNotStarted => NoEffectIsDenied
  <2> SUFFICES ASSUME EffectsOnRecord, TypeOK, NotExecutedMeansNotStarted,
                      NEW t \in Tasks, NEW i \in DOMAIN actions[t], effects[t][i] = 1
               PROVE  actions[t][i].state \notin {"prepared", "stale", "not_executed", "cancelled", "expired"}
    BY DEF NoEffectIsDenied
  <2>1. i \in 1..MaxActions BY DEF EffectsOnRecord
  <2>2. actions[t][i].started BY <2>1 DEF EffectsOnRecord
  <2> QED BY <2>2 DEF NotExecutedMeansNotStarted
<1> QED BY <1>1, UsesTheLedger, PTL DEF AgencyInvariant

-----------------------------------------------------------------------------
(* The budget: what was ever claimed is what was charged.                   *)

CountHolds(t) == tasks[t].count = Cardinality(Claimed(t)) /\ tasks[t].count <= Budget

\* Which rows were claimed, and what was charged for them, stays as it is.
ChargesStay(t) == tasks'[t].count = tasks[t].count /\ Claimed(t)' = Claimed(t)

LEMMA ChargesStayHold ==
  ASSUME NEW t \in Tasks, CountHolds(t), ChargesStay(t)
  PROVE  CountHolds(t)'
BY DEF CountHolds, ChargesStay

LEMMA ClaimsAreFinite ==
  ASSUME TypeOK, NEW t \in Tasks
  PROVE  IsFiniteSet(Claimed(t)) /\ Cardinality(Claimed(t)) \in Nat
<1>1. actions[t] \in Seq(ActionRow) BY DEF TypeOK
<1>2. DOMAIN actions[t] = 1..Len(actions[t]) /\ Len(actions[t]) \in Nat BY <1>1
<1>3. IsFiniteSet(DOMAIN actions[t]) BY <1>2, FS_Interval
<1>4. Claimed(t) \subseteq DOMAIN actions[t] BY DEF Claimed, InState
<1> QED BY <1>3, <1>4, FS_Subset, FS_CardinalityType

LEMMA SameClaims ==
  ASSUME NEW t \in Tasks, UNCHANGED actions
  PROVE  Claimed(t)' = Claimed(t)
BY DEF Claimed, InState

\* A statement over the rows of one state leaves claimed what was claimed.
LEMMA RewriteKeepsClaims ==
  ASSUME TypeOK, NEW t \in Tasks, NEW old \in ActionStates, NEW new \in ActionStates,
         (old \in ClaimedStates) = (new \in ClaimedStates),
         actions'[t] \in {actions[t], Rewrite(t, old, new)}
  PROVE  Claimed(t)' = Claimed(t)
<1>0. \A i \in DOMAIN actions[t] : actions[t][i] \in ActionRow BY DEF TypeOK
<1>1. CASE actions'[t] = actions[t] BY <1>1 DEF Claimed, InState
<1>2. CASE actions'[t] = Rewrite(t, old, new)
  <2>1. DOMAIN actions'[t] = DOMAIN actions[t] BY <1>2 DEF Rewrite
  <2>2. ASSUME NEW i \in DOMAIN actions[t]
        PROVE  (actions'[t][i].state \in ClaimedStates) <=> (actions[t][i].state \in ClaimedStates)
    <3>1. actions'[t][i] = IF actions[t][i].state = old THEN [actions[t][i] EXCEPT !.state = new]
                           ELSE actions[t][i]
      BY <1>2 DEF Rewrite
    <3>2. CASE actions[t][i].state = old
      <4>1. actions'[t][i].state = new BY <1>0, <3>1, <3>2 DEF ActionRow
      <4> QED BY <3>2, <4>1
    <3>3. CASE actions[t][i].state # old BY <3>1, <3>3
    <3> QED BY <3>2, <3>3
  <2> QED BY <2>1, <2>2 DEF Claimed, InState
<1> QED BY <1>1, <1>2

\* A row that moves on within what is claimed, or within what is not.
LEMMA RowKeepsClaims ==
  ASSUME TypeOK, NEW t \in Tasks, NEW i \in DOMAIN actions[t], NEW row,
         actions' = [actions EXCEPT ![t][i] = row],
         (row.state \in ClaimedStates) <=> (actions[t][i].state \in ClaimedStates)
  PROVE  \A u \in Tasks : Claimed(u)' = Claimed(u)
<1>1. \A u \in Tasks : DOMAIN actions'[u] = DOMAIN actions[u] BY DEF TypeOK
<1>2. \A u \in Tasks : \A j \in DOMAIN actions[u] :
        actions'[u][j] = IF u = t /\ j = i THEN row ELSE actions[u][j]
  BY DEF TypeOK
<1> QED BY <1>1, <1>2 DEF Claimed, InState

LEMMA ActionStepCounts ==
  ASSUME LedgerAssumption, TypeOK, NEW t \in Tasks, ActionStep(t), NEW u \in Tasks, CountHolds(u)
  PROVE  CountHolds(u)'
<1>0. /\ \A v \in Tasks : \A i \in DOMAIN actions[v] : actions[v][i] \in ActionRow
      /\ \A v \in Tasks : tasks[v] \in TaskRow
      /\ DOMAIN tasks = Tasks /\ DOMAIN actions = Tasks
  BY DEF TypeOK
<1>1. ASSUME NEW spec \in ActionSpecs, RecordStaleAttempt(t, spec) \/ Prepare(t, spec)
      PROVE  ChargesStay(u)
  <2>1. PICK row \in {NewRow(spec, "stale", TRUE), NewRow(spec, "prepared", FALSE)} :
          actions' = [actions EXCEPT ![t] = Append(actions[t], row)]
    BY <1>1 DEF RecordStaleAttempt, Prepare
  <2>2. row.state \notin ClaimedStates BY DEF NewRow, ClaimedStates
  <2>3. UNCHANGED tasks BY <1>1 DEF RecordStaleAttempt, Prepare
  <2> HIDE DEF NewRow
  <2>4. actions[t] \in Seq(ActionRow) BY DEF TypeOK
  <2>5. /\ DOMAIN Append(actions[t], row) = DOMAIN actions[t] \cup {Len(actions[t]) + 1}
        /\ Len(actions[t]) + 1 \notin DOMAIN actions[t]
        /\ Append(actions[t], row)[Len(actions[t]) + 1] = row
        /\ \A i \in DOMAIN actions[t] : Append(actions[t], row)[i] = actions[t][i]
    BY <2>4
  <2>6. Claimed(u)' = Claimed(u)
    <3>1. CASE u = t
      <4>1. actions'[t] = Append(actions[t], row) BY <1>0, <2>1
      <4> QED BY <2>2, <2>5, <3>1, <4>1 DEF Claimed, InState
    <3>2. CASE u # t
      <4>1. actions'[u] = actions[u] BY <1>0, <2>1, <3>2
      <4> QED BY <4>1 DEF Claimed, InState
    <3> QED BY <3>1, <3>2
  <2> QED BY <2>3, <2>6 DEF ChargesStay
<1>2. ASSUME NEW i \in DOMAIN actions[t], Claim(t, i, TRUE) PROVE ChargesStay(u)
  <2> DEFINE row == [actions[t][i] EXCEPT !.state = "stale"]
  <2>1. row.state = "stale" /\ actions[t][i].state = "prepared" BY <1>0, <1>2 DEF ActionRow, Claim
  <2>2. actions' = [actions EXCEPT ![t][i] = row] BY <1>0, <1>2 DEF Claim
  <2> HIDE DEF row
  <2>3. Claimed(u)' = Claimed(u) BY <2>1, <2>2, RowKeepsClaims DEF ClaimedStates
  <2>4. tasks'[u].count = tasks[u].count BY <1>0, <1>2 DEF Claim, TaskRow
  <2> QED BY <2>3, <2>4 DEF ChargesStay
<1>3. ASSUME NEW i \in DOMAIN actions[t], Claim(t, i, FALSE) PROVE CountHolds(u)'
  <2> DEFINE row == [actions[t][i] EXCEPT !.state = "in_flight"]
  <2>1. /\ row.state = "in_flight" /\ actions[t][i].state = "prepared"
        /\ tasks[t].count < Budget /\ tasks[t].count \in Nat
    BY <1>0, <1>3 DEF ActionRow, Claim, TaskRow
  <2>2. actions' = [actions EXCEPT ![t][i] = row] BY <1>0, <1>3 DEF Claim
  <2>3. tasks' = [tasks EXCEPT ![t].count = @ + 1] BY <1>3 DEF Claim
  <2> HIDE DEF row
  <2>4. CASE u = t
    <3>1. DOMAIN actions'[t] = DOMAIN actions[t] BY <1>0, <2>2
    <3>2. \A j \in DOMAIN actions[t] : actions'[t][j] = IF j = i THEN row ELSE actions[t][j]
      BY <1>0, <2>2
    <3>3. Claimed(t)' = Claimed(t) \cup {i} /\ i \notin Claimed(t)
      BY <2>1, <3>1, <3>2 DEF Claimed, InState, ClaimedStates
    <3>4. Cardinality(Claimed(t) \cup {i}) = Cardinality(Claimed(t)) + 1
      BY <3>3, ClaimsAreFinite, FS_AddElement
    <3>5. tasks'[t].count = tasks[t].count + 1 BY <1>0, <2>3 DEF TaskRow
    <3>6. tasks[t].count + 1 <= Budget
      <4>1. Budget \in Nat BY DEF LedgerAssumption
      <4> QED BY <2>1, <4>1
    <3> QED BY <2>4, <3>3, <3>4, <3>5, <3>6 DEF CountHolds
  <2>5. CASE u # t
    <3>1. tasks'[u] = tasks[u] /\ actions'[u] = actions[u] BY <1>0, <2>2, <2>3, <2>5
    <3> QED BY <3>1, ChargesStayHold DEF ChargesStay, Claimed, InState
  <2> QED BY <2>4, <2>5
<1>4. ASSUME NEW i \in DOMAIN actions[t],
             \/ \E b \in BOOLEAN : Reconcile(t, i, b) \/ ResumeNativePlan(t, i, b)
             \/ MarkExecutionStarted(t, i)
             \/ \E v \in Verifications, ok \in BOOLEAN : Finish(t, i, ok, v)
             \/ MarkInDoubt(t, i)
      PROVE  ChargesStay(u)
  <2>1. PICK row : /\ actions' = [actions EXCEPT ![t][i] = row]
                   /\ (row.state \in ClaimedStates) <=> (actions[t][i].state \in ClaimedStates)
    <3>1. CASE \E b \in BOOLEAN : Reconcile(t, i, b)
      <4> DEFINE new == [actions[t][i] EXCEPT !.state = "result_present"]
      <4>1. new.state = "result_present" BY <1>0 DEF ActionRow
      <4>2. actions' = [actions EXCEPT ![t][i] = new] /\ actions[t][i].state = "in_doubt"
        BY <1>0, <3>1 DEF Reconcile
      <4> HIDE DEF new
      <4> QED BY <4>1, <4>2 DEF ClaimedStates
    <3>2. CASE \E b \in BOOLEAN : ResumeNativePlan(t, i, b)
      <4> DEFINE state == IF actions[t][i].state = "in_doubt" THEN "not_executed" ELSE actions[t][i].state
                 new == [actions[t][i] EXCEPT !.state = state]
      <4>1. new.state = state BY <1>0 DEF ActionRow
      <4>2. actions' = [actions EXCEPT ![t][i] = new] BY <1>0, <3>2 DEF ResumeNativePlan
      <4>3. (state \in ClaimedStates) <=> (actions[t][i].state \in ClaimedStates) BY DEF ClaimedStates
      <4> HIDE DEF new, state
      <4> QED BY <4>1, <4>2, <4>3
    <3>3. CASE MarkExecutionStarted(t, i)
      <4> DEFINE new == [actions[t][i] EXCEPT !.started = TRUE]
      <4>1. new.state = actions[t][i].state BY <1>0 DEF ActionRow
      <4>2. actions' = [actions EXCEPT ![t][i] = new] BY <1>0, <3>3 DEF MarkExecutionStarted
      <4> HIDE DEF new
      <4> QED BY <4>1, <4>2
    <3>4. CASE \E v \in Verifications, ok \in BOOLEAN : Finish(t, i, ok, v)
      <4>1. PICK v \in Verifications, ok \in BOOLEAN : Finish(t, i, ok, v) BY <3>4
      <4> DEFINE new == [actions[t][i] EXCEPT !.state = IF ok THEN "verified" ELSE "failed",
                                              !.verification = v]
      <4>2. new.state \in {"verified", "failed"} BY <1>0 DEF ActionRow
      <4>3. actions' = [actions EXCEPT ![t][i] = new] /\ actions[t][i].state = "in_flight"
        BY <1>0, <4>1 DEF Finish
      <4> HIDE DEF new
      <4> QED BY <4>2, <4>3 DEF ClaimedStates
    <3>5. CASE MarkInDoubt(t, i)
      <4> DEFINE new == [actions[t][i] EXCEPT !.state = "in_doubt"]
      <4>1. new.state = "in_doubt" BY <1>0 DEF ActionRow
      <4>2. actions' = [actions EXCEPT ![t][i] = new] /\ actions[t][i].state = "in_flight"
        BY <1>0, <3>5 DEF MarkInDoubt
      <4> HIDE DEF new
      <4> QED BY <4>1, <4>2 DEF ClaimedStates
    <3> QED BY <1>4, <3>1, <3>2, <3>3, <3>4, <3>5
  <2>2. Claimed(u)' = Claimed(u) BY <2>1, RowKeepsClaims
  <2>3. \/ UNCHANGED tasks \/ tasks' = [tasks EXCEPT ![t].state = "active"]
        \/ tasks' = [tasks EXCEPT ![t] = RequireRecovery(@)]
    BY <1>4 DEF Reconcile, ResumeNativePlan, MarkExecutionStarted, Finish, MarkInDoubt
  <2>4. tasks'[u].count = tasks[u].count BY <1>0, <2>3 DEF TaskRow, RequireRecovery
  <2> QED BY <2>2, <2>4 DEF ChargesStay
<1>5. ASSUME NEW b \in BOOLEAN, Complete(t, b) PROVE ChargesStay(u)
  <2>1. actions'[u] \in {actions[u], Rewrite(u, "prepared", "cancelled")}
    BY <1>0, <1>5 DEF Complete
  <2>2. Claimed(u)' = Claimed(u) BY <2>1, RewriteKeepsClaims DEF ActionStates, ClaimedStates
  <2>3. tasks'[u].count = tasks[u].count BY <1>0, <1>5 DEF Complete, TaskRow
  <2> QED BY <2>2, <2>3 DEF ChargesStay
<1>6. \A i \in DOMAIN actions[t], b \in BOOLEAN : Claim(t, i, b) => CountHolds(u)'
  BY <1>2, <1>3, ChargesStayHold
<1>7. \A v \in Verifications : v \in Verifications /\ "none" \in Verifications BY DEF Verifications
<1> QED BY <1>1, <1>4, <1>5, <1>6, <1>7, ChargesStayHold DEF ActionStep, Verifications

LEMMA NextCounts ==
  ASSUME LedgerAssumption, TypeOK, CallsNameTasks, [Next]_vars, \A t \in Tasks : CountHolds(t)
  PROVE  \A t \in Tasks : CountHolds(t)'
<1> SUFFICES ASSUME NEW t \in Tasks PROVE CountHolds(t)'
  OBVIOUS
<1>0. \A u \in Tasks : tasks[u] \in TaskRow BY DEF TypeOK
<1>a. DOMAIN tasks = Tasks /\ DOMAIN actions = Tasks BY DEF TypeOK
<1>1. CASE UNCHANGED actions /\ tasks'[t].count = tasks[t].count
  BY <1>1, SameClaims, ChargesStayHold DEF ChargesStay
<1>2. ASSUME NEW u \in Tasks, Create(u) \/ ClarificationStep(u) \/ SignalCancel(u) \/ TaskAges(u)
      PROVE  UNCHANGED actions /\ tasks'[t].count = tasks[t].count
  <2>1. UNCHANGED actions
    BY <1>2 DEF ClarificationStep, AwaitClarification, CancelClarification, Withdraw,
         RecordClarificationDelivery, ClarificationLapses, Create, SignalCancel, TaskAges
  <2>2. \/ UNCHANGED tasks
        \/ \E s : tasks' = [tasks EXCEPT ![u].state = s]
        \/ tasks' = [tasks EXCEPT ![u].cancel = TRUE]
        \/ tasks' = [tasks EXCEPT ![u].aged = TRUE]
    BY <1>2 DEF ClarificationStep, AwaitClarification, CancelClarification, Withdraw,
         RecordClarificationDelivery, ClarificationLapses, Create, SignalCancel, TaskAges
  <2>3. tasks'[t].count = tasks[t].count BY <1>0, <1>a, <2>2 DEF TaskRow
  <2> QED BY <2>1, <2>3
<1>3. ASSUME NEW c \in Callers, CallStep(c),
             ~(ExpireTask(c) \/ FinalizeCancel(c) \/ FinalizeStop(c))
      PROVE  UNCHANGED actions /\ tasks'[t].count = tasks[t].count
  <2>1. UNCHANGED actions
    BY <1>3 DEF CallStep, CallTask, Cancel, ResumeClarification, ReadTask, ReadClarification,
         ExpireClarification, WithdrawInCancel, Withdraw, RequestCancel, StopAll,
         CancelActiveTasks, StopReturns
  <2>2. \/ UNCHANGED tasks
        \/ \E u, s : tasks' = [tasks EXCEPT ![u].state = s]
        \/ \E u : tasks' = [tasks EXCEPT ![u].cancel = TRUE]
        \/ RequestAll
    BY <1>3 DEF CallStep, CallTask, Cancel, ResumeClarification, ReadTask, ReadClarification,
         ExpireClarification, WithdrawInCancel, Withdraw, RequestCancel, StopAll,
         CancelActiveTasks, StopReturns
  <2>3. RequestAll => tasks'[t].count = tasks[t].count BY <1>0 DEF RequestAll, TaskRow
  <2>4. tasks'[t].count = tasks[t].count BY <1>0, <1>a, <2>2, <2>3 DEF TaskRow
  <2> QED BY <2>1, <2>4
<1>4. ASSUME NEW c \in Callers, ExpireTask(c) \/ FinalizeCancel(c) \/ FinalizeStop(c)
      PROVE  CountHolds(t)'
  <2>1. \/ actions'[t] \in {actions[t], Rewrite(t, "prepared", "expired")}
        \/ actions'[t] \in {actions[t], Rewrite(t, "prepared", "cancelled")}
    BY <1>a, <1>4 DEF ExpireTask, FinalizeCancel, FinalizeStop
  <2>2. Claimed(t)' = Claimed(t) BY <2>1, RewriteKeepsClaims DEF ActionStates, ClaimedStates
  <2>3. tasks'[t].count = tasks[t].count
    <3>1. FinalizeStop(c) => tasks'[t].count = tasks[t].count BY <1>0 DEF FinalizeStop, TaskRow
    <3>2. ExpireTask(c) \/ FinalizeCancel(c) => tasks'[t].count = tasks[t].count
      BY <1>0, <1>a DEF ExpireTask, FinalizeCancel, TaskRow
    <3> QED BY <1>4, <3>1, <3>2
  <2> QED BY <2>2, <2>3, ChargesStayHold DEF ChargesStay
<1>5. ASSUME RecoverInFlight PROVE CountHolds(t)'
  <2>1. actions'[t] = Rewrite(t, "in_flight", "in_doubt") BY <1>5 DEF RecoverInFlight
  <2>2. Claimed(t)' = Claimed(t) BY <2>1, RewriteKeepsClaims DEF ActionStates, ClaimedStates
  <2>3. tasks'[t].count = tasks[t].count BY <1>0, <1>5 DEF RecoverInFlight, RequireRecovery, TaskRow
  <2> QED BY <2>2, <2>3, ChargesStayHold DEF ChargesStay
<1>6. CASE \/ UNCHANGED vars
           \/ \E S \in SUBSET Callers : CallersDie(S)
  BY <1>1, <1>6 DEF vars, CallersDie
<1>7. CASE \E u \in Tasks : ActionStep(u) BY <1>7, ActionStepCounts
<1> QED BY <1>1, <1>2, <1>3, <1>4, <1>5, <1>6, <1>7 DEF Next

LEMMA NothingCharged == Init => \A t \in Tasks : CountHolds(t)
<1> SUFFICES ASSUME Init, NEW t \in Tasks PROVE CountHolds(t)
  OBVIOUS
<1>1. Claimed(t) = {} BY DEF Init, Claimed, InState
<1>2. tasks[t].count = 0 /\ 0 <= Budget BY LedgerAssumption DEF Init, LedgerAssumption
<1> QED BY <1>1, <1>2, FS_EmptySet DEF CountHolds

\* agency_ledger.py 757 and 787: claim and claim_current charge every claim once, a stale one,
\* a rejection, a restart and a resumed plan nothing, and never above the budget.
THEOREM BudgetIsKept == Spec => []BudgetAccounted
<1>1. /\ TypeOK /\ CallsNameTasks /\ [Next]_vars /\ (\A t \in Tasks : CountHolds(t))
      => (\A t \in Tasks : CountHolds(t))'
  BY NextCounts, LedgerAssumption
<1>2. (\A t \in Tasks : CountHolds(t)) => BudgetAccounted BY DEF CountHolds, BudgetAccounted
<1> QED BY <1>1, <1>2, NothingCharged, TypeCorrect, PTL DEF Spec

-----------------------------------------------------------------------------
(* What a step does to a task as its owner sees it.                         *)

\* Who is named by a call or a run was created.
Resting == {"idle", "finalize_stop", "stopped"}
CallHolds(c) ==
  /\ calls[c].pc \notin Resting => tasks[calls[c].task].state # "absent"
  /\ \A t \in calls[c].targets : tasks[t].state # "absent"
RunHolds(r) == run[r].pc # "idle" => tasks[run[r].task].state # "absent"

\* No process of the agency uses cancel_active_tasks.
NamedAreCreated ==
  /\ \A c \in Callers : CallHolds(c) /\ calls[c].pc # "finalize_stop"
  /\ \A r \in Runners : RunHolds(r)

\* A call that goes on names what it named, or what it still had to do.
GoesOn(c) ==
  /\ calls'[c].pc # "finalize_stop"
  /\ calls'[c].pc \notin Resting =>
       \/ calls[c].pc \notin Resting /\ calls'[c].task = calls[c].task
       \/ tasks[calls'[c].task].state # "absent" /\ calls'[c].task \in Tasks
  /\ \A t \in calls'[c].targets : tasks[t].state # "absent"

LEMMA OverGoesOn ==
  ASSUME TypeOK, NamedAreCreated, NEW c \in Callers, Over(c)
  PROVE  GoesOn(c) /\ \A d \in Callers \ {c} : calls'[d] = calls[d]
<1>0. DOMAIN calls = Callers /\ calls[c] \in Call /\ calls[c].targets \subseteq Tasks
  BY DEF TypeOK, Call
<1>1. \A t \in calls[c].targets : tasks[t].state # "absent" BY DEF NamedAreCreated, CallHolds
<1>2. CASE calls' = [calls EXCEPT ![c] = IF calls[c].stop = {} THEN IdleCall
                       ELSE [IdleCall EXCEPT !.pc = "stopped", !.stop = calls[c].stop]]
  BY <1>0, <1>2 DEF GoesOn, IdleCall, Resting
<1>3. ASSUME NEW t \in calls[c].targets,
             calls' = [calls EXCEPT ![c] = [IdleCall EXCEPT
                        !.pc = "read", !.task = t, !.then = "cancel",
                        !.targets = calls[c].targets \ {t}, !.stop = calls[c].stop]]
      PROVE  GoesOn(c) /\ \A d \in Callers \ {c} : calls'[d] = calls[d]
  <2>1. /\ calls'[c].pc = "read" /\ calls'[c].task = t /\ calls'[c].targets = calls[c].targets \ {t}
        /\ \A d \in Callers \ {c} : calls'[d] = calls[d]
    BY <1>0, <1>3 DEF IdleCall
  <2> QED BY <1>0, <1>1, <2>1 DEF GoesOn, Resting
<1> QED BY <1>2, <1>3 DEF Over

LEMMA PcGoesOn ==
  ASSUME TypeOK, NamedAreCreated, NEW c \in Callers, NEW pc, calls[c].pc \notin Resting,
         pc # "finalize_stop", calls' = [calls EXCEPT ![c].pc = pc]
  PROVE  GoesOn(c) /\ \A d \in Callers \ {c} : calls'[d] = calls[d]
<1>0. DOMAIN calls = Callers /\ calls[c] \in Call BY DEF TypeOK
<1>1. calls'[c].pc = pc /\ calls'[c].task = calls[c].task /\ calls'[c].targets = calls[c].targets
  BY <1>0 DEF Call
<1>2. \A t \in calls[c].targets : tasks[t].state # "absent" BY DEF NamedAreCreated, CallHolds
<1> QED BY <1>0, <1>1, <1>2 DEF GoesOn

LEMMA ReturnedGoesOn ==
  ASSUME TypeOK, NamedAreCreated, NEW c \in Callers, NEW s, calls[c].pc \notin Resting, Returned(c, s)
  PROVE  GoesOn(c) /\ \A d \in Callers \ {c} : calls'[d] = calls[d]
<1>1. CASE Over(c) BY <1>1, OverGoesOn
<1>2. CASE ~Over(c)
  <2> DEFINE pc == IF s = "awaiting_clarification" THEN "cancel_clarification" ELSE "request_cancel"
  <2>1. calls' = [calls EXCEPT ![c].pc = pc] BY <1>2 DEF Returned
  <2>2. pc # "finalize_stop" OBVIOUS
  <2> HIDE DEF pc
  <2> QED BY <2>1, <2>2, PcGoesOn
<1> QED BY <1>1, <1>2

\* A call that begins names a task that was created.
LEMMA CallBegins ==
  ASSUME TypeOK, NEW c \in Callers, NEW t \in Tasks, tasks[t].state # "absent",
         ReturnTask(c, t) \/ Cancel(c, t)
  PROVE  GoesOn(c) /\ \A d \in Callers \ {c} : calls'[d] = calls[d]
<1>0. DOMAIN calls = Callers BY DEF TypeOK
<1>1. /\ calls'[c].pc = "read" /\ calls'[c].task = t /\ calls'[c].targets = {}
      /\ \A d \in Callers \ {c} : calls'[d] = calls[d]
  BY <1>0 DEF ReturnTask, Cancel, IdleCall
<1> QED BY <1>1 DEF GoesOn, Resting

LEMMA ContinueGoesOn ==
  ASSUME TypeOK, CallsNameTasks, NamedAreCreated, NEW c \in Callers, Continue(c)
  PROVE  GoesOn(c) /\ \A d \in Callers \ {c} : calls'[d] = calls[d]
<1> DEFINE Good == GoesOn(c) /\ \A d \in Callers \ {c} : calls'[d] = calls[d]
<1> USE DEF Resting
<1>1. CASE ReadTask(c)
  <2>1. calls[c].pc = "read" BY <1>1 DEF ReadTask
  <2>2. \/ calls' = [calls EXCEPT ![c].pc = "expire"]
        \/ calls' = [calls EXCEPT ![c].pc = "read_clarification"]
        \/ Returned(c, tasks[calls[c].task].state)
    BY <1>1 DEF ReadTask
  <2> QED BY <2>1, <2>2, PcGoesOn, ReturnedGoesOn
<1>2. CASE ExpireTask(c) BY <1>2, ReturnedGoesOn DEF ExpireTask
<1>3. CASE ReadClarification(c)
  <2>1. calls[c].pc = "read_clarification" BY <1>3 DEF ReadClarification
  <2>2. CASE calls' = [calls EXCEPT ![c].pc = "expire_unanswered"] BY <2>1, <2>2, PcGoesOn
  <2>3. ASSUME NEW k, calls' = [calls EXCEPT ![c].pc = "expire_lapsed", ![c].clar = k] PROVE Good
    <3>0. DOMAIN calls = Callers /\ calls[c] \in Call BY DEF TypeOK
    <3>1. /\ calls'[c].pc = "expire_lapsed" /\ calls'[c].task = calls[c].task
          /\ calls'[c].targets = calls[c].targets
          /\ \A d \in Callers \ {c} : calls'[d] = calls[d]
      BY <2>3, <3>0 DEF Call
    <3>2. \A t \in calls[c].targets : tasks[t].state # "absent" BY DEF NamedAreCreated, CallHolds
    <3> QED BY <2>1, <3>1, <3>2 DEF GoesOn
  <2>4. CASE Returned(c, "awaiting_clarification") BY <2>1, <2>4, ReturnedGoesOn
  <2> QED BY <1>3, <2>2, <2>3, <2>4 DEF ReadClarification
<1>4. CASE ExpireClarification(c) BY <1>4, ReturnedGoesOn DEF ExpireClarification
<1>5. CASE WithdrawInCancel(c) BY <1>5, OverGoesOn DEF WithdrawInCancel
<1>6. CASE RequestCancel(c)
  <2>1. calls[c].pc = "request_cancel" BY <1>6 DEF RequestCancel
  <2>2. calls' = [calls EXCEPT ![c].pc = "finalize_cancel"] \/ Over(c) BY <1>6 DEF RequestCancel
  <2> QED BY <2>1, <2>2, PcGoesOn, OverGoesOn
<1>7. CASE FinalizeCancel(c) BY <1>7, OverGoesOn DEF FinalizeCancel
<1>8. CASE StopReturns(c)
  <2>1. calls' = [calls EXCEPT ![c] = IdleCall] BY <1>8 DEF StopReturns
  <2> QED BY <2>1 DEF GoesOn, IdleCall, TypeOK
<1> QED BY <1>1, <1>2, <1>3, <1>4, <1>5, <1>6, <1>7, <1>8 DEF Continue

LEMMA RequestGoesOn ==
  ASSUME TypeOK, NEW c \in Callers, Request(c)
  PROVE  GoesOn(c) /\ \A d \in Callers \ {c} : calls'[d] = calls[d]
<1>1. CASE StopAll(c)
  <2>0. DOMAIN calls = Callers /\ PendingTasks \subseteq Tasks BY DEF TypeOK, PendingTasks
  <2>1. PICK t \in PendingTasks :
          calls' = [calls EXCEPT ![c] = [IdleCall EXCEPT
                      !.pc = "read", !.task = t, !.then = "cancel",
                      !.targets = PendingTasks \ {t}, !.stop = PendingTasks]]
    BY <1>1 DEF StopAll
  <2>2. \A u \in PendingTasks : tasks[u].state # "absent" BY DEF PendingTasks, Pending
  <2> HIDE DEF PendingTasks
  <2>3. /\ calls'[c].pc = "read" /\ calls'[c].task = t /\ calls'[c].targets = PendingTasks \ {t}
        /\ \A d \in Callers \ {c} : calls'[d] = calls[d]
    BY <2>0, <2>1 DEF IdleCall
  <2> QED BY <2>0, <2>1, <2>2, <2>3 DEF GoesOn, Resting
<1>2. ASSUME NEW t \in Tasks, CallTask(c, t) \/ Cancel(c, t)
      PROVE  GoesOn(c) /\ \A d \in Callers \ {c} : calls'[d] = calls[d]
  <2>1. tasks[t].state # "absent" /\ (ReturnTask(c, t) \/ Cancel(c, t))
    BY <1>2 DEF CallTask, Cancel
  <2> QED BY <2>1, CallBegins
<1>3. ASSUME NEW t \in Tasks, NEW k \in DOMAIN clars[t], ResumeClarification(c, t, k)
      PROVE  GoesOn(c) /\ \A d \in Callers \ {c} : calls'[d] = calls[d]
  <2>1. tasks[t].state # "absent" /\ ReturnTask(c, t) BY <1>3 DEF ResumeClarification
  <2> QED BY <2>1, CallBegins
<1> QED BY <1>1, <1>2, <1>3 DEF Request

\* A runner begins a call on its task or leaves the calls alone.
LEMMA RunnerGoesOn ==
  ASSUME AgencyAssumption, TypeOK, Manned, NamedAreCreated, NEW r \in Runners, RunnerStep(r)
  PROVE  UNCHANGED calls \/ (GoesOn(r) /\ \A d \in Callers \ {r} : calls'[d] = calls[d])
<1> DEFINE t == run[r].task
<1>0. r \in Callers BY DEF AgencyAssumption
<1>1. run[r].pc \in Running /\ run[r].pc # "idle" BY RunMoves DEF Running
<1>2. t \in Tasks /\ tasks[t].state # "absent" BY <1>1 DEF Manned, NamedAreCreated, RunHolds
<1>3. \/ UNCHANGED calls \/ CallTask(r, t) \/ Cancel(r, t)
  BY DEF RunnerStep, StartRun, ResumeRun, ResumeNativePlan, NextStep, FinishRun, Complete, ReadFailed, FailRun,
         LeaveRun, PrepareRow, Prepare, ClaimRow, Claim, StartRow, MarkExecutionStarted, Refrain, PhysicalEffect,
         Verify, Finish, MarkInDoubt, vars
<1>4. CallTask(r, t) => ReturnTask(r, t) BY DEF CallTask
<1> QED BY <1>0, <1>2, <1>3, <1>4, CallBegins

LEMMA NamedStayCreated ==
  ASSUME LedgerAssumption, AgencyAssumption, TypeOK, CallsNameTasks, SignalledStop, Manned, NamedAreCreated,
         [Next]_vars, [AgencyNext]_avars
  PROVE  NamedAreCreated'
<1>0. \A t \in Tasks : tasks[t].state # "absent" => tasks'[t].state # "absent"
  BY NextStops DEF Stands
<1>a. \A c \in Callers : calls[c].pc \notin Resting => calls[c].task \in Tasks
  BY DEF CallsNameTasks, TypeOK, Call, Pcs, Resting
<1>b. \A c \in Callers : calls[c].targets \subseteq Tasks BY DEF TypeOK, Call
<1>c. TypeOK' BY NextType
<1>1. \A c \in Callers : calls'[c] = calls[c] \/ GoesOn(c) \/ calls'[c] = IdleCall
  <2>1. ASSUME NEW r \in Runners, RunnerStep(r)
        PROVE  \A c \in Callers : calls'[c] = calls[c] \/ GoesOn(c) \/ calls'[c] = IdleCall
    BY <2>1, RunnerGoesOn
  <2>2. ASSUME NEW r \in Runners, NEW t \in Tasks, Enter(r, t, "entered") \/ Enter(r, t, "resuming")
        PROVE  \A c \in Callers : calls'[c] = calls[c] \/ GoesOn(c) \/ calls'[c] = IdleCall
    <3>1. r \in Callers BY DEF AgencyAssumption
    <3>2. tasks[t].state # "absent" /\ ReturnTask(r, t) BY <2>2 DEF Enter, CallTask
    <3> QED BY <3>1, <3>2, CallBegins
  <2>3. ASSUME NEW d \in Callers, Continue(d) \/ Request(d)
        PROVE  \A c \in Callers : calls'[c] = calls[c] \/ GoesOn(c) \/ calls'[c] = IdleCall
    BY <2>3, ContinueGoesOn, RequestGoesOn
  <2>4. ASSUME \/ \E t \in Tasks : OwnerStep(t) \/ Passes(t)
               \/ \E p \in Procs : Start(p)
               \/ UNCHANGED avars
        PROVE  UNCHANGED calls
    BY <2>4 DEF OwnerStep, Create, SignalCancel, AwaitClarification, CancelClarification,
         RecordClarificationDelivery, Reconcile, Complete, Passes, TaskAges, ClarificationLapses,
         Start, RecoverInFlight, avars, vars
  <2>5. ASSUME NEW p \in Procs, Crash(p)
        PROVE  \A c \in Callers : calls'[c] = calls[c] \/ GoesOn(c) \/ calls'[c] = IdleCall
    BY <2>5 DEF Crash
  <2> QED BY <2>1, <2>2, <2>3, <2>4, <2>5 DEF AgencyNext
<1>2. ASSUME NEW c \in Callers PROVE CallHolds(c)' /\ calls'[c].pc # "finalize_stop"
  <2>1. CASE calls'[c] = calls[c]
    BY <1>0, <1>a, <1>b, <2>1 DEF NamedAreCreated, CallHolds
  <2>2. CASE GoesOn(c)
    <3>1. calls'[c].targets \subseteq Tasks BY <1>c DEF TypeOK, Call
    <3>2. calls[c].pc \notin Resting => calls[c].task \in Tasks /\ tasks[calls[c].task].state # "absent"
      BY <1>a DEF NamedAreCreated, CallHolds
    <3> QED BY <1>0, <2>2, <3>1, <3>2 DEF GoesOn, CallHolds
  <2>3. CASE calls'[c] = IdleCall BY <2>3 DEF IdleCall, CallHolds, Resting
  <2> QED BY <1>1, <2>1, <2>2, <2>3
<1>3. ASSUME NEW r \in Runners PROVE RunHolds(r)'
  <2>0. run[r].pc # "idle" => run[r].task \in Tasks BY DEF Manned
  <2>1. \/ run'[r].pc = "idle" \/ (run[r].pc # "idle" /\ run'[r].task = run[r].task)
        \/ run'[r].task \in Tasks /\ tasks[run'[r].task].state # "absent"
    <3>1. ASSUME NEW q \in Runners, RunnerStep(q)
          PROVE  \/ run'[r].pc = "idle" \/ (run[r].pc # "idle" /\ run'[r].task = run[r].task)
                 \/ run'[r] = run[r]
      <4>1. /\ run[q].pc # "idle"
            /\ \/ run' = [run EXCEPT ![q] = IdleRun]
               \/ \E pc \in Running : run' = [run EXCEPT ![q].pc = pc]
               \/ run' = [run EXCEPT ![q].pc = "bound", ![q].row = Len(actions[run[q].task]) + 1]
        BY <3>1, RunMoves DEF Running
      <4>2. CASE q = r BY <4>1, <4>2 DEF Manned, IdleRun
      <4>3. CASE q # r BY <4>1, <4>3 DEF Manned
      <4> QED BY <4>2, <4>3
    <3>2. ASSUME NEW q \in Runners, NEW t \in Tasks, Enter(q, t, "entered") \/ Enter(q, t, "resuming")
          PROVE  run'[r] = run[r] \/ (run'[r].task \in Tasks /\ tasks[run'[r].task].state # "absent")
      BY <3>2 DEF Enter, CallTask, Manned
    <3>3. ASSUME NEW p \in Procs, Crash(p) PROVE run'[r] = run[r] \/ run'[r].pc = "idle"
      BY <3>3 DEF Crash, IdleRun
    <3>4. CASE \/ \E c \in Callers : Continue(c) \/ Request(c)
               \/ \E t \in Tasks : OwnerStep(t) \/ Passes(t)
               \/ \E p \in Procs : Start(p)
               \/ UNCHANGED avars
      BY <3>4 DEF Continue, Request, OwnerStep, Passes, Start, avars
    <3> QED BY <3>1, <3>2, <3>3, <3>4 DEF AgencyNext, NamedAreCreated, RunHolds
  <2>2. RunHolds(r) BY DEF NamedAreCreated
  <2> QED BY <1>0, <2>0, <2>1, <2>2 DEF RunHolds
<1> QED BY <1>2, <1>3 DEF NamedAreCreated

-----------------------------------------------------------------------------
(* The phase of a task.                                                     *)

TaskGoes(t) ==
  \/ tasks'[t].state = tasks[t].state /\ tasks'[t].cancel = tasks[t].cancel
  \/ tasks[t].state = "absent" /\ tasks'[t].state = "active" /\ ~tasks'[t].cancel
  \/ tasks[t].state \in Pending /\ tasks'[t].state \in Pending /\ (tasks[t].cancel => tasks'[t].cancel)
  \/ tasks[t].state # "absent" /\ tasks'[t].state \notin Pending \cup {"absent"}

OthersRest(t) == \A u \in Tasks \ {t} : tasks'[u] = tasks[u]

\* What the owner may see of one step.
PhaseGoes(t) ==
  \/ Phase(t)' = Phase(t)
  \/ Phase(t) = "none" /\ Phase(t)' = "open"
  \/ Phase(t) = "open" /\ Phase(t)' = "stopping"
  \/ Phase(t) \in {"open", "stopping"} /\ Phase(t)' = "over"

LEMMA PhaseIs ==
  ASSUME TypeOK, NEW t \in Tasks
  PROVE  /\ tasks[t].state = "absent" => Phase(t) = "none"
         /\ tasks[t].state \in Pending /\ ~tasks[t].cancel => Phase(t) = "open"
         /\ tasks[t].state \in Pending /\ tasks[t].cancel => Phase(t) = "stopping"
         /\ tasks[t].state \notin Pending \cup {"absent"} => Phase(t) = "over"
BY DEF Phase, Pending, TypeOK, TaskRow

LEMMA GoesInPhase ==
  ASSUME TypeOK, TypeOK', NEW t \in Tasks, TaskGoes(t)
  PROVE  PhaseGoes(t)
<1>0. tasks[t].cancel \in BOOLEAN /\ tasks'[t].cancel \in BOOLEAN BY DEF TypeOK, TaskRow
<1>1. /\ tasks'[t].state = "absent" => Phase(t)' = "none"
      /\ tasks'[t].state \in Pending /\ ~tasks'[t].cancel => Phase(t)' = "open"
      /\ tasks'[t].state \in Pending /\ tasks'[t].cancel => Phase(t)' = "stopping"
      /\ tasks'[t].state \notin Pending \cup {"absent"} => Phase(t)' = "over"
  BY DEF Phase, Pending, TypeOK, TaskRow
<1>2. "absent" \notin Pending /\ "active" \in Pending BY DEF Pending
<1>3. CASE tasks'[t].state = tasks[t].state /\ tasks'[t].cancel = tasks[t].cancel
  BY <1>3 DEF Phase, PhaseGoes
<1>4. CASE tasks[t].state = "absent" /\ tasks'[t].state = "active" /\ ~tasks'[t].cancel
  BY <1>1, <1>2, <1>4, PhaseIs DEF PhaseGoes
<1>5. CASE tasks[t].state \in Pending /\ tasks'[t].state \in Pending /\ (tasks[t].cancel => tasks'[t].cancel)
  BY <1>1, <1>5, PhaseIs DEF PhaseGoes
<1>6. CASE tasks[t].state # "absent" /\ tasks'[t].state \notin Pending \cup {"absent"}
  BY <1>1, <1>6, PhaseIs DEF PhaseGoes
<1> QED BY <1>3, <1>4, <1>5, <1>6 DEF TaskGoes

\* A task whose row is written, one task at a time.
LEMMA OneTaskWritten ==
  ASSUME TypeOK, NEW t \in Tasks,
         \/ UNCHANGED tasks
         \/ tasks' = [tasks EXCEPT ![t].count = @ + 1]
         \/ tasks' = [tasks EXCEPT ![t].aged = TRUE]
         \/ tasks[t].state \in Pending /\ tasks' = [tasks EXCEPT ![t].cancel = TRUE]
         \/ \E s \in Pending : tasks[t].state \in Pending /\ tasks' = [tasks EXCEPT ![t].state = s]
         \/ tasks[t].state = "absent" /\ ~tasks[t].cancel /\ tasks' = [tasks EXCEPT ![t].state = "active"]
         \/ \E s \in TaskStates \ (Pending \cup {"absent"}) :
              tasks[t].state # "absent" /\ tasks' = [tasks EXCEPT ![t].state = s]
  PROVE  TaskGoes(t) /\ OthersRest(t)
<1>0. DOMAIN tasks = Tasks /\ tasks[t] \in TaskRow BY DEF TypeOK
<1>1. OthersRest(t) BY <1>0 DEF OthersRest
<1>2. CASE UNCHANGED tasks BY <1>1, <1>2 DEF TaskGoes
<1>3. CASE tasks' = [tasks EXCEPT ![t].count = @ + 1] \/ tasks' = [tasks EXCEPT ![t].aged = TRUE]
  BY <1>0, <1>1, <1>3 DEF TaskGoes, TaskRow
<1>4. CASE tasks[t].state \in Pending /\ tasks' = [tasks EXCEPT ![t].cancel = TRUE]
  BY <1>0, <1>1, <1>4 DEF TaskGoes, TaskRow
<1>5. ASSUME NEW s, tasks' = [tasks EXCEPT ![t].state = s]
      PROVE  tasks'[t].state = s /\ tasks'[t].cancel = tasks[t].cancel
  BY <1>0, <1>5 DEF TaskRow
<1>6. CASE \E s \in Pending : tasks[t].state \in Pending /\ tasks' = [tasks EXCEPT ![t].state = s]
  BY <1>1, <1>5, <1>6 DEF TaskGoes
<1>7. CASE tasks[t].state = "absent" /\ ~tasks[t].cancel /\ tasks' = [tasks EXCEPT ![t].state = "active"]
  BY <1>1, <1>5, <1>7 DEF TaskGoes
<1>8. CASE \E s \in TaskStates \ (Pending \cup {"absent"}) :
             tasks[t].state # "absent" /\ tasks' = [tasks EXCEPT ![t].state = s]
  BY <1>1, <1>5, <1>8 DEF TaskGoes
<1> QED BY <1>1, <1>2, <1>3, <1>4, <1>6, <1>7, <1>8

LEMMA TaskStepMoves ==
  ASSUME TypeOK, SignalledStop, NEW t \in Tasks,
         Create(t) \/ ActionStep(t) \/ ClarificationStep(t) \/ SignalCancel(t) \/ TaskAges(t)
  PROVE  TaskGoes(t) /\ OthersRest(t)
<1>0. tasks[t].state = "absent" => ~tasks[t].cancel BY DEF SignalledStop
<1>a. DOMAIN tasks = Tasks BY DEF TypeOK
<1> USE DEF Pending, TaskStates
<1>1. CASE Create(t) BY <1>0, <1>1, OneTaskWritten DEF Create
<1>2. CASE SignalCancel(t) BY <1>2, OneTaskWritten DEF SignalCancel
<1>3. CASE TaskAges(t) BY <1>3, OneTaskWritten DEF TaskAges
<1>4. CASE ClarificationStep(t)
  <2>1. \/ UNCHANGED tasks
        \/ tasks[t].state = "active" /\ tasks' = [tasks EXCEPT ![t].state = "awaiting_clarification"]
        \/ tasks[t].state = "awaiting_clarification" /\ tasks' = [tasks EXCEPT ![t].state = "cancelled"]
    BY <1>4 DEF ClarificationStep, AwaitClarification, CanAwaitClarification, CancelClarification, Withdraw,
         RecordClarificationDelivery, ClarificationLapses
  <2> QED BY <2>1, OneTaskWritten
<1>5. CASE ActionStep(t)
  <2>1. \/ UNCHANGED tasks
        \/ tasks' = [tasks EXCEPT ![t].count = @ + 1]
        \/ tasks[t].state = "recovery_required" /\ tasks' = [tasks EXCEPT ![t].state = "active"]
        \/ tasks' = [tasks EXCEPT ![t] = RequireRecovery(@)]
        \/ \E s \in {"succeeded", "failed"} : tasks[t].state = "active" /\ tasks' = [tasks EXCEPT ![t].state = s]
    <3>1. ASSUME NEW i \in DOMAIN actions[t], NEW b \in BOOLEAN, Claim(t, i, b)
          PROVE  UNCHANGED tasks \/ tasks' = [tasks EXCEPT ![t].count = @ + 1]
      <4>1. CASE b
        <5>1. tasks' = [tasks EXCEPT ![t].count = @] BY <3>1, <4>1 DEF Claim
        <5> QED BY <1>a, <5>1 DEF TypeOK, TaskRow
      <4>2. CASE ~b BY <3>1, <4>2 DEF Claim
      <4> QED BY <4>1, <4>2
    <3>2. ASSUME NEW b \in BOOLEAN, Complete(t, b)
          PROVE  \E s \in {"succeeded", "failed"} :
                   tasks[t].state = "active" /\ tasks' = [tasks EXCEPT ![t].state = s]
      BY <3>2 DEF Complete
    <3>3. ASSUME NEW i \in DOMAIN actions[t],
                 \/ \E b \in BOOLEAN : Reconcile(t, i, b) \/ ResumeNativePlan(t, i, b)
                 \/ MarkExecutionStarted(t, i)
                 \/ \E v \in Verifications : Finish(t, i, TRUE, v)
                 \/ Finish(t, i, FALSE, "none")
                 \/ MarkInDoubt(t, i)
          PROVE  \/ UNCHANGED tasks
                 \/ tasks[t].state = "recovery_required" /\ tasks' = [tasks EXCEPT ![t].state = "active"]
                 \/ tasks' = [tasks EXCEPT ![t] = RequireRecovery(@)]
      BY <3>3 DEF Reconcile, ResumeNativePlan, MarkExecutionStarted, Finish, MarkInDoubt
    <3>4. ASSUME NEW spec \in ActionSpecs, RecordStaleAttempt(t, spec) \/ Prepare(t, spec)
          PROVE  UNCHANGED tasks
      BY <3>4 DEF RecordStaleAttempt, Prepare
    <3> QED BY <1>5, <3>1, <3>2, <3>3, <3>4 DEF ActionStep
  <2>2. CASE tasks' = [tasks EXCEPT ![t] = RequireRecovery(@)]
    <3>1. CASE tasks[t].state = "active"
      <4>1. tasks' = [tasks EXCEPT ![t].state = "recovery_required"] BY <2>2, <3>1 DEF RequireRecovery
      <4> QED BY <3>1, <4>1, OneTaskWritten
    <3>2. CASE tasks[t].state # "active"
      <4>1. UNCHANGED tasks BY <1>a, <2>2, <3>2 DEF RequireRecovery, TypeOK
      <4> QED BY <4>1, OneTaskWritten
    <3> QED BY <3>1, <3>2
  <2>3. CASE \E s \in {"succeeded", "failed"} :
               tasks[t].state = "active" /\ tasks' = [tasks EXCEPT ![t].state = s]
    BY <2>3, OneTaskWritten
  <2> QED BY <2>1, <2>2, <2>3, OneTaskWritten
<1> QED BY <1>1, <1>2, <1>3, <1>4, <1>5

LEMMA CallStepMoves ==
  ASSUME TypeOK, CallsNameTasks, NamedAreCreated, NEW c \in Callers, CallStep(c),
         ~StopAll(c), ~CancelActiveTasks(c)
  PROVE  UNCHANGED tasks \/ \E t \in Tasks : TaskGoes(t) /\ OthersRest(t)
<1> USE DEF Pending, TaskStates
<1>1. ~FinalizeStop(c) BY DEF FinalizeStop, NamedAreCreated
<1>2. ASSUME NEW t \in Tasks, NEW k \in DOMAIN clars[t], ResumeClarification(c, t, k)
      PROVE  TaskGoes(t) /\ OthersRest(t)
  BY <1>2, OneTaskWritten DEF ResumeClarification
<1>3. ASSUME ExpireTask(c) \/ ExpireClarification(c) \/ WithdrawInCancel(c) \/ RequestCancel(c)
               \/ FinalizeCancel(c)
      PROVE  \E t \in Tasks : TaskGoes(t) /\ OthersRest(t)
  <2> DEFINE t == calls[c].task
  <2>1. t \in Tasks /\ tasks[t].state # "absent"
    <3>1. calls[c].pc \in {"expire", "expire_unanswered", "expire_lapsed", "cancel_clarification",
                           "request_cancel", "finalize_cancel"}
      BY <1>3 DEF ExpireTask, ExpireClarification, WithdrawInCancel, RequestCancel, FinalizeCancel
    <3> QED BY <3>1 DEF CallsNameTasks, NamedAreCreated, CallHolds, Resting
  <2>2. \/ UNCHANGED tasks
        \/ tasks' = [tasks EXCEPT ![t].state = "expired"]
        \/ tasks' = [tasks EXCEPT ![t].state = "cancelled"]
        \/ tasks[t].state \in Pending /\ tasks' = [tasks EXCEPT ![t].cancel = TRUE]
    BY <1>3 DEF ExpireTask, ExpireClarification, WithdrawInCancel, Withdraw, RequestCancel, FinalizeCancel
  <2> QED BY <2>1, <2>2, OneTaskWritten
<1>4. ASSUME \/ \E t \in Tasks : CallTask(c, t) \/ Cancel(c, t)
             \/ ReadTask(c) \/ ReadClarification(c) \/ StopReturns(c)
      PROVE  UNCHANGED tasks
  BY <1>4 DEF CallTask, Cancel, ReadTask, ReadClarification, StopReturns
<1> QED BY <1>1, <1>2, <1>3, <1>4 DEF CallStep

\* What one step may show: one task goes on, or a stop reaches several that are open.
StopsSome == \E S \in SUBSET Tasks :
  /\ \A t \in S : Phase(t) = "open"
  /\ \A t \in Tasks : Phase(t)' = IF t \in S THEN "stopping" ELSE Phase(t)
OneGoes == \E t \in Tasks : PhaseGoes(t) /\ \A u \in Tasks \ {t} : Phase(u)' = Phase(u)

LEMMA SamePhase ==
  ASSUME NEW t \in Tasks, tasks'[t] = tasks[t]
  PROVE  Phase(t)' = Phase(t)
BY DEF Phase

LEMMA PhaseStep ==
  ASSUME LedgerAssumption, TypeOK, CallsNameTasks, SignalledStop, NamedAreCreated, [Next]_vars
  PROVE  OneGoes \/ StopsSome
<1>0. TypeOK' BY NextType
<1>1. ASSUME \A t \in Tasks : Phase(t)' = Phase(t) PROVE StopsSome
  <2>1. {} \in SUBSET Tasks OBVIOUS
  <2> QED BY <1>1, <2>1 DEF StopsSome
<1>2. ASSUME UNCHANGED tasks PROVE StopsSome BY <1>1, <1>2, SamePhase
<1>3. ASSUME NEW t \in Tasks, TaskGoes(t), OthersRest(t) PROVE OneGoes
  <2>1. PhaseGoes(t) BY <1>0, <1>3, GoesInPhase
  <2>2. \A u \in Tasks \ {t} : Phase(u)' = Phase(u) BY <1>3, SamePhase DEF OthersRest
  <2> QED BY <2>1, <2>2 DEF OneGoes
<1>4. ASSUME RequestAll PROVE StopsSome
  <2> DEFINE S == {t \in Tasks : Phase(t) = "open"}
  <2>0. \A t \in Tasks : tasks[t] \in TaskRow BY DEF TypeOK
  <2>1. ASSUME NEW t \in Tasks PROVE Phase(t)' = IF t \in S THEN "stopping" ELSE Phase(t)
    <3>1. CASE tasks[t].state \in Pending
      <4>1. tasks'[t] = [tasks[t] EXCEPT !.cancel = TRUE] BY <1>4, <3>1 DEF RequestAll, PendingTasks
      <4>2. tasks'[t].state \in Pending /\ tasks'[t].cancel BY <2>0, <3>1, <4>1 DEF TaskRow
      <4>3. Phase(t)' = "stopping" BY <4>2 DEF Phase, Pending
      <4>4. Phase(t) \in {"open", "stopping"} BY <3>1, PhaseIs
      <4> QED BY <4>3, <4>4
    <3>2. CASE tasks[t].state \notin Pending
      <4>1. tasks'[t] = tasks[t] BY <1>4, <3>2 DEF RequestAll, PendingTasks
      <4>2. Phase(t) # "open" BY <3>2, PhaseIs
      <4> QED BY <4>1, <4>2, SamePhase
    <3> QED BY <3>1, <3>2
  <2>2. S \in SUBSET Tasks /\ \A t \in S : Phase(t) = "open" OBVIOUS
  <2> HIDE DEF S
  <2> QED BY <2>1, <2>2 DEF StopsSome
<1>5. ASSUME RecoverInFlight PROVE StopsSome
  <2>0. \A t \in Tasks : tasks[t] \in TaskRow BY DEF TypeOK
  <2>1. ASSUME NEW t \in Tasks PROVE Phase(t)' = Phase(t)
    <3>1. tasks'[t] \in {tasks[t], RequireRecovery(tasks[t])} BY <1>5 DEF RecoverInFlight
    <3>2. CASE tasks'[t] = tasks[t] BY <3>2, SamePhase
    <3>3. CASE tasks[t].state = "active" /\ tasks'[t] = [tasks[t] EXCEPT !.state = "recovery_required"]
      <4>1. tasks'[t].state = "recovery_required" /\ tasks'[t].cancel = tasks[t].cancel
        BY <2>0, <3>3 DEF TaskRow
      <4> QED BY <3>3, <4>1 DEF Phase, Pending
    <3> QED BY <3>1, <3>2, <3>3 DEF RequireRecovery
  <2> QED BY <1>1, <2>1
<1>6. ASSUME NEW c \in Callers, CallStep(c) PROVE OneGoes \/ StopsSome
  <2>1. CASE StopAll(c) \/ CancelActiveTasks(c) BY <1>4, <2>1 DEF StopAll, CancelActiveTasks
  <2>2. CASE ~(StopAll(c) \/ CancelActiveTasks(c)) BY <1>2, <1>3, <1>6, <2>2, CallStepMoves
  <2> QED BY <2>1, <2>2
<1>7. ASSUME NEW t \in Tasks,
             Create(t) \/ ActionStep(t) \/ ClarificationStep(t) \/ SignalCancel(t) \/ TaskAges(t)
      PROVE  OneGoes
  BY <1>3, <1>7, TaskStepMoves
<1>8. ASSUME UNCHANGED vars \/ \E S \in SUBSET Callers : CallersDie(S) PROVE UNCHANGED tasks
  BY <1>8 DEF vars, CallersDie
<1> QED BY <1>2, <1>5, <1>6, <1>7, <1>8 DEF Next

-----------------------------------------------------------------------------
(* At most one effect is late.                                              *)

Ending == {"stopping", "over"}

\* The effect after the stop or the end was that of the last start, and there is no other.
LateHolds ==
  /\ late \in [Tasks -> {0, 1}]
  /\ \A t \in Tasks :
       late[t] = 1 => /\ Phase(t) \in Ending
                      /\ \A r \in Runners : ~(run[r].pc = "started" /\ run[r].task = t)

LEMMA EndingLasts ==
  ASSUME OneGoes \/ StopsSome, NEW t \in Tasks, Phase(t) \in Ending
  PROVE  Phase(t)' \in Ending
BY DEF OneGoes, StopsSome, PhaseGoes, Ending

LEMMA StartsByStartRow ==
  ASSUME Manned, [AgencyNext]_avars, NEW r \in Runners
  PROVE  run'[r] = run[r] \/ run'[r].pc # "started" \/ StartRow(r)
<1>1. ASSUME NEW q \in Runners, RunnerStep(q), ~StartRow(q) PROVE run'[r] = run[r] \/ run'[r].pc # "started"
  <2>1. run'[q].pc # "started"
    <3>1. /\ \A pc : Goto(q, pc) => run'[q].pc = pc
          /\ Fail(q) => run'[q].pc = "failing"
          /\ Leave(q) => run'[q].pc = "idle"
      BY DEF Goto, Fail, Leave, IdleRun, Manned
    <3>2. PrepareRow(q) => run'[q].pc \in {"bound", "failing"} BY <3>1 DEF PrepareRow, Manned
    <3>3. StartRun(q) \/ ResumeRun(q) \/ NextStep(q) \/ FinishRun(q) => run'[q].pc # "started"
      BY <3>1 DEF StartRun, ResumeRun, NextStep, FinishRun
    <3>4. ReadFailed(q) \/ FailRun(q) \/ LeaveRun(q) => run'[q].pc # "started"
      BY <3>1 DEF ReadFailed, FailRun, LeaveRun
    <3>5. ClaimRow(q) \/ Refrain(q) \/ Verify(q) \/ PhysicalEffect(q) => run'[q].pc # "started"
      BY <3>1 DEF ClaimRow, Refrain, Verify, PhysicalEffect
    <3> QED BY <1>1, <3>2, <3>3, <3>4, <3>5 DEF RunnerStep
  <2>2. CASE q = r BY <2>1, <2>2
  <2>3. CASE q # r
    <3>1. \/ run' = [run EXCEPT ![q] = IdleRun]
          \/ \E pc \in Running : run' = [run EXCEPT ![q].pc = pc]
          \/ run' = [run EXCEPT ![q].pc = "bound", ![q].row = Len(actions[run[q].task]) + 1]
      BY <1>1, RunMoves
    <3> QED BY <2>3, <3>1 DEF Manned
  <2> QED BY <2>2, <2>3
<1>2. ASSUME NEW q \in Runners, StartRow(q), q # r PROVE run'[r] = run[r]
  BY <1>2 DEF StartRow, Goto, Fail, Manned
<1>3. ASSUME \E q \in Runners, t \in Tasks : Enter(q, t, "entered") \/ Enter(q, t, "resuming")
      PROVE  run'[r] = run[r] \/ run'[r].pc # "started"
  BY <1>3 DEF Enter, Manned
<1>4. ASSUME \E p \in Procs : Crash(p) PROVE run'[r] = run[r] \/ run'[r].pc # "started"
  BY <1>4 DEF Crash, IdleRun
<1>5. ASSUME \/ \E c \in Callers : Continue(c) \/ Request(c)
             \/ \E t \in Tasks : OwnerStep(t) \/ Passes(t)
             \/ \E p \in Procs : Start(p)
             \/ UNCHANGED avars
      PROVE  UNCHANGED run
  BY <1>5 DEF Continue, Request, OwnerStep, Passes, Start, avars
<1> QED BY <1>1, <1>2, <1>3, <1>4, <1>5 DEF AgencyNext

LEMMA OnlyTheActorActs ==
  ASSUME [AgencyNext]_avars
  PROVE  UNCHANGED <<effects, late>> \/ \E r \in Runners : PhysicalEffect(r)
BY DEF AgencyNext, RunnerStep, StartRun, ResumeRun, NextStep, FinishRun, ReadFailed, FailRun, LeaveRun,
       PrepareRow, ClaimRow, StartRow, Refrain, Verify, Unharmed, Enter, Continue, Request, OwnerStep,
       Passes, Crash, Start, avars

LEMMA LateKept ==
  ASSUME TypeOK, Manned, NamedAreCreated, LateHolds, OneGoes \/ StopsSome, [AgencyNext]_avars
  PROVE  LateHolds'
<1>1. ASSUME NEW r \in Runners, PhysicalEffect(r) PROVE LateHolds'
  <2> DEFINE t == run[r].task
  <2>1. /\ run[r].pc = "started" /\ t \in Tasks /\ guard = r /\ tasks[t].state # "absent"
        /\ UNCHANGED tasks
        /\ late' = [late EXCEPT ![t] = IF Stopped(t) THEN @ + 1 ELSE @]
    BY <1>1 DEF PhysicalEffect, At, Manned, NamedAreCreated, RunHolds, vars
  <2>2. \A q \in Runners : run'[q].pc # "started"
    <3>1. run'[r].pc = "acted" /\ \A q \in Runners : q # r => run'[q].pc = "idle"
      BY <1>1, <2>1 DEF PhysicalEffect, Goto, Manned
    <3> QED BY <3>1
  <2>3. late[t] = 0 BY <2>1 DEF LateHolds
  <2>4. Stopped(t) => Phase(t) \in Ending
    <3>1. tasks[t].cancel \in BOOLEAN BY <2>1 DEF TypeOK, TaskRow
    <3> QED BY <2>1, <3>1, PhaseIs DEF Stopped, Ending
  <2>5. \A u \in Tasks : Phase(u)' = Phase(u) BY <2>1, SamePhase
  <2>6. ASSUME NEW u \in Tasks PROVE late'[u] \in {0, 1} /\ (late'[u] = 1 => Phase(u) \in Ending)
    <3>1. CASE u = t BY <2>1, <2>3, <2>4, <3>1 DEF LateHolds
    <3>2. CASE u # t
      <4>1. late'[u] = late[u] BY <2>1, <3>2 DEF LateHolds
      <4> QED BY <4>1 DEF LateHolds
    <3> QED BY <3>1, <3>2
  <2>7. late' \in [Tasks -> {0, 1}]
    <3>1. late' = [u \in Tasks |-> late'[u]] BY <2>1 DEF LateHolds
    <3> QED BY <2>6, <3>1
  <2> QED BY <2>2, <2>5, <2>6, <2>7 DEF LateHolds
<1>2. CASE UNCHANGED late
  <2> SUFFICES ASSUME NEW t \in Tasks, late[t] = 1
               PROVE  /\ Phase(t)' \in Ending
                      /\ \A r \in Runners : ~(run'[r].pc = "started" /\ run'[r].task = t)
    BY <1>2 DEF LateHolds
  <2>1. Phase(t) \in Ending BY DEF LateHolds
  <2>2. ASSUME NEW r \in Runners, run'[r].pc = "started", run'[r].task = t PROVE FALSE
    <3>1. CASE run'[r] = run[r] BY <2>2, <3>1 DEF LateHolds
    <3>2. CASE StartRow(r)
      <4>1. run'[r].task = run[r].task BY <3>2 DEF StartRow, Goto, Fail, Manned
      <4>2. Goto(r, "started") \/ Fail(r) BY <3>2 DEF StartRow
      <4>3. ~Fail(r) BY <2>2 DEF Fail, Goto, Manned
      <4>4. Live(t) /\ ~tasks[t].cancel BY <2>2, <3>2, <4>1, <4>3 DEF StartRow
      <4>5. Phase(t) = "open" BY <4>4, PhaseIs DEF Live, Pending
      <4> QED BY <2>1, <4>5 DEF Ending
    <3> QED BY <2>2, <3>1, <3>2, StartsByStartRow
  <2> QED BY <2>1, <2>2, EndingLasts
<1> QED BY <1>1, <1>2, OnlyTheActorActs

-----------------------------------------------------------------------------
(* Effects are counted.                                                     *)

Landed(f) == {i \in 1..MaxActions : f[i] = 1}

\* The sum over a task's rows, each with one effect or none, is how many have one.
LEMMA SumCounts ==
  ASSUME LedgerAssumption, NEW f, \A i \in 1..MaxActions : f[i] \in {0, 1}
  PROVE  Sum(f) = Cardinality(Landed(f)) /\ Sum(f) \in Nat
<1> DEFINE Rows(n) == {i \in 1..n : f[i] = 1}
           g == [n \in 0..MaxActions |-> Cardinality(Rows(n))]
           Adds(s) == s = [n \in 0..MaxActions |-> IF n = 0 THEN 0 ELSE s[n - 1] + f[n]]
<1>0. MaxActions \in Nat BY DEF LedgerAssumption
<1>1. \A n \in 0..MaxActions : IsFiniteSet(Rows(n)) /\ Cardinality(Rows(n)) \in Nat
  <2> SUFFICES ASSUME NEW n \in 0..MaxActions
               PROVE  IsFiniteSet(Rows(n)) /\ Cardinality(Rows(n)) \in Nat
    OBVIOUS
  <2>1. n \in Int /\ IsFiniteSet(1..n) BY <1>0, FS_Interval
  <2>2. Rows(n) \subseteq 1..n OBVIOUS
  <2> HIDE DEF Rows
  <2> QED BY <2>1, <2>2, FS_Subset, FS_CardinalityType
<1>2. Cardinality(Rows(0)) = 0
  <2>1. Rows(0) = {} OBVIOUS
  <2> QED BY <2>1, FS_EmptySet
<1>3. ASSUME NEW n \in 1..MaxActions
      PROVE  Cardinality(Rows(n)) = Cardinality(Rows(n - 1)) + f[n]
  <2>0. n \in Nat /\ n - 1 \in 0..MaxActions BY <1>0
  <2>1. CASE f[n] = 1
    <3>1. Rows(n) = Rows(n - 1) \cup {n} /\ n \notin Rows(n - 1) BY <2>0, <2>1
    <3>2. IsFiniteSet(Rows(n - 1)) BY <1>1, <2>0
    <3> HIDE DEF Rows
    <3>3. Cardinality(Rows(n - 1) \cup {n}) = Cardinality(Rows(n - 1)) + 1
      BY <3>1, <3>2, FS_AddElement
    <3> QED BY <2>1, <3>1, <3>3
  <2>2. CASE f[n] = 0
    <3>1. Rows(n) = Rows(n - 1) BY <2>0, <2>2
    <3>2. Cardinality(Rows(n - 1)) \in Nat BY <1>1, <2>0
    <3> HIDE DEF Rows
    <3> QED BY <2>2, <3>1, <3>2
  <2> QED BY <2>1, <2>2
<1> HIDE DEF Rows
<1>4. Adds(g)
  <2>1. ASSUME NEW n \in 0..MaxActions PROVE g[n] = IF n = 0 THEN 0 ELSE g[n - 1] + f[n]
    <3>1. CASE n = 0 BY <1>2, <3>1
    <3>2. CASE n # 0
      <4>1. n \in 1..MaxActions /\ n - 1 \in 0..MaxActions BY <1>0, <3>2
      <4> QED BY <1>3, <3>2, <4>1
    <3> QED BY <3>1, <3>2
  <2> QED BY <2>1
<1> DEFINE s == CHOOSE h : Adds(h)
<1>5. Adds(s) /\ Sum(f) = s[MaxActions]
  <2>1. Sum(f) = s[MaxActions] BY DEF Sum
  <2> QED BY <1>4, <2>1
<1> HIDE DEF s, g
<1>6. \A n \in 0..MaxActions : s[n] = Cardinality(Rows(n))
  <2> DEFINE T == {n \in 0..MaxActions : s[n] # Cardinality(Rows(n))}
  <2>1. ASSUME T # {} PROVE FALSE
    <3> DEFINE R == OpToRel(<, Nat)
    <3>1. IsWellFoundedOn(R, Nat) BY NatLessThanWellFounded
    <3>2. \A x, y \in Nat : x < y => <<x, y>> \in R BY DEF OpToRel
    <3> HIDE DEF R
    <3>3. T \in SUBSET Nat BY <1>0
    <3>4. PICK n \in T : \A m \in T : ~ (<<m, n>> \in R) BY <2>1, <3>1, <3>3, WFMin
    <3>5. n \in 0..MaxActions /\ s[n] # Cardinality(Rows(n)) BY <3>4
    <3>6. n # 0 BY <1>2, <1>5, <3>5
    <3>7. n - 1 \in 0..MaxActions /\ n \in 1..MaxActions /\ n - 1 < n BY <1>0, <3>5, <3>6
    <3>8. n - 1 \notin T
      <4>1. n - 1 \in Nat /\ n \in Nat BY <1>0, <3>7
      <4> QED BY <3>2, <3>4, <3>7, <4>1
    <3>9. s[n - 1] = Cardinality(Rows(n - 1)) BY <3>7, <3>8
    <3>10. s[n] = s[n - 1] + f[n] BY <1>5, <3>5, <3>6
    <3> QED BY <1>3, <3>5, <3>7, <3>9, <3>10
  <2> QED BY <2>1
<1>7. MaxActions \in 0..MaxActions BY <1>0
<1>8. Rows(MaxActions) = Landed(f) BY DEF Rows, Landed
<1> QED BY <1>1, <1>5, <1>6, <1>7, <1>8

\* A row that is about to have its effect is charged, and so are those that had theirs.
LEMMA RoomForTheEffect ==
  ASSUME LedgerAssumption, TypeOK, NotExecutedMeansNotStarted, EffectsOnRecord,
         NEW t \in Tasks, CountHolds(t), NEW i \in DOMAIN actions[t],
         actions[t][i].started, i \notin Landed(effects[t])
  PROVE  Sum(effects[t]) < Budget
<1>1. \A j \in 1..MaxActions : effects[t][j] \in {0, 1} BY DEF EffectsOnRecord
<1>2. Sum(effects[t]) = Cardinality(Landed(effects[t])) /\ Sum(effects[t]) \in Nat BY <1>1, SumCounts
<1>3. \A j \in DOMAIN actions[t] : actions[t][j].started => j \in Claimed(t)
  <2>1. \A j \in DOMAIN actions[t] : actions[t][j] \in ActionRow BY DEF TypeOK
  <2> QED BY <2>1 DEF NotExecutedMeansNotStarted, Claimed, InState, ActionRow, ActionStates, ClaimedStates
<1>4. Landed(effects[t]) \cup {i} \subseteq Claimed(t) BY <1>3 DEF EffectsOnRecord, Landed
<1>5. /\ IsFiniteSet(Landed(effects[t]) \cup {i})
      /\ Cardinality(Landed(effects[t]) \cup {i}) <= Cardinality(Claimed(t))
  BY <1>4, ClaimsAreFinite, FS_Subset
<1>6. IsFiniteSet(Landed(effects[t]))
  <2>1. Landed(effects[t]) \subseteq Landed(effects[t]) \cup {i} OBVIOUS
  <2> QED BY <1>5, <2>1, FS_Subset
<1>7. Cardinality(Landed(effects[t]) \cup {i}) = Cardinality(Landed(effects[t])) + 1
  BY <1>6, FS_AddElement
<1>8. Cardinality(Claimed(t)) <= Budget /\ Budget \in Nat /\ Cardinality(Claimed(t)) \in Nat
  BY ClaimsAreFinite DEF CountHolds, LedgerAssumption
<1> QED BY <1>2, <1>5, <1>7, <1>8

LEMMA OneMoreEffect ==
  ASSUME LedgerAssumption, EffectsOnRecord, NEW t \in Tasks, NEW i \in 1..MaxActions,
         effects[t][i] = 0, effects' = [effects EXCEPT ![t][i] = @ + 1]
  PROVE  /\ Sum(effects'[t]) = Sum(effects[t]) + 1
         /\ \A u \in Tasks \ {t} : effects'[u] = effects[u]
<1>1. DOMAIN effects = Tasks /\ \A u \in Tasks : DOMAIN effects[u] = 1..MaxActions BY DEF EffectsOnRecord
<1>2. \A j \in 1..MaxActions : effects'[t][j] = IF j = i THEN 1 ELSE effects[t][j] BY <1>1
<1>3. \A j \in 1..MaxActions : effects[t][j] \in {0, 1} /\ effects'[t][j] \in {0, 1}
  BY <1>2 DEF EffectsOnRecord
<1>4. /\ Sum(effects[t]) = Cardinality(Landed(effects[t]))
      /\ Sum(effects'[t]) = Cardinality(Landed(effects'[t]))
  BY <1>3, SumCounts
<1>5. Landed(effects'[t]) = Landed(effects[t]) \cup {i} /\ i \notin Landed(effects[t])
  BY <1>2 DEF Landed
<1>6. IsFiniteSet(Landed(effects[t]))
  <2>1. IsFiniteSet(1..MaxActions) BY FS_Interval DEF LedgerAssumption
  <2>2. Landed(effects[t]) \subseteq 1..MaxActions BY DEF Landed
  <2> QED BY <2>1, <2>2, FS_Subset
<1>7. Cardinality(Landed(effects[t]) \cup {i}) = Cardinality(Landed(effects[t])) + 1
  BY <1>5, <1>6, FS_AddElement
<1>8. \A u \in Tasks \ {t} : effects'[u] = effects[u] BY <1>1
<1> QED BY <1>4, <1>5, <1>7, <1>8

-----------------------------------------------------------------------------
(* The agency implements the contract.                                      *)

Phases == [t \in Tasks |-> Phase(t)]
Totals == [t \in Tasks |-> Sum(effects[t])]

LEMMA ContractStart == AgencyInit => Owner!ContractInit
<1> SUFFICES ASSUME AgencyInit PROVE Owner!ContractInit
  OBVIOUS
<1>1. \A t \in Tasks : Phase(t) = "none"
  <2>1. Init BY DEF AgencyInit
  <2>2. TypeOK BY <2>1, InitType
  <2>3. \A t \in Tasks : tasks[t].state = "absent" BY <2>1 DEF Init
  <2> QED BY <2>2, <2>3, PhaseIs
<1>2. \A t \in Tasks : Sum(effects[t]) = 0
  <2> SUFFICES ASSUME NEW t \in Tasks PROVE Sum(effects[t]) = 0
    OBVIOUS
  <2>1. \A i \in 1..MaxActions : effects[t][i] = 0 BY DEF AgencyInit
  <2>2. Landed(effects[t]) = {} BY <2>1 DEF Landed
  <2>3. Sum(effects[t]) = Cardinality({}) BY <2>1, <2>2, SumCounts, LedgerAssumption
  <2> QED BY <2>3, FS_EmptySet
<1>3. late = [t \in Tasks |-> 0] BY DEF AgencyInit
<1> QED BY <1>1, <1>2, <1>3 DEF Owner!ContractInit

\* Steps that have no effect: the contract's Open, Stop and End, or none of its steps.
LEMMA ContractRests ==
  ASSUME OneGoes \/ StopsSome, UNCHANGED <<effects, late>>
  PROVE  [Owner!ContractNext]_Owner!cvars
<1>1. Totals' = Totals /\ UNCHANGED late BY DEF Totals
<1>2. ASSUME NEW t \in Tasks, PhaseGoes(t), \A u \in Tasks \ {t} : Phase(u)' = Phase(u)
      PROVE  [Owner!ContractNext]_Owner!cvars
  <2>1. ASSUME NEW p, Phase(t)' = p PROVE Phases' = [Phases EXCEPT ![t] = p]
    BY <1>2, <2>1 DEF Phases
  <2>2. CASE Phase(t)' = Phase(t)
    <3>1. Phases' = Phases BY <1>2, <2>2 DEF Phases
    <3> QED BY <1>1, <3>1 DEF Owner!cvars, Phases, Totals
  <2>3. CASE Phase(t) = "none" /\ Phase(t)' = "open"
    <3>1. Phases[t] = "none" /\ Phases' = [Phases EXCEPT ![t] = "open"]
      <4>1. Phases[t] = "none" BY <2>3 DEF Phases
      <4> QED BY <2>1, <2>3, <4>1
    <3>2. Owner!Open(t) BY <1>1, <3>1 DEF Owner!Open, Phases, Totals
    <3> QED BY <3>2 DEF Owner!ContractNext
  <2>4. CASE Phase(t) = "open" /\ Phase(t)' = "stopping"
    <3>1. \A u \in {t} : Phases[u] = "open" BY <2>4 DEF Phases
    <3>2. Phases' = [u \in Tasks |-> IF u \in {t} THEN "stopping" ELSE Phases[u]]
      BY <1>2, <2>4 DEF Phases
    <3>3. Owner!Stop({t}) BY <1>1, <3>1, <3>2 DEF Owner!Stop, Phases, Totals
    <3>4. {t} \in SUBSET Tasks OBVIOUS
    <3> QED BY <3>3, <3>4 DEF Owner!ContractNext
  <2>5. CASE Phase(t) \in {"open", "stopping"} /\ Phase(t)' = "over"
    <3>1. Phases[t] \in {"open", "stopping"} BY <2>5 DEF Phases
    <3>2. Phases' = [Phases EXCEPT ![t] = "over"] BY <2>1, <2>5
    <3>3. Owner!End(t) BY <1>1, <3>1, <3>2 DEF Owner!End, Phases, Totals
    <3> QED BY <3>3 DEF Owner!ContractNext
  <2> QED BY <1>2, <2>2, <2>3, <2>4, <2>5 DEF PhaseGoes
<1>3. ASSUME StopsSome PROVE [Owner!ContractNext]_Owner!cvars
  <2>1. PICK S \in SUBSET Tasks :
          /\ \A t \in S : Phase(t) = "open"
          /\ \A t \in Tasks : Phase(t)' = IF t \in S THEN "stopping" ELSE Phase(t)
    BY <1>3 DEF StopsSome
  <2>2. CASE S = {}
    <3>1. Phases' = Phases BY <2>1, <2>2 DEF Phases
    <3> QED BY <1>1, <3>1 DEF Owner!cvars, Phases, Totals
  <2>3. CASE S # {}
    <3>1. \A t \in S : Phases[t] = "open" BY <2>1 DEF Phases
    <3>2. Phases' = [t \in Tasks |-> IF t \in S THEN "stopping" ELSE Phases[t]] BY <2>1 DEF Phases
    <3>3. Owner!Stop(S) BY <1>1, <2>3, <3>1, <3>2 DEF Owner!Stop, Phases, Totals
    <3> QED BY <3>3 DEF Owner!ContractNext
  <2> QED BY <2>2, <2>3
<1> QED BY <1>2, <1>3 DEF OneGoes

LEMMA ContractActs ==
  ASSUME LedgerAssumption, TypeOK, NotExecutedMeansNotStarted, AgencyInvariant, NamedAreCreated, LateHolds,
         \A t \in Tasks : CountHolds(t), NEW r \in Runners, PhysicalEffect(r)
  PROVE  Owner!ContractNext
<1> DEFINE t == run[r].task
           i == run[r].row
<1>1. /\ run[r].pc = "started" /\ t \in Tasks /\ i \in DOMAIN actions[t]
      /\ actions[t][i].started /\ tasks[t].state # "absent"
  BY DEF PhysicalEffect, At, AgencyInvariant, Manned, OnRow, RowIsHeld, NamedAreCreated, RunHolds
<1>2. i \in 1..MaxActions /\ effects[t][i] = 0 BY <1>1 DEF AgencyInvariant, EffectsOnRecord
<1>3. effects' = [effects EXCEPT ![t][i] = @ + 1] /\ UNCHANGED tasks BY DEF PhysicalEffect, vars
<1>4. late' = [late EXCEPT ![t] = IF Stopped(t) THEN @ + 1 ELSE @] BY DEF PhysicalEffect
<1>5. late[t] = 0 /\ late \in [Tasks -> {0, 1}] BY <1>1 DEF LateHolds
<1> HIDE DEF t, i
<1>6. Sum(effects[t]) < Budget
  <2>1. i \notin Landed(effects[t]) BY <1>2 DEF Landed
  <2> QED BY <1>1, <2>1, RoomForTheEffect DEF AgencyInvariant
<1>7. /\ Sum(effects'[t]) = Sum(effects[t]) + 1
      /\ \A u \in Tasks \ {t} : effects'[u] = effects[u]
  BY <1>1, <1>2, <1>3, OneMoreEffect DEF AgencyInvariant
<1>8. Totals' = [Totals EXCEPT ![t] = @ + 1] /\ Totals[t] < Budget
  <2>1. Totals[t] = Sum(effects[t]) BY <1>1 DEF Totals
  <2>2. \A u \in Tasks \ {t} : Sum(effects'[u]) = Sum(effects[u]) BY <1>7
  <2>3. Totals' = [u \in Tasks |-> Sum(effects'[u])] BY DEF Totals
  <2>4. DOMAIN Totals = Tasks /\ \A u \in Tasks : Totals[u] = Sum(effects[u]) BY DEF Totals
  <2>5. Totals' = [Totals EXCEPT ![t] = @ + 1]
    <3>1. \A u \in Tasks : Totals'[u] = [Totals EXCEPT ![t] = @ + 1][u]
      BY <1>1, <1>7, <2>2, <2>3, <2>4
    <3> QED BY <2>3, <2>4, <3>1
  <2> QED BY <1>6, <2>1, <2>5
<1>9. Phases' = Phases BY <1>3, SamePhase DEF Phases
<1>10. CASE Stopped(t)
  <2>1. tasks[t].cancel \in BOOLEAN BY <1>1 DEF TypeOK, TaskRow
  <2>2. Phases[t] \in {"stopping", "over"} BY <1>1, <1>10, <2>1, PhaseIs DEF Phases, Stopped
  <2>3. late' = [late EXCEPT ![t] = 1] BY <1>4, <1>5, <1>10
  <2>4. Owner!LateEffect(t) BY <1>5, <1>8, <1>9, <2>2, <2>3 DEF Owner!LateEffect, Phases, Totals
  <2> QED BY <1>1, <2>4 DEF Owner!ContractNext
<1>11. CASE ~Stopped(t)
  <2>1. Phases[t] = "open" BY <1>1, <1>11, PhaseIs DEF Phases, Stopped
  <2>2. UNCHANGED late BY <1>4, <1>5, <1>11
  <2>3. Owner!Effect(t) BY <1>8, <1>9, <2>1, <2>2 DEF Owner!Effect, Phases, Totals
  <2> QED BY <1>1, <2>3 DEF Owner!ContractNext
<1> QED BY <1>10, <1>11

\* What the refinement rests on, besides the invariants of ledger and agency.
ContractInvariant ==
  SignalledStop /\ NamedAreCreated /\ LateHolds /\ \A t \in Tasks : CountHolds(t)

\* What the owner was promised of a task: its physical effects come while it is open and within
\* its budget, after a stop or its end at most the one that had crossed the actor-start boundary
\* (desktop/agency.py 514-541), and a task that is over stays over; for any number of tasks, rows,
\* threads and processes, over crashes, recoveries, resumed plans and stops.
THEOREM AgencyImplementsContract == AgencySpec => ImplementsContract
<1> USE LedgerAssumption, AgencyAssumption
<1>1. AgencyInit => Owner!ContractInit /\ ContractInvariant
  <2> SUFFICES ASSUME AgencyInit PROVE Owner!ContractInit /\ ContractInvariant
    OBVIOUS
  <2>1. Init BY DEF AgencyInit
  <2>2. SignalledStop BY <2>1 DEF Init, SignalledStop, IdleCall
  <2>3. NamedAreCreated
    BY <2>1 DEF AgencyInit, Init, NamedAreCreated, CallHolds, RunHolds, IdleCall, IdleRun, Resting
  <2>4. LateHolds BY DEF AgencyInit, LateHolds
  <2> QED BY <2>1, <2>2, <2>3, <2>4, ContractStart, NothingCharged DEF ContractInvariant
<1>2. /\ TypeOK /\ CallsNameTasks /\ NotExecutedMeansNotStarted /\ AgencyInvariant
      /\ ContractInvariant /\ [AgencyNext]_avars /\ [Next]_vars
      => ContractInvariant' /\ [Owner!ContractNext]_Owner!cvars
  <2> SUFFICES ASSUME TypeOK, CallsNameTasks, NotExecutedMeansNotStarted, AgencyInvariant,
                      ContractInvariant, [AgencyNext]_avars, [Next]_vars
               PROVE  ContractInvariant' /\ [Owner!ContractNext]_Owner!cvars
    OBVIOUS
  <2>0. /\ Manned /\ SignalledStop /\ NamedAreCreated /\ LateHolds
        /\ \A t \in Tasks : CountHolds(t)
    BY DEF AgencyInvariant, ContractInvariant
  <2>1. OneGoes \/ StopsSome BY <2>0, PhaseStep
  <2>2. SignalledStop' BY <2>0, StopsAreSignalled
  <2>3. NamedAreCreated' BY <2>0, NamedStayCreated
  <2>4. LateHolds' BY <2>0, <2>1, LateKept
  <2>5. \A t \in Tasks : CountHolds(t)' BY <2>0, NextCounts
  <2>6. ASSUME UNCHANGED <<effects, late>> PROVE [Owner!ContractNext]_Owner!cvars
    BY <2>1, <2>6, ContractRests
  <2>7. ASSUME NEW r \in Runners, PhysicalEffect(r) PROVE Owner!ContractNext
    BY <2>0, <2>7, ContractActs
  <2>8. [Owner!ContractNext]_Owner!cvars BY <2>6, <2>7, OnlyTheActorActs
  <2> QED BY <2>2, <2>3, <2>4, <2>5, <2>8 DEF ContractInvariant
<1> QED BY <1>1, <1>2, UsesTheLedger, PTL DEF AgencySpec, ImplementsContract, Owner!Contract
=============================================================================
