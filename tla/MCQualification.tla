--------------------------- MODULE MCQualification ---------------------------
(***************************************************************************)
(* A Stage 32 session and its physical gates on one instance.  The session  *)
(* sees of the gates only that one passes or fails, the gates see of the    *)
(* session only that a restoration was requested: `part` chooses which of   *)
(* them a behaviour is about, and the other rests in its initial state.     *)
(***************************************************************************)
EXTENDS QualificationSession, PhysicalGates

VARIABLE part

qualificationVars == <<part, qVars, pgVars>>

QualificationInit ==
  /\ part \in {"session", "gates"} /\ QInit /\ PGInit
  /\ part = "gates" => mode = Physical

OfSession == part = "session" /\ UNCHANGED <<part, pgVars>>
OfGates   == part = "gates" /\ UNCHANGED <<part, qVars>>

QualificationNext == (OfSession /\ QNext) \/ (OfGates /\ PGNext)

QualificationSpec ==
  /\ QualificationInit /\ [][QualificationNext]_qualificationVars
  /\ WF_qualificationVars(OfSession /\ TimerFires)
  /\ WF_qualificationVars(OfSession /\ Restoration)
  /\ WF_qualificationVars(OfSession /\ StartupReconcile)
  /\ WF_qualificationVars(OfSession /\ Ending)

\* Every variable keeps its type: places, statuses and gates the code names.
QualificationTypeOK == QTypeOK /\ PGTypeOK
=============================================================================
