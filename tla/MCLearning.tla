------------------------------ MODULE MCLearning ------------------------------
(***************************************************************************)
(* The owner's learning on one instance: the Career Forge course            *)
(* (assessment, mastery and publication), learning paths, and a lesson held *)
(* by voice.  Each keeps tables of its own, and what one sees of another is *)
(* a bounded choice of its module: `part` chooses which of them a behaviour *)
(* is about and the others rest in one initial state.  An assessment is     *)
(* split once more, by what the owner is asked: interview and code          *)
(* questions, or transfer and review.                                       *)
(***************************************************************************)
EXTENDS CareerAssessment, CareerMastery, CareerPublication, LearningPath, VoiceLearning

VARIABLE part

\* The artifact differs between one commit of the task and the others, which share its blob.
BlobOf(c) == c = (CHOOSE first \in Commits : TRUE)

learningVars == <<part, caVars, cmVars, cpVars, lpVars, vlVars>>

LearningInit ==
  /\ part \in {"questions", "transfer", "mastery", "publication", "path", "voice"}
  /\ CAInit /\ CMInit /\ CPInit /\ LPInit /\ VLInit
  /\ Here.plan.edges = {<<t, t + 1>> : t \in 1..(Topics - 1)}
  /\ part # "transfer"    => review.state = "none"
  /\ part # "publication" => commit = CHOOSE c \in Commits : TRUE
  /\ part # "path"        => Here.plan.milestone = 0

\* A step of one part: the others rest.
OfAssessment(p) == part = p /\ UNCHANGED <<part, cmVars, cpVars, lpVars, vlVars>>
OfMastery       == part = "mastery" /\ UNCHANGED <<part, caVars, cpVars, lpVars, vlVars>>
OfPublication   == part = "publication" /\ UNCHANGED <<part, caVars, cmVars, lpVars, vlVars>>
OfPath          == part = "path" /\ UNCHANGED <<part, caVars, cmVars, cpVars, vlVars>>
OfVoice         == part = "voice" /\ UNCHANGED <<part, caVars, cmVars, cpVars, lpVars>>

\* Nothing but interview and code questions, nothing but transfer and review is asked.
NoTransfer  == item'.state = "none" /\ review'.state = "none"
NoQuestions == interview'.state = "none" /\ codeQuestion' = 0 /\ draft' = draft

LearningNext ==
  \/ OfAssessment("questions") /\ CANext /\ NoTransfer
  \/ OfAssessment("transfer") /\ CANext /\ NoQuestions
  \/ OfMastery /\ CMNext
  \/ OfPublication /\ CPNext
  \/ OfPath /\ LPNext
  \/ OfVoice /\ VLNext

LearningSpec == LearningInit /\ [][LearningNext]_learningVars
=============================================================================
