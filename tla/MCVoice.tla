------------------------------- MODULE MCVoice -------------------------------
(***************************************************************************)
(* What runs while the owner speaks with the assistant, on one instance:    *)
(* the wake microphone, the wake detector, a voice turn, the synthesis of   *)
(* its sentences, and the voice actions on computer tasks.  They share no   *)
(* state: WakeMicrophone asks WakeDetector for one verdict at a time, its   *)
(* session is what VoiceTurn runs, a sentence it plays is one request of    *)
(* PiperSynthesis, and VoiceComputerActions is a turn that took a computer  *)
(* task instead of an answer.  So `part` chooses which of them a behaviour  *)
(* is about and the others rest in their initial state.                     *)
(***************************************************************************)
EXTENDS WakeMicrophone, VoiceTurn, PiperSynthesis, WakeDetector, VoiceComputerActions

VARIABLE part

pipelineVars   == <<wakeVars, voiceVars, piperVars, detectorVars>>
voicePartsVars == <<part, pipelineVars, vars>>

VoicePartsInit ==
  /\ part \in {"microphone", "turn", "synthesis", "detector", "actions"}
  /\ WakeInit /\ VoiceInit /\ PiperInit /\ DetectorInit /\ Init

\* A step of one part: the others rest.
OfPipeline(p) == part = p /\ UNCHANGED <<part, vars>>
OfMicrophone  == OfPipeline("microphone") /\ UNCHANGED <<voiceVars, piperVars, detectorVars>>
OfTurn        == OfPipeline("turn") /\ UNCHANGED <<wakeVars, piperVars, detectorVars>>
OfSynthesis   == OfPipeline("synthesis") /\ UNCHANGED <<wakeVars, voiceVars, detectorVars>>
OfDetector    == OfPipeline("detector") /\ UNCHANGED <<wakeVars, voiceVars, piperVars>>
OfActions     == part = "actions" /\ UNCHANGED <<part, pipelineVars>>

VoicePartsNext ==
  \/ OfMicrophone /\ WakeNext
  \/ OfTurn /\ VoiceNext
  \/ OfSynthesis /\ PiperNext
  \/ OfDetector /\ DetectorNext
  \/ OfActions /\ Next

\* The fairness of the two parts something must happen in, when they move.
VoicePartsFairness ==
  /\ WF_voicePartsVars(OfMicrophone /\ CaptureStep)
  /\ WF_voicePartsVars(OfMicrophone /\ SessionStep)
  /\ WF_voicePartsVars(OfMicrophone /\ PresentationStep)
  /\ WF_voicePartsVars(OfMicrophone /\ CloseStep)
  /\ WF_voicePartsVars(OfActions /\ TurnStep)
  /\ WF_voicePartsVars(OfActions /\ (StopTask \/ StopQuestion))

VoicePartsSpec ==
  VoicePartsInit /\ [][VoicePartsNext]_voicePartsVars /\ VoicePartsFairness

\* The microphone is not kept: the wake capture gets it back from a session,
\* a presentation or a computer task, and a turn about a task comes to its
\* end, however it is interrupted.
TurnsGiveBackTheMicrophone == MicrophoneReturns /\ ActionTurnEnds
=============================================================================
