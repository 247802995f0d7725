------------------------------- MODULE MCOwner -------------------------------
(***************************************************************************)
(* What the assistant keeps for its owner, on one instance: the indexes of  *)
(* documents and of code, projects, memory, objectives and proactive        *)
(* notices.  Each keeps tables or files of its own, and what one sees of    *)
(* another is a bounded choice of its module: `part` chooses which of them  *)
(* a behaviour is about and the others rest in one initial state.           *)
(***************************************************************************)
EXTENDS DocumentIndex, CodeIndex, OwnerProjects, OwnerMemory, Objectives, ProactiveEvents, TLC

VARIABLE part

ownerVars == <<part, diVars, ciVars, opVars, omVars, obVars, peVars>>

OwnerInit ==
  /\ part \in {"documents", "code", "projects", "memory", "objectives", "events"}
  /\ DIInit /\ CIInit /\ OPInit /\ OMInit /\ OBInit /\ PEInit
  /\ part # "code"     => tree = [f \in Files |-> NoFile]
  /\ part # "projects" => \A c \in Skills : missions[c].n = 0

\* A step of one part: the others rest.
OfDocuments  == part = "documents" /\ UNCHANGED <<part, ciVars, opVars, omVars, obVars, peVars>>
OfCode       == part = "code" /\ UNCHANGED <<part, diVars, opVars, omVars, obVars, peVars>>
OfProjects   == part = "projects" /\ UNCHANGED <<part, diVars, ciVars, omVars, obVars, peVars>>
OfMemory     == part = "memory" /\ UNCHANGED <<part, diVars, ciVars, opVars, obVars, peVars>>
OfObjectives == part = "objectives" /\ UNCHANGED <<part, diVars, ciVars, opVars, omVars, peVars>>
OfEvents     == part = "events" /\ UNCHANGED <<part, diVars, ciVars, opVars, omVars, obVars>>

OwnerNext ==
  \/ OfDocuments /\ DINext
  \/ OfCode /\ CINext
  \/ OfProjects /\ OPNext
  \/ OfMemory /\ OMNext
  \/ OfObjectives /\ OBNext
  \/ OfEvents /\ PENext

OwnerSpec == OwnerInit /\ [][OwnerNext]_ownerVars

\* Requests and submissions of a project are interchangeable.
Interchangeable == Permutations(ProjectHandlers) \cup Permutations(Submissions)
=============================================================================
