----------------------------- MODULE MCExecution -----------------------------
(***************************************************************************)
(* The way of an engineering task from the repository to its pull request,  *)
(* on one instance: the repository is admitted and its plan loaded, the     *)
(* plan is carried out in the loop, the scope of a patch is judged, the     *)
(* reviewed work is committed or rolled back, and the reviewed task is      *)
(* published.  The stages follow one another and hand on one value each (a  *)
(* plan, a diff, a commit), which is a bounded choice of the next module:   *)
(* `part` chooses which of them a behaviour is about and the others rest in *)
(* one initial state.                                                       *)
(***************************************************************************)
EXTENDS RepositoryAdmission, ExecutionLoop, PatchScope, GitTransaction, Publication

VARIABLE part

executionVars == <<part, raVars, execVars, psVars, gtVars, publicationVars>>

NoCase == [file |-> << >>, patch |-> << >>, tool |-> "apply_patch", symbols |-> {"A"},
           newSymbols |-> {}, other |-> "nothing", allowed |-> {}]

ExecutionInit ==
  /\ part \in {"admission", "loop", "scope", "transaction", "publication"}
  /\ RAInit
  /\ ExecInit /\ (part # "loop" => cache = {} /\ ~ loop.inspected)
  /\ IF part = "scope" THEN PSInit ELSE scopeCase = NoCase /\ verdict = "none"
  /\ GTInit /\ (part # "transaction" => inOrder = {} /\ \A o \in DOMAIN option : ~ option[o])
  /\ PublicationInit /\ (part # "publication" => remote.base = None)

\* A step of one stage: the others rest.
OfAdmission   == part = "admission" /\ UNCHANGED <<part, execVars, psVars, gtVars, publicationVars>>
OfLoop        == part = "loop" /\ UNCHANGED <<part, raVars, psVars, gtVars, publicationVars>>
OfScope       == part = "scope" /\ UNCHANGED <<part, raVars, execVars, gtVars, publicationVars>>
OfTransaction == part = "transaction" /\ UNCHANGED <<part, raVars, execVars, psVars, publicationVars>>
OfPublication == part = "publication" /\ UNCHANGED <<part, raVars, execVars, psVars, gtVars>>

ExecutionNext ==
  \/ OfAdmission /\ RANext
  \/ OfLoop /\ ExecNext
  \/ OfScope /\ PSNext
  \/ OfTransaction /\ GTNext
  \/ OfPublication /\ PublicationNext

ExecutionSpec == ExecutionInit /\ [][ExecutionNext]_executionVars
=============================================================================
