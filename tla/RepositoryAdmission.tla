------------------------- MODULE RepositoryAdmission -------------------------
(***************************************************************************)
(* How a repository is admitted to autonomous work: its registration and   *)
(* readiness (onboarding.py), the plan made for it (planning/service.py)   *)
(* and the checks one run of the code agent makes before it edits anything *)
(* (agent/code_agent.py main).  Every process keeps the registry it read   *)
(* when it started and writes all of it back, so an entry another process  *)
(* made meanwhile may be lost.  The temporary file of a save has a fixed   *)
(* name that all processes share.                                          *)
(*                                                                         *)
(* `Target` is the repository whose path the owner may commit to, edit and *)
(* replace by another repository; the other identifiers stand for the rest *)
(* of the registry.  A process is a service that lives on (the gateway), or *)
(* one command (the onboarding CLI, an agent run).                         *)
(***************************************************************************)
EXTENDS Integers, FiniteSets

CONSTANTS Processes, RepositoryIds, Target,
          MaxCommits,  \* bound: commits the owner makes, the first included
          MaxSwaps,    \* bound: repositories put in the path's place
          MaxEdits,    \* bound: uncommitted edits and their removal
          MaxLoads     \* bound: processes started

ASSUME RAAssumption ==
  /\ Target \in RepositoryIds
  /\ {MaxCommits, MaxSwaps, MaxEdits, MaxLoads} \subseteq Nat

VARIABLES
  checkout,  \* [identity, head, dirty]: what is at the Target's path
  codeIndex, \* the repository's Stage 2 index: the content it was made from
  registry,  \* the file: the profile of each registered repository
  temporary, \* its .tmp file: what it holds, if it is there
  process,   \* each process: [pc, memory, ...]
  plan,      \* the approved plan: [commit, basis], if there is one
  accepted,  \* history: the identities registration ever accepted for Target
  used       \* [commits, swaps, edits, loads], and whether the owner went back

raVars == <<checkout, codeIndex, registry, temporary, process, plan, accepted, used>>

NoProfile == [identity |-> 0, head |-> 0]
NoFile == {}
NoPlan == [commit |-> 0, basis |-> <<0, FALSE>>]
NoMemory == [r \in RepositoryIds |-> NoProfile]
Stopped == [pc |-> "stopped", memory |-> NoMemory, id |-> Target, scan |-> NoProfile,
            expected |-> 0, bound |-> FALSE, plan |-> NoPlan, next |-> "up"]

RAInit ==
  /\ checkout = [identity |-> 1, head |-> 1, dirty |-> FALSE]
  /\ codeIndex = <<0, FALSE>> /\ registry = NoMemory /\ temporary = NoFile
  /\ process = [p \in Processes |-> Stopped] /\ plan = NoPlan /\ accepted = {}
  /\ used = [commits |-> 1, swaps |-> 0, edits |-> 0, loads |-> 0, back |-> FALSE]

ProcessAt(p, pc) == process[p].pc = pc
Proceeds(p, pc) == process' = [process EXCEPT ![p].pc = pc]
Quits(p) == process' = [process EXCEPT ![p] = Stopped]
Content == <<checkout.head, checkout.dirty>>

\* What a scan sees of a repository: only the Target's ever changes.
ProfileOf(id) == IF id = Target THEN [identity |-> checkout.identity, head |-> checkout.head]
                 ELSE [identity |-> 1, head |-> 1]

-----------------------------------------------------------------------------
(* The registry                                                             *)

Load(p) ==
  /\ ProcessAt(p, "stopped") /\ used.loads < MaxLoads
  /\ used' = [used EXCEPT !.loads = @ + 1]
  /\ process' = [process EXCEPT ![p] = [Stopped EXCEPT !.pc = "up", !.memory = registry]]
  /\ UNCHANGED <<checkout, codeIndex, registry, temporary, plan, accepted>>

\* The commit is read first, then the identity of what is at the path now.
ReadHead(p, id) ==
  /\ ProcessAt(p, "up")
  /\ process' = [process EXCEPT ![p].pc = "scan", ![p].id = id, ![p].scan.head = ProfileOf(id).head]
  /\ UNCHANGED <<checkout, codeIndex, registry, temporary, plan, accepted, used>>

Scanned(p) == [process[p].scan EXCEPT !.identity = ProfileOf(process[p].id).identity]
IdentityMatches(p) ==
  process[p].memory[process[p].id] # NoProfile =>
    process[p].memory[process[p].id].identity = Scanned(p).identity

\* A registration accepts an identifier it has not heard of; a readiness
\* check and a later registration compare with what they remember.
RegisterOrRefresh(p) ==
  /\ ProcessAt(p, "scan")
  /\ IF IdentityMatches(p)
     THEN /\ process' = [process EXCEPT ![p].memory[process[p].id] = Scanned(p),
                                        ![p].pc = "write", ![p].next = "up"]
          /\ accepted' = IF process[p].id = Target THEN accepted \cup {Scanned(p).identity}
                         ELSE accepted
     ELSE Proceeds(p, "up") /\ accepted' = accepted
  /\ UNCHANGED <<checkout, codeIndex, registry, temporary, plan, used>>

\* _save: all profiles of this process, through the shared temporary file.
WriteTemporary(p) ==
  /\ ProcessAt(p, "write")
  /\ temporary' = {process[p].memory} /\ Proceeds(p, "replace")
  /\ UNCHANGED <<checkout, codeIndex, registry, plan, accepted, used>>

\* Whoever replaces first installs whatever was written last; the other's
\* replace raises.
ReplaceRegistry(p) ==
  /\ ProcessAt(p, "replace")
  /\ IF temporary = NoFile THEN Quits(p) /\ UNCHANGED <<registry, temporary>>
     ELSE registry' \in temporary /\ temporary' = NoFile /\ Proceeds(p, process[p].next)
  /\ UNCHANGED <<checkout, codeIndex, plan, accepted, used>>

Quit(p) ==
  /\ ProcessAt(p, "up") /\ Quits(p)
  /\ UNCHANGED <<checkout, codeIndex, registry, temporary, plan, accepted, used>>

-----------------------------------------------------------------------------
(* The plan                                                                 *)

\* generate: the scope is analysed in the files as they are, the starting
\* commit is read after it; the owner may commit in between.
AnalyseScope ==
  /\ plan = NoPlan /\ plan' = [NoPlan EXCEPT !.basis = Content]
  /\ UNCHANGED <<checkout, codeIndex, registry, temporary, process, accepted, used>>

BindStartingCommit ==
  /\ plan.basis # NoPlan.basis /\ plan.commit = 0
  /\ plan' = [plan EXCEPT !.commit = checkout.head]
  /\ UNCHANGED <<checkout, codeIndex, registry, temporary, process, accepted, used>>

\* The owner has it planned again.
DiscardPlan ==
  /\ plan.commit # 0 /\ plan' = NoPlan
  /\ UNCHANGED <<checkout, codeIndex, registry, temporary, process, accepted, used>>

-----------------------------------------------------------------------------
(* One run of the code agent                                                *)

Stay == <<checkout, registry, temporary, plan, accepted, used>>

\* assert_ready_for_mutation, the first time: the commit the gateway bound,
\* or the one of the registration.  The token names the approved plan.
BeginRun(p) ==
  /\ ProcessAt(p, "up") /\ plan.commit # 0
  /\ process[p].memory[Target] # NoProfile
  /\ \E bound \in BOOLEAN :
       process' = [process EXCEPT ![p].pc = "admit", ![p].id = Target, ![p].plan = plan,
                     ![p].bound = bound, ![p].scan.head = checkout.head,
                     ![p].expected = IF bound THEN plan.commit
                                     ELSE process[p].memory[Target].head]
  /\ UNCHANGED <<codeIndex, Stay>>

Ready(p) == IdentityMatches(p) /\ process[p].scan.head = process[p].expected

Admit(p) ==
  /\ ProcessAt(p, "admit")
  /\ IF Ready(p)
     THEN process' = [process EXCEPT ![p].memory[Target] = Scanned(p),
                                     ![p].pc = "write", ![p].next = "dirty"]
     ELSE Quits(p)
  /\ UNCHANGED <<codeIndex, Stay>>

RefuseDirty(p) ==
  /\ ProcessAt(p, "dirty")
  /\ IF checkout.dirty THEN Quits(p) ELSE Proceeds(p, "index")
  /\ UNCHANGED <<codeIndex, Stay>>

Reindex(p) ==
  /\ ProcessAt(p, "index") /\ codeIndex' = Content /\ Proceeds(p, "plan")
  /\ UNCHANGED Stay

\* The mutants' form: the plan is taken for one of this commit.
TakeApprovedPlan(p) ==
  /\ ProcessAt(p, "plan")
  /\ IF plan = process[p].plan THEN Proceeds(p, "head") ELSE Quits(p)
  /\ UNCHANGED <<codeIndex, Stay>>

IdentityIssues == plan.commit # checkout.head

\* load_approved_plan takes the plan of the token only; then identity_issues:
\* the plan's commit is HEAD.
LoadApprovedPlan(p) ==
  /\ ProcessAt(p, "plan")
  /\ IF plan = process[p].plan /\ ~ IdentityIssues
     THEN Proceeds(p, "head") ELSE Quits(p)
  /\ UNCHANGED <<codeIndex, Stay>>

\* assert_ready_for_mutation again, with the index required.
ReadHeadAgain(p) ==
  /\ ProcessAt(p, "head")
  /\ process' = [process EXCEPT ![p].pc = "verify", ![p].scan.head = checkout.head]
  /\ UNCHANGED <<codeIndex, Stay>>

\* The index is compared with the files as they are now.
Verify(p) ==
  /\ ProcessAt(p, "verify")
  /\ IF Ready(p) /\ codeIndex = Content
     THEN process' = [process EXCEPT ![p].memory[Target] = Scanned(p),
                                     ![p].pc = "write", ![p].next = "worktree"]
     ELSE Quits(p)
  /\ UNCHANGED <<codeIndex, Stay>>

\* The worktree is made at the plan's starting commit, and the run goes on.
EndRun(p) ==
  /\ ProcessAt(p, "worktree") /\ Quits(p)
  /\ UNCHANGED <<codeIndex, Stay>>

-----------------------------------------------------------------------------
(* The owner                                                                *)

OwnerCommits ==
  /\ used.commits < MaxCommits /\ used' = [used EXCEPT !.commits = @ + 1]
  /\ checkout' = [checkout EXCEPT !.head = used.commits + 1, !.dirty = FALSE]
  /\ UNCHANGED <<codeIndex, registry, temporary, process, plan, accepted>>

\* The owner goes back to an earlier commit.
OwnerChecksOut ==
  /\ ~ used.back /\ used' = [used EXCEPT !.back = TRUE]
  /\ \E head \in 1..used.commits \ {checkout.head} :
       checkout' = [checkout EXCEPT !.head = head, !.dirty = FALSE]
  /\ checkout.identity = 1
  /\ UNCHANGED <<codeIndex, registry, temporary, process, plan, accepted>>

OwnerEdits ==
  /\ used.edits < MaxEdits /\ used' = [used EXCEPT !.edits = @ + 1]
  /\ checkout' = [checkout EXCEPT !.dirty = ~ @]
  /\ UNCHANGED <<codeIndex, registry, temporary, process, plan, accepted>>

\* Another repository takes the path.
SwapRepository ==
  /\ used.swaps < MaxSwaps /\ used.commits < MaxCommits
  /\ used' = [used EXCEPT !.swaps = @ + 1, !.commits = @ + 1]
  /\ checkout' = [identity |-> used.swaps + 2, head |-> used.commits + 1, dirty |-> FALSE]
  /\ UNCHANGED <<codeIndex, registry, temporary, process, plan, accepted>>

RANext ==
  \/ AnalyseScope \/ BindStartingCommit \/ DiscardPlan
  \/ OwnerCommits \/ OwnerChecksOut \/ OwnerEdits \/ SwapRepository
  \/ \E p \in Processes :
       \/ Load(p) \/ Quit(p) \/ \E id \in RepositoryIds : ReadHead(p, id)
       \/ RegisterOrRefresh(p) \/ WriteTemporary(p) \/ ReplaceRegistry(p)
       \/ BeginRun(p) \/ Admit(p) \/ RefuseDirty(p) \/ Reindex(p) \/ LoadApprovedPlan(p)
       \/ ReadHeadAgain(p) \/ Verify(p) \/ EndRun(p)

RASpec == RAInit /\ [][RANext]_raVars

-----------------------------------------------------------------------------
RATypeOK ==
  /\ registry \in [RepositoryIds -> [identity : 0..MaxSwaps + 1, head : 0..MaxCommits]]
  /\ checkout.identity \in 1..MaxSwaps + 1 /\ checkout.head \in 1..MaxCommits
  /\ accepted \subseteq 1..MaxSwaps + 1

\* A run that comes to make its worktree makes it at the commit its plan was
\* made for, which is the one that was bound before it began and the one HEAD
\* last showed, whatever the owner committed or planned again between the
\* checks.  A run that binds the registered commit (no gateway) is sure of it
\* only while HEAD does not go back.
RunStartsFromOneCommit ==
  \A p \in Processes :
    ProcessAt(p, "worktree") =>
      /\ process[p].memory[Target].head = process[p].expected
      /\ process[p].plan.commit = process[p].expected \/ (used.back /\ ~ process[p].bound)

\* "Every scan detects an identity swap": the registration of an identifier
\* never accepts two repositories.
IdentityIsRemembered == Cardinality(accepted) <= 1
=============================================================================
