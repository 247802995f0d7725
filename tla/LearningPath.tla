------------------------------ MODULE LearningPath ------------------------------
(***************************************************************************)
(* A learning path and its immutable versions: the owner's edits, the       *)
(* replacement of the whole curriculum, the replan from Career Forge's      *)
(* evidence and the hand-over of a topic to a lesson                        *)
(* (learning_paths/*.py and the handlers of interface/api.py).              *)
(*                                                                          *)
(* The handlers are `def` functions on worker threads.  A handler reads the *)
(* path, its version, the evidence and the running lesson one after another *)
(* and writes the new version in one transaction at the end, which checks   *)
(* the version an edit was made from (`expected_version`) and takes the     *)
(* path's state from what the handler read.                                 *)
(***************************************************************************)
EXTENDS Integers, Sequences, FiniteSets, Folds

CONSTANTS
  Learners,         \* requests that may be under way
  Topics,           \* bound: the topics are 1..Topics; a first curriculum orders them by number
  MaxPathVersions,  \* bound: versions of the path
  MaxPathEdits,     \* bound: versions the owner or a client makes
  MaxSignals        \* bound: changes of the evidence

ASSUME LPAssumption == /\ Topics \in Nat \ {0} /\ MaxPathVersions \in Nat
                       /\ MaxPathEdits \in Nat /\ MaxSignals \in Nat

VARIABLES
  path,          \* learning_paths: the lifecycle state
  selected,      \* learning_path_owner_state names this path
  versions,      \* learning_path_versions, in order
  pathEvidence,  \* what Career Forge knows of each topic
  lesson,        \* the topic of the running Career Forge session, 0 for none
  visit,         \* what each request has read
  signals

lpVars == <<path, selected, versions, pathEvidence, lesson, visit, signals>>

AllTopics == 1..Topics
Here      == versions[Len(versions)]
Earlier   == versions[Len(versions) - 1]
NoVisit   == [op |-> "idle", at |-> "-", base |-> 0, state |-> "-", plan |-> << >>]

Edits     == {i \in DOMAIN versions : versions[i].by \in {"edited", "replaced"}}
MayEdit   == Cardinality(Edits) < MaxPathEdits

-----------------------------------------------------------------------------
(* Curricula: topics, direct prerequisites <<before, after>>, and the topic  *)
(* of the project milestone (0 for none) with the prerequisites it declares. *)

Into(edges, t) == {e[1] : e \in {f \in edges : f[2] = t}}
From(edges, t) == {e[2] : e \in {f \in edges : f[1] = t}}

\* Every topic before t, directly or through others (a chain has at most Topics links).
Before(edges, t) ==
  LET reach[n \in Nat] == IF n = 0 THEN Into(edges, t)
                          ELSE LET near == reach[n - 1]
                               IN near \cup {e[1] : e \in {f \in edges : f[2] \in near}}
  IN reach[Topics]

\* CurriculumValidator: edges between topics it has, no cycle, and a milestone whose declared
\* prerequisites are exactly its direct ones, and not none.
Valid(p) ==
  /\ p.topics # {} /\ \A e \in p.edges : e[1] \in p.topics /\ e[2] \in p.topics /\ e[1] # e[2]
  /\ \A t \in p.topics : t \notin Before(p.edges, t)
  /\ p.milestone # 0 =>
       p.milestone \in p.topics /\ p.needs = Into(p.edges, p.milestone) /\ p.needs # {}

Forward == {e \in AllTopics \X AllTopics : e[1] < e[2]}
\* What a proposal of the model, of the owner or of a client may contain.
Proposals == {p \in [topics : {AllTopics}, edges : SUBSET Forward, milestone : {0, Topics},
                     needs : SUBSET AllTopics] :
                Valid(p) /\ (p.milestone = 0 => p.needs = {})}

Version(p, by, base, saw) == [plan |-> p, by |-> by, base |-> base, saw |-> saw]
NoAdaptation == [evidence |-> << >>, lesson |-> 0, decisions |-> << >>]

LPInit ==
  /\ path = "draft" /\ selected = FALSE /\ lesson = 0 /\ signals = 0
  /\ \E p \in Proposals : versions = <<Version(p, "created", 0, NoAdaptation)>>
  /\ pathEvidence = [t \in AllTopics |-> "none"]
  /\ visit = [l \in Learners |-> NoVisit]

Reads(l, v)     == visit[l].op = "idle" /\ visit' = [visit EXCEPT ![l] = v]
ReadsOn(l, v)   == visit' = [visit EXCEPT ![l] = v]
Done(l)         == visit' = [visit EXCEPT ![l] = NoVisit]
Atp(l, op, at)  == visit[l].op = op /\ visit[l].at = at

-----------------------------------------------------------------------------
(* The lifecycle of the path: one transaction each.                          *)

\* activate: a draft or a paused path, and it becomes the current one.
ActivatePath ==
  /\ path \in {"draft", "paused"} /\ path' = "active" /\ selected' = TRUE
  /\ UNCHANGED <<versions, pathEvidence, lesson, visit, signals>>

\* archive: from any state; it is not the current path any more.
ArchivePath ==
  /\ path # "archived" /\ path' = "archived" /\ selected' = FALSE
  /\ UNCHANGED <<versions, pathEvidence, lesson, visit, signals>>

SelectPath ==
  /\ path # "archived" /\ ~selected /\ selected' = TRUE
  /\ UNCHANGED <<path, versions, pathEvidence, lesson, visit, signals>>

-----------------------------------------------------------------------------
(* A new version.                                                            *)

\* service.revise reads the path's state before it asks for the transaction.
ReadState(l) ==
  /\ visit[l].at = "state" /\ Len(versions) < MaxPathVersions
  /\ ReadsOn(l, [visit[l] EXCEPT !.at = "commit", !.state = path])
  /\ UNCHANGED <<path, selected, versions, pathEvidence, lesson, signals>>

\* repository.revise: an edit or a replan needs the version it was made from, a client's
\* replacement does not say; the row's state becomes the one that was read.
CommitVersion(l) ==
  /\ visit[l].at = "commit" /\ Len(versions) < MaxPathVersions
  /\ LET v  == visit[l]
         ok == v.op = "replace" \/ v.base = Len(versions)
     IN IF ok
        THEN /\ versions' = Append(versions, v.plan)
             /\ path' = v.state
        ELSE UNCHANGED <<versions, path>>
  /\ Done(l)
  /\ UNCHANGED <<selected, pathEvidence, lesson, signals>>

\* POST versions: the client's whole curriculum, validated.
ReplaceCurriculum(l) ==
  /\ MayEdit
  /\ \E p \in Proposals :
       /\ p.edges # Here.plan.edges /\ p.milestone = 0
       /\ Reads(l, [op |-> "replace", at |-> "state", base |-> Len(versions), state |-> "-",
                    plan |-> Version(p, "replaced", Len(versions), NoAdaptation)])
  /\ UNCHANGED <<path, selected, versions, pathEvidence, lesson, signals>>

-----------------------------------------------------------------------------
(* The owner's edit of the version the browser shows.                        *)

\* manual_edit reads the version and the running lesson,
OpenEdit(l) ==
  /\ MayEdit
  /\ Reads(l, [NoVisit EXCEPT !.op = "edit", !.at = "edit", !.base = Len(versions),
                              !.state = lesson])
  /\ UNCHANGED <<path, selected, versions, pathEvidence, lesson, signals>>

\* A topic without a running lesson, own evidence, dependent topics or a milestone may go;
Removals(p, running) ==
  {[p EXCEPT !.topics = @ \ {t}, !.edges = {e \in @ : e[2] # t}] :
     t \in {u \in p.topics : /\ u # running /\ pathEvidence[u] \notin {"own", "elsewhere"}
                             /\ From(p.edges, u) = {} /\ u # p.milestone}}
\* a prerequisite may be added to any topic but the running lesson's,
Additions(p, running) ==
  {[p EXCEPT !.edges = @ \cup {e}] :
     e \in {f \in (p.topics \X p.topics) \ p.edges : f[2] # running}}
\* and taken away unless a milestone declares it.
Separations(p) ==
  {[p EXCEPT !.edges = @ \ {e}] : e \in {f \in p.edges : f[2] # p.milestone}}

\* one typed operation, validated as a whole.
ApplyEdit(l) ==
  /\ Atp(l, "edit", "edit")
  /\ LET v == visit[l]
         p == versions[v.base].plan
     IN \/ \E q \in Removals(p, v.state) \cup Additions(p, v.state) \cup Separations(p) :
             /\ Valid(q)
             /\ ReadsOn(l, [v EXCEPT !.at = "state", !.state = "-",
                                     !.plan = Version(q, "edited", v.base, NoAdaptation)])
        \/ Done(l)
  /\ UNCHANGED <<path, selected, versions, pathEvidence, lesson, signals>>

-----------------------------------------------------------------------------
(* The replan from Career Forge's evidence.                                  *)

\* sequence: the evidence of every topic of the version it read.
ProjectEvidence(l) ==
  /\ Reads(l, [NoVisit EXCEPT !.op = "replan", !.at = "plan", !.base = Len(versions),
                              !.plan = pathEvidence])
  /\ UNCHANGED <<path, selected, versions, pathEvidence, lesson, signals>>

\* Evidence from another path makes a lesson redundant, but for a milestone's requirements
\* and the lesson that runs; one topic stays in any case.
Redundant(p, known, running) ==
  LET may == {t \in p.topics : /\ known[t] = "elsewhere" /\ t # running
                               /\ t # p.milestone /\ t \notin p.needs}
  IN IF may = p.topics
     THEN may \ {CHOOSE t \in may : Into(p.edges, t) = {}} ELSE may

\* Mutant: taking a topic out drops its edges.
DropEdges(t, edges) == {e \in edges : e[1] # t /\ e[2] # t}

\* Taking a topic out joins what came before it to what came after it.
Bridge(t, edges) ==
  {e \in edges : e[1] # t /\ e[2] # t}
    \cup {e \in Into(edges, t) \X From(edges, t) : e[1] # e[2]}

Without(p, gone) ==
  [p EXCEPT !.topics = @ \ gone, !.edges = MapThenFoldSet(Bridge, p.edges, LAMBDA t : t,
                                                          LAMBDA S : CHOOSE t \in S : TRUE, gone)]

\* What is next for each remaining topic: blocked by what its new prerequisites lack, or
\* whatever its own evidence asks for.
Decisions(p, q, known) ==
  [t \in q.topics |-> IF \E b \in Into(q.edges, t) : known[b] \notin {"own", "elsewhere"}
                      THEN "blocked" ELSE known[t]]

\* apply_adaptation: the version is still the one projected and the path active, some evidence
\* decides something; the new version, unless it says what the present one says.
PlanAdaptation(l) ==
  /\ Atp(l, "replan", "plan")
  /\ LET v     == visit[l]
         p     == Here.plan
         gone  == Redundant(p, v.plan, lesson)
         q     == Without(p, gone)
         what  == [evidence |-> v.plan, lesson |-> lesson, decisions |-> Decisions(p, q, v.plan)]
         known == \E t \in p.topics : v.plan[t] # "none"
     IN IF v.base = Len(versions) /\ path = "active" /\ known
           /\ ~(gone = {} /\ what.decisions = Here.saw.decisions)
        THEN ReadsOn(l, [v EXCEPT !.at = "state", !.plan = Version(q, "replanned", v.base, what)])
        ELSE Done(l)
  /\ UNCHANGED <<path, selected, versions, pathEvidence, lesson, signals>>

-----------------------------------------------------------------------------
(* Lessons.                                                                  *)

\* handoff reads an active path and an eligible topic of its version: no direct prerequisite
\* lacks evidence and the topic itself does;
OfferTopic(l) ==
  /\ path = "active" /\ lesson = 0
  /\ \E t \in Here.plan.topics :
       /\ pathEvidence[t] \notin {"own", "elsewhere"}
       /\ \A b \in Into(Here.plan.edges, t) : pathEvidence[b] \in {"own", "elsewhere"}
       /\ Reads(l, [NoVisit EXCEPT !.op = "handoff", !.at = "start", !.base = t])
  /\ UNCHANGED <<path, selected, versions, pathEvidence, lesson, signals>>

\* then it starts the session, unless another one runs.
StartLesson(l) ==
  /\ Atp(l, "handoff", "start") /\ Done(l)
  /\ lesson' = IF lesson = 0 THEN visit[l].base ELSE lesson
  /\ UNCHANGED <<path, selected, versions, pathEvidence, signals>>

\* The evidence changes: the lesson's own, another path's, or a review that failed.
EvidenceChanges ==
  /\ signals < MaxSignals /\ signals' = signals + 1
  /\ \/ lesson # 0 /\ pathEvidence' = [pathEvidence EXCEPT ![lesson] = "own"] /\ lesson' = 0
     \/ \E t \in AllTopics :
          /\ pathEvidence' = [pathEvidence EXCEPT ![t] = IF @ = "none" THEN "elsewhere" ELSE "weak"]
          /\ pathEvidence[t] # "weak" /\ UNCHANGED lesson
  /\ UNCHANGED <<path, selected, versions, visit>>

LPNext ==
  \/ ActivatePath \/ ArchivePath \/ SelectPath \/ EvidenceChanges
  \/ \E l \in Learners :
       \/ ReadState(l) \/ CommitVersion(l) \/ ReplaceCurriculum(l) \/ OpenEdit(l) \/ ApplyEdit(l)
       \/ ProjectEvidence(l) \/ PlanAdaptation(l) \/ OfferTopic(l) \/ StartLesson(l)

LPSpec == LPInit /\ [][LPNext]_lpVars
-----------------------------------------------------------------------------
\* Every variable keeps its type and the version in force is a valid curriculum.
LPTypeOK ==
  /\ path \in {"draft", "active", "paused", "archived"} /\ selected \in BOOLEAN
  /\ lesson \in 0..Topics
  /\ Valid(Here.plan)

\* service.py:290-328: a replan never loses a milestone
\* or what it requires, and every two topics that stay are in the order they were in, also
\* when what was between them is gone.
ReplanKeepsOrder ==
  Here.by = "replanned" =>
    LET old == Earlier.plan
        new == Here.plan
    IN /\ {new.milestone} \cup new.needs = {old.milestone} \cup old.needs
       /\ \A t \in new.topics : Before(new.edges, t) = Before(old.edges, t) \cap new.topics

\* service.py:328 and 386: a replay on the same evidence and lesson is a no-op, so two
\* versions in a row were never planned from the same signals.
ReplanSettles ==
  Here.by = "replanned" /\ Earlier.by = "replanned" =>
    \/ Here.saw.lesson # Earlier.saw.lesson
    \/ \E t \in Earlier.plan.topics : Here.saw.evidence[t] # Earlier.saw.evidence[t]

\* service.py:465: "A curriculum edit must never reactivate/pause it" (the path).
EditKeepsLifecycle == [][Len(versions') > Len(versions) => path' = path]_lpVars
=============================================================================
