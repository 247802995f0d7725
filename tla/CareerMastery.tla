---------------------------- MODULE CareerMastery ----------------------------
(***************************************************************************)
(* The Learner Twin: which missions are active, and how evidence moves a    *)
(* competency up the ladder (career_forge/service.py for the competencies   *)
(* of the fixed graph, career_forge/generalized.py for the subjects a       *)
(* learning path registers).                                                *)
(*                                                                          *)
(* A learning session is opened on a thread in several transactions -- look *)
(* for active missions, close the finished ones, check, insert -- while the *)
(* event loop opens and completes missions of its own.  The assessment of a *)
(* dynamic answer stores verdict and evidence in one transaction and climbs *)
(* in another, and the process may end between the two.                     *)
(***************************************************************************)
EXTENDS Integers, Sequences, FiniteSets

CONSTANTS
  Fixed,          \* how many competencies the graph has: 1..Fixed, each building on the former
  Dynamic,        \* the registered subjects of learning paths
  Questions,      \* the questions of a subject's assessment contract
  NoMission,
  Top,            \* the highest rung modelled
  Independent,    \* APPLY_INDEPENDENTLY, as a rung
  Required,       \* the rung a path asks of its subjects
  Openers,        \* the threads that may open a session
  MaxAnswers,     \* bound: answers to the questions of a subject
  MaxCrashes      \* bound: the process ends

ASSUME CMBoundsAssumption == /\ Fixed \in Nat /\ Top \in Nat
                             /\ Independent \in 1..Top /\ Required \in 1..Top
                             /\ MaxAnswers \in Nat /\ MaxCrashes \in Nat
\* A registered subject has an identity of its own, none of the graph's.
ASSUME SubjectsAreNew == Dynamic \cap (1..Fixed) = {}

Graph        == 1..Fixed
Competencies == Graph \cup Dynamic

VARIABLES
  active,       \* the competencies with an active mission, by `updated_at`, newest last
  aim,          \* what the active mission of a competency is for
  mastery,      \* learner_competencies
  answers,      \* the attempts on dynamic subjects
  earned,       \* mission_evidence: the competency, the answer it came from (0: none), its climbs
  opening,      \* what each thread that opens a session has decided
  judging,      \* the evidence whose verdict is stored and whose climb is under way
  ends          \* how often the process ended

cmVars == <<active, aim, mastery, answers, earned, opening, judging, ends>>

CMInit ==
  /\ active = << >> /\ aim = [c \in Competencies |-> "-"]
  /\ mastery = [c \in Competencies |-> 0]
  /\ answers = << >> /\ earned = << >> /\ judging = {} /\ ends = 0
  /\ opening = [o \in Openers |-> [at |-> "idle"]]

-----------------------------------------------------------------------------
ActiveSet     == {active[i] : i \in DOMAIN active}
Drop(c)       == SelectSeq(active, LAMBDA d : d # c)
\* resume(): the active mission that was touched last.
Resumed       == IF active = << >> THEN NoMission ELSE active[Len(active)]
DynamicActive == \E c \in ActiveSet : aim[c] = "dynamic"

\* next_competency: the first of the graph that is unverified and whose prerequisites are not.
NextCompetency ==
  {c \in Graph : mastery[c] = 0 /\ \A b \in 1..(c - 1) : mastery[b] > 0}

\* _create_mission: refused for the graph while a dynamic session is active, and always while
\* the competency has an active mission (the unique index).
Create(c, why) ==
  /\ c \notin ActiveSet
  /\ active' = Append(active, c) /\ aim' = [aim EXCEPT ![c] = why]

\* start_mission: only the next competency of the graph.
StartMission ==
  /\ \E c \in NextCompetency : ~DynamicActive /\ Create(c, "fixed")
  /\ UNCHANGED <<mastery, answers, earned, opening, judging, ends>>

\* weak_areas: a retention review of what was learnt failed, or the latest answer did.  Which
\* reviews fail is not modelled, so a competency that was evidenced may be weak at any time.
MayBeWeak(c) == mastery[c] > 0 \/ \E a \in DOMAIN answers : /\ answers[a].of = c
                                                           /\ answers[a].verdict = "incorrect"

\* start_reinforcement: only a weak area, never the mission the owner is in; the interrupted
\* mission stays active.
StartReinforcement ==
  /\ \E c \in Competencies : /\ MayBeWeak(c) /\ Resumed # c
                             /\ c \in Graph => ~DynamicActive
                             /\ Create(c, IF c \in Dynamic THEN "dynamic" ELSE "reinforcement")
  /\ UNCHANGED <<mastery, answers, earned, opening, judging, ends>>

\* start_project_mission: an assigned project's competency, dynamic or of the graph.
StartProjectMission ==
  /\ \E c \in Competencies :
       /\ c \in Graph => ~DynamicActive
       /\ Create(c, IF c \in Dynamic THEN "dynamic" ELSE "project")
  /\ UNCHANGED <<mastery, answers, earned, opening, judging, ends>>

-----------------------------------------------------------------------------
(* start_session, on a thread.                                              *)

\* A dynamic session that reached what its path requires is closed for its successor.
Finished(c) == c \in Dynamic /\ aim[c] = "dynamic" /\ mastery[c] >= Required

\* The active missions as the thread reads them: its own is resumed, any that is not finished
\* refuses the session.
LookForSessions(o, d) ==
  /\ opening[o].at = "idle" /\ d \notin ActiveSet
  /\ \A c \in ActiveSet : Finished(c)
  /\ opening' = [opening EXCEPT ![o] = [at |-> "close", for |-> d, close |-> ActiveSet]]
  /\ UNCHANGED <<active, aim, mastery, answers, earned, judging, ends>>

\* One transaction closes one of them; after the last, _create_mission inserts the session.
CloseFinished(o) ==
  /\ opening[o].at = "close"
  /\ \E c \in opening[o].close :
       /\ active' = Drop(c)
       /\ opening' = [opening EXCEPT ![o].close = @ \ {c}]
  /\ UNCHANGED <<aim, mastery, answers, earned, judging, ends>>

OpenSession(o) ==
  /\ opening[o].at = "close" /\ opening[o].close = {}
  /\ opening' = [opening EXCEPT ![o] = [at |-> "idle"]]
  /\ \/ Create(opening[o].for, "dynamic")
     \/ opening[o].for \in ActiveSet /\ UNCHANGED <<active, aim>>
  /\ UNCHANGED <<mastery, answers, earned, judging, ends>>

-----------------------------------------------------------------------------
(* Answers, evidence and rungs.                                             *)

\* record_attempt on a subject: its session is the one in hand; help given since the last
\* answer belongs to this one.
AnswerQuestion ==
  /\ Resumed \in Dynamic /\ Len(answers) < MaxAnswers
  /\ \E q \in Questions, helped \in BOOLEAN :
       answers' = Append(answers, [of |-> Resumed, question |-> q, helped |-> helped,
                                   verdict |-> "pending"])
  /\ UNCHANGED <<active, aim, mastery, earned, opening, judging, ends>>

\* Mutant: an answer that was judged right can be judged again.
AssessAgain ==
  /\ \E a \in DOMAIN answers :
       /\ answers[a].verdict # "incorrect" /\ answers[a].of \in ActiveSet
       /\ Len(earned) <= MaxAnswers
       /\ answers' = [answers EXCEPT ![a].verdict = "correct"]
       /\ earned' = Append(earned, [of |-> answers[a].of, answer |-> a, climbs |-> 0])
       /\ judging' = judging \cup {Len(earned) + 1}
       /\ active' = Append(Drop(answers[a].of), answers[a].of)
  /\ UNCHANGED <<aim, mastery, opening, ends>>

\* evaluate_attempt: a pending answer of an active mission; a correct one is evidence.
AssessAnswer ==
  /\ \E a \in DOMAIN answers, v \in {"correct", "incorrect"} :
       /\ answers[a].verdict = "pending" /\ answers[a].of \in ActiveSet
       /\ answers' = [answers EXCEPT ![a].verdict = v]
       /\ IF v = "correct"
          THEN /\ earned' = Append(earned, [of |-> answers[a].of, answer |-> a, climbs |-> 0])
               /\ judging' = judging \cup {Len(earned) + 1}
          ELSE UNCHANGED <<earned, judging>>
       /\ active' = Append(Drop(answers[a].of), answers[a].of)
  /\ UNCHANGED <<aim, mastery, opening, ends>>

\* The questions of a subject the owner has answered right without help.
Unaided(d) == {answers[a].question : a \in {b \in DOMAIN answers :
                 answers[b].of = d /\ answers[b].verdict = "correct" /\ ~answers[b].helped}}

\* advance_mastery of a subject: one rung for evidence that has not climbed yet, automatically
\* only up to independent application, and that rung only with two questions answered unaided.
Climbs(e) ==
  /\ earned[e].climbs = 0 /\ mastery[earned[e].of] < Independent
  /\ mastery[earned[e].of] + 1 = Independent => Cardinality(Unaided(earned[e].of)) >= 2

AdvanceSubject ==
  /\ \E e \in judging :
       /\ IF Climbs(e)
          THEN /\ mastery' = [mastery EXCEPT ![earned[e].of] = @ + 1]
               /\ earned' = [earned EXCEPT ![e].climbs = @ + 1]
          ELSE UNCHANGED <<mastery, earned>>
       /\ judging' = judging \ {e}
  /\ UNCHANGED <<active, aim, answers, opening, ends>>

\* record_evidence for the mission of a competency of the graph.
RecordEvidence ==
  /\ Len(earned) < MaxAnswers
  /\ \E c \in ActiveSet \cap Graph : earned' = Append(earned, [of |-> c, answer |-> 0, climbs |-> 0])
  /\ UNCHANGED <<active, aim, mastery, answers, opening, judging, ends>>

\* service.advance_mastery: one rung of the competency the evidence is for; it completes the
\* mission the evidence came from.
AdvanceFixed ==
  /\ \E e \in DOMAIN earned :
       LET c == earned[e].of IN
         /\ c \in Graph /\ mastery[c] < Top
         /\ mastery' = [mastery EXCEPT ![c] = @ + 1]
         /\ earned' = [earned EXCEPT ![e].climbs = @ + 1]
         /\ active' = Drop(c)
  /\ UNCHANGED <<aim, answers, opening, judging, ends>>

\* update_resume touches a mission and so moves it to the front.
TouchMission ==
  /\ \E c \in ActiveSet : active' = Append(Drop(c), c)
  /\ UNCHANGED <<aim, mastery, answers, earned, opening, judging, ends>>

\* The process ends: the rows stay, the threads do not.  An answer that was judged is not
\* judged again, so nothing takes up the climb it was owed.
ProcessEnds ==
  /\ ends < MaxCrashes /\ ends' = ends + 1
  /\ opening' = [o \in Openers |-> [at |-> "idle"]] /\ judging' = {}
  /\ UNCHANGED <<active, aim, mastery, answers, earned>>

CMNext ==
  \/ StartMission \/ StartReinforcement \/ StartProjectMission
  \/ \E o \in Openers : \/ CloseFinished(o) \/ OpenSession(o)
                        \/ \E d \in Dynamic : LookForSessions(o, d)
  \/ AnswerQuestion \/ AssessAnswer \/ AdvanceSubject \/ RecordEvidence \/ AdvanceFixed
  \/ TouchMission \/ ProcessEnds

CMSpec == CMInit /\ [][CMNext]_cmVars
-----------------------------------------------------------------------------
\* Every variable keeps its type: rungs, missions and evidence of known competencies.
CMTypeOK ==
  /\ ActiveSet \subseteq Competencies /\ Len(active) = Cardinality(ActiveSet)
  /\ mastery \in [Competencies -> 0..Top]
  /\ \A e \in DOMAIN earned : earned[e].of \in Competencies
  /\ judging \subseteq DOMAIN earned

\* dynamic-learning-paths.md: evidence replay is rejected, one result advances a subject at most
\* one rung, and a subject stands no higher than the results it has.
OneRungPerResult ==
  /\ \A e \in DOMAIN earned : earned[e].of \in Dynamic => earned[e].climbs <= 1
  /\ \A d \in Dynamic :
       /\ mastery[d] = Cardinality({e \in DOMAIN earned : earned[e].of = d /\ earned[e].climbs = 1})
       /\ mastery[d] <= Cardinality({a \in DOMAIN answers : answers[a].of = d
                                                            /\ answers[a].verdict = "correct"})

\* A session of a subject is closed for its successor only once its path's requirement is met,
\* though the thread that closes it read the missions earlier.
OnlyFinishedSessionsClose ==
  [][\A d \in Dynamic \cap ActiveSet : d \notin ActiveSet' => mastery[d] >= Required]_cmVars

\* career-forge.md: independent application requires distinct unassisted correct questions.
IndependenceIsShown ==
  \A d \in Dynamic : mastery[d] >= Independent => Cardinality(Unaided(d)) >= 2
=============================================================================
