---------------------------- MODULE ProactiveEvents --------------------------
(* Proactive notifications: proactive/service.py (ProactiveEventEngine) polled *)
(* by proactive/runtime.py, with the watches interface/cli.py registers at     *)
(* each start.  A poll claims the due watches in one transaction, then         *)
(* observes and ingests them one by one; the notifications it made are handed  *)
(* to the interface when the whole poll has returned.                          *)
(*                                                                             *)
(* A watch looks at one fact, a number.  A "change" watch reports a difference *)
(* from what its observer saw last, which it keeps in memory; a "state" watch  *)
(* (the due retention review) reports the fact as long as it stands.           *)
EXTENDS Integers, FiniteSets, Sequences, SequencesExt

CONSTANTS Changes,       \* watches with a change-only observer
          StateWatches,  \* watches whose observer reports what stands
          PerHour,       \* max_notifications_per_hour
          MaxFact, MaxStarts, MaxPolls

PEWatches == Changes \cup StateWatches
ASSUME PEAssumption ==
    /\ Changes \cap StateWatches = {} /\ PerHour \in Nat \ {0}
    /\ MaxFact \in Nat /\ MaxStarts \in Nat /\ MaxPolls \in Nat

VARIABLES watch,    \* proactive_watches: enabled, and whether next_due has come
          fact,     \* what the observed system shows now; 0 is nothing to report
          seen,     \* the observers' `previous`; Unseen before the first look
          noted,    \* proactive_events: <<watch, payload>>
          notices,  \* proactive_notifications
          poll,     \* the polling thread
          starts    \* processes started

peVars == <<watch, fact, seen, noted, notices, poll, starts>>

Unseen == -1
Asleep == [at |-> "asleep", rows |-> <<>>, made |-> <<>>, found |-> 0, n |-> 0]
PollAt(here) == poll.at = here

PEInit ==
    /\ watch = [w \in PEWatches |-> [enabled |-> TRUE, due |-> TRUE]]
    /\ fact = [w \in PEWatches |-> 0] /\ seen = [w \in PEWatches |-> Unseen]
    /\ noted = {} /\ notices = {} /\ poll = Asleep /\ starts = 1

(* -------------------------------- polling -------------------------------- *)

\* poll_due, first transaction: every due watch is claimed before any of them
\* is observed.
Claimable == {w \in PEWatches : watch[w].enabled /\ watch[w].due}
ClaimDue ==
    /\ PollAt("asleep") /\ poll.n < MaxPolls /\ Claimable # {}
    /\ watch' = [w \in PEWatches |-> IF w \in Claimable
                                     THEN [watch[w] EXCEPT !.due = FALSE] ELSE watch[w]]
    /\ \E rows \in SetToAllKPermutations(Claimable) :
         /\ Len(rows) = Cardinality(Claimable)
         /\ poll' = [Asleep EXCEPT !.at = "observe", !.rows = rows, !.n = poll.n + 1]
    /\ UNCHANGED <<fact, seen, noted, notices, starts>>

\* state_observer and filesystem_observer: the first look is the baseline.
FactChanged(w) == w \in Changes /\ seen[w] \notin {Unseen, fact[w]}
\* _career_retention_observer: a review that is due, until it is taken.
Stands(w) == w \in StateWatches /\ fact[w] # 0
\* The observer of a disabled watch was dropped: nothing to see.
Reports(w) == watch[w].enabled /\ (FactChanged(w) \/ Stands(w))
NextRow == [poll EXCEPT !.rows = Tail(@), !.at = "observe"]
Observe ==
    /\ PollAt("observe") /\ poll.rows # <<>>
    /\ LET w == Head(poll.rows) IN
       /\ poll' = IF Reports(w) THEN [poll EXCEPT !.at = "ingest", !.found = fact[w]]
                  ELSE NextRow
       /\ seen' = IF w \in Changes /\ watch[w].enabled
                  THEN [seen EXCEPT ![w] = fact[w]] ELSE seen
    /\ UNCHANGED <<watch, fact, noted, notices, starts>>
\* An observer raises (git takes too long, a file goes away): runtime._run
\* swallows it with the rest of the poll, and with what it had made.
ObserverFails ==
    /\ PollAt("observe") /\ poll.rows # <<>>
    /\ poll' = [Asleep EXCEPT !.n = poll.n]
    /\ UNCHANGED <<watch, fact, seen, noted, notices, starts>>

Recent == {n \in notices : n.recent}
\* Mutant: what was acknowledged may be said again.
StillNoted(w, payload) == \E n \in notices : /\ n.watch = w /\ n.payload = payload
                                             /\ ~n.acknowledged
\* UNIQUE(watch_id, payload_hash)
AlreadyNoted(w, payload) == <<w, payload>> \in noted
\* ingest, in one transaction.  A watch that was disabled since the claim
\* raises, which ends the poll; an event over the hourly bound stays recorded.
Ingest ==
    /\ PollAt("ingest")
    /\ LET w == Head(poll.rows)
           payload == poll.found
           notice == [watch |-> w, payload |-> payload, made |-> poll.n,
                      recent |-> TRUE, acknowledged |-> FALSE, shown |-> FALSE]
       IN IF ~watch[w].enabled
          THEN poll' = [Asleep EXCEPT !.n = poll.n] /\ UNCHANGED <<noted, notices>>
          ELSE IF AlreadyNoted(w, payload)
          THEN poll' = NextRow /\ UNCHANGED <<noted, notices>>
          ELSE /\ noted' = noted \cup {<<w, payload>>}
               /\ IF Cardinality(Recent) >= PerHour
                  THEN poll' = NextRow /\ UNCHANGED notices
                  ELSE /\ notices' = notices \cup {notice}
                       /\ poll' = [NextRow EXCEPT !.made = Append(@, <<w, payload, poll.n>>)]
    /\ UNCHANGED <<watch, fact, seen, starts>>

\* ProactiveRuntime._run: the poll has returned; each notification is emitted.
PollReturns ==
    /\ PollAt("observe") /\ poll.rows = <<>>
    /\ notices' = {IF <<n.watch, n.payload, n.made>> \in ToSet(poll.made)
                   THEN [n EXCEPT !.shown = TRUE] ELSE n : n \in notices}
    /\ poll' = [Asleep EXCEPT !.n = poll.n]
    /\ UNCHANGED <<watch, fact, seen, noted, starts>>

(* --------------------------- owner, world, time --------------------------- *)

Acknowledge ==
    /\ \E n \in notices : /\ ~n.acknowledged
                          /\ notices' = (notices \ {n}) \cup {[n EXCEPT !.acknowledged = TRUE]}
    /\ UNCHANGED <<watch, fact, seen, noted, poll, starts>>
Disable ==
    /\ \E w \in PEWatches : /\ watch[w].enabled
                            /\ watch' = [watch EXCEPT ![w].enabled = FALSE]
                            /\ seen' = [seen EXCEPT ![w] = Unseen]
    /\ UNCHANGED <<fact, noted, notices, poll, starts>>
FactChanges ==
    /\ \E w \in PEWatches, v \in 0..MaxFact : v # fact[w] /\ fact' = [fact EXCEPT ![w] = v]
    /\ UNCHANGED <<watch, seen, noted, notices, poll, starts>>
FallsDue ==
    /\ \E w \in PEWatches : ~watch[w].due /\ watch' = [watch EXCEPT ![w].due = TRUE]
    /\ UNCHANGED <<fact, seen, noted, notices, poll, starts>>
HourPasses ==
    /\ Recent # {} /\ notices' = {[n EXCEPT !.recent = FALSE] : n \in notices}
    /\ UNCHANGED <<watch, fact, seen, noted, poll, starts>>
\* The process ends and starts again: register() enables every watch with a new
\* observer, and next_due stays.
Registered == [w \in PEWatches |-> [watch[w] EXCEPT !.enabled = TRUE]]
Restart ==
    /\ starts < MaxStarts /\ starts' = starts + 1
    /\ watch' = Registered
    /\ seen' = [w \in PEWatches |-> Unseen]
    /\ poll' = [Asleep EXCEPT !.n = poll.n]
    /\ UNCHANGED <<fact, noted, notices>>

PENext ==
    \/ ClaimDue \/ Observe \/ ObserverFails \/ Ingest \/ PollReturns
    \/ Acknowledge \/ Disable \/ FactChanges \/ FallsDue \/ HourPasses \/ Restart

PESpec == PEInit /\ [][PENext]_peVars

(* ------------------------------- properties ------------------------------- *)

PETypeOK ==
    /\ watch \in [PEWatches -> [enabled : BOOLEAN, due : BOOLEAN]]
    /\ fact \in [PEWatches -> 0..MaxFact] /\ seen \in [PEWatches -> Unseen..MaxFact]
    /\ noted \subseteq PEWatches \X (0..MaxFact)
    /\ notices \subseteq [watch : PEWatches, payload : 0..MaxFact, made : 1..MaxPolls,
                          recent : BOOLEAN, acknowledged : BOOLEAN, shown : BOOLEAN]
    /\ poll.at \in {"asleep", "observe", "ingest"} /\ poll.n \in 0..MaxPolls
    /\ ToSet(poll.rows) \subseteq PEWatches /\ poll.found \in 0..MaxFact
    /\ starts \in 1..MaxStarts

\* The owner is told of one thing once: however often a poll, a restart or a
\* re-enabled watch meets the same state, there is one notification for it,
\* and never more than the hourly bound (ingest).
ToldOnce ==
    /\ \A n, k \in notices : n.watch = k.watch /\ n.payload = k.payload => n = k
    /\ Cardinality(Recent) <= PerHour
=============================================================================
