---------------------------- MODULE OwnerMemory ----------------------------
(* The owner's memory: memory/service.py, one SQLite table of records with a  *)
(* lifecycle, reached at the same time by the web interface, a conversation   *)
(* turn and the local-ai-memory command.  Each public operation is one or     *)
(* more transactions; what happens between them is what this module is about. *)
(*                                                                            *)
(* A record is numbered in the order of its insertion.  Subjects, contents    *)
(* and scores are abstracted: a record is "working" (bounded for each         *)
(* subject) or a "preference", it may carry an expiry, and `recency` orders   *)
(* the records by updated_at.                                                 *)
EXTENDS Integers, FiniteSets, SequencesExt

CONSTANTS Callers,       \* who may be inside an operation at the same time
          Subjects,      \* subjects of working records
          WorkingLimit,  \* working_subject_limit
          MaxRecords     \* bound: records ever inserted

ASSUME OMAssumption == WorkingLimit \in Nat \ {0} /\ MaxRecords \in Nat

VARIABLES record,    \* record[n], the n-th row of memories
          recency,   \* the rows' numbers, the least recently updated first
          lapsed,    \* the rows whose expires_at has passed
          setting,   \* normal_conversation_preferences_enabled
          edge,      \* the rows of memory_relationships of one triple
          call       \* call[c], how far the operation of c is

omVars == <<record, recency, lapsed, setting, edge, call>>

States == {"active", "superseded", "conflicted", "deleted", "expired"}
Rows == 1..Len(record)
Active == {n \in Rows : record[n].state = "active"}
Working(s) == {n \in Active : record[n].kind = "working" /\ record[n].subject = s}
Rest == [at |-> "rest", row |-> 0, rows |-> {}, on |-> FALSE]
CallAt(c, here) == call[c].at = here
CallGoes(c, there) == call' = [call EXCEPT ![c] = there]

\* Sets the state of the rows ns; every such statement also sets updated_at.
Becomes(ns, state) ==
    /\ record' = [n \in Rows |-> IF n \in ns THEN [record[n] EXCEPT !.state = state]
                                 ELSE record[n]]
    /\ recency' = SelectSeq(recency, LAMBDA n : n \notin ns)
                  \o SelectSeq(recency, LAMBDA n : n \in ns)

OMInit ==
    /\ record = <<>> /\ recency = <<>> /\ lapsed = {}
    /\ setting = FALSE
    /\ edge = [active |-> FALSE, tombstone |-> FALSE]
    /\ call = [c \in Callers |-> Rest]

(* ------------------------------ remember --------------------------------- *)

\* What a correction may replace: a record that is active when it is written.
Replaceable(n) == record[n].state = "active"

\* The insert and the supersession are one transaction; the retention that
\* bounds the subject is another one.
Remember(c) ==
    /\ CallAt(c, "rest") /\ Len(record) < MaxRecords
    /\ \E kind \in {"working", "preference"}, s \in Subjects,
         dated \in BOOLEAN, old \in {0} \cup Rows :
         /\ old # 0 => Replaceable(old)
         /\ LET new == [kind |-> kind, subject |-> s, state |-> "active",
                        dated |-> dated, replaces |-> old]
                kept == IF old = 0 THEN record
                        ELSE [record EXCEPT ![old].state = "superseded"]
            IN  record' = Append(kept, new)
         /\ recency' = Append(IF old = 0 THEN recency
                              ELSE Append(SelectSeq(recency, LAMBDA n : n # old), old),
                              Len(record) + 1)
         /\ CallGoes(c, [Rest EXCEPT !.at = "bound", !.row = Len(record) + 1])
    /\ UNCHANGED <<lapsed, setting, edge>>

(* ------------------------------ retention -------------------------------- *)

Expiring == {n \in Active : n \in lapsed}
\* The rows beyond the first WorkingLimit of their subject, newest first.
Excess(s) ==
    LET rows == SelectSeq(recency, LAMBDA n : n \in Working(s) \ Expiring)
    IN  {rows[i] : i \in 1..(Len(rows) - WorkingLimit)}
EnforceRetention == Becomes(Expiring \cup UNION {Excess(s) : s \in Subjects}, "expired")

\* The second half of remember; the record it returns is read afterwards.
BoundAfterRemember(c) ==
    /\ CallAt(c, "bound") /\ EnforceRetention
    /\ CallGoes(c, Rest)
    /\ UNCHANGED <<lapsed, setting, edge>>

\* `local-ai-memory retain`, and the retention that opens list and recall,
\* whose own read changes nothing.
Retain ==
    /\ EnforceRetention /\ record' # record
    /\ UNCHANGED <<lapsed, setting, edge, call>>

(* -------------------------------- search --------------------------------- *)

BeginSearch(c) ==
    /\ CallAt(c, "rest") /\ EnforceRetention
    /\ CallGoes(c, [Rest EXCEPT !.at = "select"])
    /\ UNCHANGED <<lapsed, setting, edge>>

\* The rows a search ranks: the 500 active ones, read in one statement.
Ranked == Active
ReadActive(c) ==
    /\ CallAt(c, "select")
    /\ CallGoes(c, [call[c] EXCEPT !.at = "encode", !.rows = Ranked])
    /\ UNCHANGED <<record, recency, lapsed, setting, edge>>

\* Encoding takes long; the vectors are written for the rows read before it,
\* and the answer is some of those rows whatever became of them meanwhile.
AnswerSearch(c) ==
    /\ CallAt(c, "encode") /\ CallGoes(c, Rest)
    /\ UNCHANGED <<record, recency, lapsed, setting, edge>>

(* ----------------------- preferences in conversation ---------------------- *)

SetAdaptation ==
    /\ setting' = ~setting
    /\ UNCHANGED <<record, recency, lapsed, edge, call>>
ReadSetting(c) ==
    /\ CallAt(c, "rest")
    /\ CallGoes(c, [Rest EXCEPT !.at = "prefs", !.on = setting])
    /\ UNCHANGED <<record, recency, lapsed, setting, edge>>

\* Expired rows are filtered in the query: the projection runs no retention.
EligiblePreferences == {n \in Active : n \notin lapsed /\ record[n].kind = "preference"}
Applied(c) == IF call[c].on THEN EligiblePreferences ELSE {}
Project(c) ==
    /\ CallAt(c, "prefs") /\ CallGoes(c, Rest)
    /\ UNCHANGED <<record, recency, lapsed, setting, edge>>

(* --------------------------- owner's decisions ---------------------------- *)

MarkConflicted(n) ==
    /\ record[n].state = "active" /\ Becomes({n}, "conflicted")
    /\ UNCHANGED <<lapsed, setting, edge, call>>
\* A mutant: only a record that is in use or deleted is beyond dispute.
DisputedUnlessSettled(n) == record[n].state \notin {"active", "deleted"}
Disputed(n) == record[n].state = "conflicted"
ResolveConflict(n) ==
    /\ Disputed(n)
    /\ \E keep \in BOOLEAN : Becomes({n}, IF keep THEN "active" ELSE "deleted")
    /\ UNCHANGED <<lapsed, setting, edge, call>>
Forget(n) ==
    /\ record[n].state # "deleted" /\ Becomes({n}, "deleted")
    /\ UNCHANGED <<lapsed, setting, edge, call>>

\* Relationships: the triple and the state together are unique, so a second
\* relation is refused while one is active, and a second tombstone as well.
Relate ==
    /\ ~edge.active /\ edge' = [edge EXCEPT !.active = TRUE]
    /\ UNCHANGED <<record, recency, lapsed, setting, call>>
ForgetRelationship ==
    /\ edge.active /\ ~edge.tombstone
    /\ edge' = [active |-> FALSE, tombstone |-> TRUE]
    /\ UNCHANGED <<record, recency, lapsed, setting, call>>

Lapse(n) ==
    /\ record[n].dated /\ n \notin lapsed
    /\ lapsed' = lapsed \cup {n}
    /\ UNCHANGED <<record, recency, setting, edge, call>>

OMNext ==
    \/ \E c \in Callers : \/ Remember(c) \/ BoundAfterRemember(c)
                          \/ BeginSearch(c) \/ ReadActive(c) \/ AnswerSearch(c)
                          \/ ReadSetting(c) \/ Project(c)
    \/ \E n \in Rows : MarkConflicted(n) \/ ResolveConflict(n) \/ Forget(n) \/ Lapse(n)
    \/ Retain \/ SetAdaptation \/ Relate \/ ForgetRelationship

OMSpec == OMInit /\ [][OMNext]_omVars

(* ------------------------------ properties -------------------------------- *)

OMTypeOK ==
    /\ record \in Seq([kind : {"working", "preference"}, subject : Subjects,
                       state : States, dated : BOOLEAN, replaces : Nat])
    /\ Len(record) <= MaxRecords
    /\ Len(recency) = Len(record) /\ ToSet(recency) = Rows
    /\ lapsed \subseteq Rows /\ setting \in BOOLEAN
    /\ edge \in [active : BOOLEAN, tombstone : BOOLEAN]
    /\ call \in [Callers -> [at : {"rest", "bound", "select", "encode", "prefs"},
                             row : Nat, rows : SUBSET Rows, on : BOOLEAN]]

\* A record, its corrections, the corrections of those, and so on: what is in
\* every set that has the record and, with each of its members, its corrections.
ClosedUnderCorrection(rows) == \A k \in Rows : record[k].replaces \in rows => k \in rows
Lineage(n) == {k \in Rows : \A rows \in SUBSET Rows :
                              n \in rows /\ ClosedUnderCorrection(rows) => k \in rows}
\* A correction is the last word on its subject: of a record and everything
\* that was written to replace it, at most one is ever retrieved, and a conflict
\* that the owner resolves in favour of the old text cannot bring it back beside
\* its replacement (remember's supersession against mark_conflicted and
\* resolve_conflict).
OneTextPerCorrection ==
    \A n \in Rows : Cardinality(Lineage(n) \cap Active) <= 1
=============================================================================
