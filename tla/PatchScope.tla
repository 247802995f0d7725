------------------------------ MODULE PatchScope ------------------------------
(***************************************************************************)
(* What a patch is taken to change, and whether the approved plan allows it *)
(* (planning/patch_scope.py, with the policy of planning/analysis.py).  It  *)
(* is the gate every mutation of the coding agent passes: the diff of the   *)
(* worktree is read, and each changed line is attributed to the symbol that *)
(* the index has at its line number in the new file.  A symbol or file tool *)
(* refreshes the index after it has written, and is judged by it            *)
(* (registry._enforce_worktree_scope).  apply_patch is judged by the index  *)
(* as it is, of the old file: the patch before it is applied (create_patch  *)
(* ends there) and the worktree after it.  With no earlier mutation in the  *)
(* worktree, as here, the two verdicts are one.                             *)
(*                                                                         *)
(* One file of a symbol-scoped path holds the functions A and B, with or    *)
(* without a blank line between them; its first line defines a function.    *)
(* The patch deletes lines and inserts one; a second file is created,       *)
(* deleted, renamed or modified.                                            *)
(***************************************************************************)
EXTENDS Integers, Sequences, FiniteSets

CONSTANTS MaxLines,      \* bound: the lines of a function
          MaxSymbolCount \* max_symbol_count of the policy

ASSUME PSAssumption == MaxLines \in Nat \ {0} /\ MaxSymbolCount \in Nat

VARIABLES
  scopeCase, \* the old file, the patch, the policy, and the tool that is judged
  verdict    \* "none" | "accepted" | "rejected"

psVars == <<scopeCase, verdict>>

Line(owner, def) == [owner |-> owner, def |-> def, blank |-> owner = "gap"]
Function(name, lines) == [i \in 1..lines |-> Line(name, i = 1)]

\* A, a gap or none, B.
Files ==
  {Function("A", a) \o gap \o Function("B", b) :
     a \in 1..MaxLines, b \in 1..MaxLines, gap \in {<<>>, <<Line("gap", FALSE)>>}}

\* A line may extend the function before it, stand outside of every function,
\* or define a new function, C, where no function is cut in two by it.
Insertable(file, slot) ==
  LET between == slot = Len(file) \/ file[slot + 1].def \/ file[slot + 1].blank
  IN  {Line(file[slot].owner, FALSE) : x \in IF file[slot].blank THEN {} ELSE {1}}
      \cup (IF between THEN {[Line("top", FALSE) EXCEPT !.blank = FALSE], Line("C", TRUE)} ELSE {})

NoLine == [slot |-> 0, line |-> Line("gap", FALSE)]

\* A function goes as a whole or keeps its definition, and git prints what is
\* deleted before what is inserted.
Patches(file) ==
  {p \in [deleted : SUBSET DOMAIN file,
          inserted : {NoLine} \cup {[slot |-> s, line |-> l] :
                        s \in DOMAIN file, l \in UNION {Insertable(file, k) : k \in DOMAIN file}}] :
     /\ p.deleted # {} \/ p.inserted # NoLine
     /\ \A i \in p.deleted, j \in DOMAIN file :
          file[i].def /\ file[j].owner = file[i].owner => j \in p.deleted
     /\ p.inserted # NoLine =>
          /\ p.inserted.line \in Insertable(file, p.inserted.slot)
          /\ p.inserted.slot + 1 \notin p.deleted
          /\ p.inserted.line.owner \in {"A", "B"} =>
               \E i \in DOMAIN file \ p.deleted :
                 file[i].def /\ file[i].owner = p.inserted.line.owner}

PSInit ==
  /\ verdict = "none"
  /\ \E file \in Files : \E patch \in Patches(file) :
       scopeCase \in [file : {file}, patch : {patch}, tool : {"apply_patch", "symbol or file"},
                      symbols : {{"A"}, {"B"}, {"A", "B"}}, newSymbols : {{}, {"C"}},
                      other : {"nothing", "modified", "created", "deleted", "renamed"},
                      allowed : SUBSET {"modified", "created", "deleted"}]

-----------------------------------------------------------------------------
(* The diff, line by line                                                   *)

Kept(c, i) == i \notin c.patch.deleted
Inserts(c, i) == c.patch.inserted # NoLine /\ c.patch.inserted.slot = i

\* The number that the counter new_line shows at old line i: one more than the
\* lines of the new file before it.
NewNumber(c, i) ==
  1 + Cardinality({j \in 1..i - 1 : Kept(c, j)})
    + Cardinality({j \in 1..i - 1 : Inserts(c, j)})

NumberOfInserted(c) ==
  NewNumber(c, c.patch.inserted.slot) + (IF Kept(c, c.patch.inserted.slot) THEN 1 ELSE 0)

\* changed_lines: deleted and inserted lines under the same numbering.
Changed(c) ==
  {[number |-> NewNumber(c, i), line |-> c.file[i]] : i \in c.patch.deleted}
  \cup {[number |-> NumberOfInserted(c), line |-> c.patch.inserted.line] :
          x \in IF c.patch.inserted = NoLine THEN {} ELSE {1}}

NewFile(c) ==
  LET length == Len(c.file) - Cardinality(c.patch.deleted)
                + (IF c.patch.inserted = NoLine THEN 0 ELSE 1)
      kept(n) == CHOOSE i \in DOMAIN c.file : Kept(c, i) /\ NewNumber(c, i) = n
  IN  [n \in 1..length |->
         IF c.patch.inserted # NoLine /\ n = NumberOfInserted(c)
         THEN c.patch.inserted.line ELSE c.file[kept(n)]]

\* The mutants' form: the index from before the mutation is still in use.
IndexNotRefreshed(c) == c.file

Refreshes(c) == c.tool = "symbol or file"
IndexUsed(c) == IF Refreshes(c) THEN NewFile(c) ELSE c.file

\* The symbol a changed line is attributed to, if its number lies in one.
SymbolsAt(c, number) ==
  {IndexUsed(c)[number].owner : n \in {number} \cap DOMAIN IndexUsed(c)} \ {"gap", "top"}

\* A definition that comes or goes is an effect of its own.
Added(c)   == {x.line.owner : x \in {y \in Changed(c) : y.line.def /\ y.line.owner = "C"}}
Removed(c) == {c.file[i].owner : i \in {j \in c.patch.deleted : c.file[j].def}}

ExistingModified(c) == (UNION {SymbolsAt(c, x.number) : x \in Changed(c)}) \ Added(c)

\* A number under which something that is not blank changed and that lies in
\* no symbol; or a file for which no effect is known at all.
UnknownEffects(c) ==
  \/ \E x \in Changed(c) : ~ x.line.blank /\ SymbolsAt(c, x.number) = {}
  \/ ExistingModified(c) \cup Added(c) \cup Removed(c) = {}

-----------------------------------------------------------------------------
(* The policy                                                               *)

OtherUnplanned(c) ==
  CASE c.other = "nothing" -> FALSE
    [] c.other = "renamed" -> "deleted" \notin c.allowed
    [] OTHER               -> c.other \notin c.allowed

AffectedSymbolCount(c) ==
  Cardinality(ExistingModified(c)) + Cardinality(Added(c)) + Cardinality(Removed(c))

Accepts(c) ==
  /\ ExistingModified(c) \subseteq c.symbols
  /\ Added(c) \subseteq c.newSymbols
  /\ ~ OtherUnplanned(c)
  /\ AffectedSymbolCount(c) <= MaxSymbolCount
  /\ ~ UnknownEffects(c)

JudgePatch ==
  /\ verdict = "none"
  /\ verdict' = IF Accepts(scopeCase) THEN "accepted" ELSE "rejected"
  /\ UNCHANGED scopeCase

PSNext == JudgePatch
PSSpec == PSInit /\ [][PSNext]_psVars

-----------------------------------------------------------------------------
PSTypeOK ==
  /\ verdict \in {"none", "accepted", "rejected"}
  /\ UNION {SymbolsAt(scopeCase, x.number) : x \in Changed(scopeCase)} \subseteq {"A", "B", "C"}

Accepted == verdict = "accepted"

\* The old index has the inserted line where it goes: nothing above it is
\* deleted, and the line after it belongs to the same function.
InPlace(c) ==
  LET next == c.patch.inserted.slot + 1 IN
  /\ \A i \in 1..c.patch.inserted.slot : Kept(c, i)
  /\ next \in DOMAIN c.file /\ c.file[next].owner = c.patch.inserted.line.owner

\* Whatever lines a mutation also removes, a line that a symbol or file tool
\* inserts and that passes the gate lies in a function the plan approved, or in
\* one it may create.  Of a line of apply_patch that holds only where the old
\* index has it in place.
InsertedLinesAreApproved ==
  /\ Accepted /\ scopeCase.patch.inserted # NoLine
  /\ Refreshes(scopeCase) \/ InPlace(scopeCase)
  => scopeCase.patch.inserted.line.owner \in scopeCase.symbols \cup scopeCase.newSymbols

\* "still rejecting sibling symbols" (docs/architecture/isolation.md): the same
\* of every mutation, ...
EveryInsertedLineIsApproved ==
  Accepted /\ scopeCase.patch.inserted # NoLine =>
    scopeCase.patch.inserted.line.owner \in scopeCase.symbols \cup scopeCase.newSymbols

\* ... and a function that loses a line is one the plan approved.
SiblingsAreRejected ==
  Accepted =>
    \A i \in scopeCase.patch.deleted :
      scopeCase.file[i].blank \/ scopeCase.file[i].owner \in scopeCase.symbols
=============================================================================
