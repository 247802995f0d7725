---------------------------- MODULE Desktop_proofs ----------------------------
(***************************************************************************)
(* Theorems about the runner of a computer task (DesktopRunner), about the *)
(* plans it takes (GoalPlan), and about the physical gates by which a       *)
(* Stage 32 session qualifies the assistant on its desktop (PhysicalGates). *)
(***************************************************************************)
EXTENDS DesktopRunner, PhysicalGates, FiniteSetTheorems, SequenceTheorems,
        WellFoundedInduction, TLAPS

-----------------------------------------------------------------------------
(* A plan stays a sequence through every stage of its completion.          *)

IsPlan(p) == \E S : p \in Seq(S)

LEMMA LeastOfNats ==
  ASSUME NEW S \in SUBSET Nat, S # {}
  PROVE  \E i \in S : \A j \in S : i <= j
<1> DEFINE R == OpToRel(<, Nat)
<1>1. IsWellFoundedOn(R, Nat) BY NatLessThanWellFounded
<1>2. \A x, y \in Nat : x < y => <<x, y>> \in R BY DEF OpToRel
<1> HIDE DEF R
<1>3. PICK x \in S : \A y \in S : ~ (<<y, x>> \in R) BY <1>1, WFMin
<1>4. \A y \in S : ~(y < x) BY <1>2, <1>3
<1> QED BY <1>3, <1>4

LEMMA GreatestOfSome ==
  ASSUME NEW n \in Nat, NEW S \in SUBSET (1..n), S # {}
  PROVE  \E i \in S : \A j \in S : j <= i
<1> DEFINE T == {n - i : i \in S}
<1>1. T \in SUBSET Nat /\ T # {}
  <2>1. \A i \in S : i \in 1..n OBVIOUS
  <2>2. \A i \in S : n - i \in Nat BY <2>1
  <2> QED BY <2>2
<1>2. PICK k \in T : \A j \in T : k <= j BY <1>1, LeastOfNats
<1>3. PICK i \in S : k = n - i BY <1>2
<1>4. \A j \in S : n - i <= n - j BY <1>2, <1>3
<1>5. \A j \in S : j <= i BY <1>4
<1> QED BY <1>5

LEMMA FirstIsThere ==
  ASSUME NEW n \in Nat, NEW S \in SUBSET (1..n), NEW d
  PROVE  FirstOf(S, d) = d \/ FirstOf(S, d) \in 1..n
<1>1. CASE S = {} BY <1>1 DEF FirstOf
<1>2. CASE S # {}
  <2>1. S \in SUBSET Nat OBVIOUS
  <2>2. \E i \in S : \A j \in S : i <= j BY <1>2, <2>1, LeastOfNats
  <2>3. FirstOf(S, d) = CHOOSE i \in S : \A j \in S : i <= j BY <1>2 DEF FirstOf
  <2>4. FirstOf(S, d) \in S BY <2>2, <2>3
  <2> QED BY <2>4
<1> QED BY <1>1, <1>2

LEMMA LastIsThere ==
  ASSUME NEW n \in Nat, NEW S \in SUBSET (1..n)
  PROVE  LastOf(S) \in 0..n
<1>1. CASE S = {} BY <1>1 DEF LastOf
<1>2. CASE S # {}
  <2>2. \E i \in S : \A j \in S : j <= i BY <1>2, GreatestOfSome
  <2>3. LastOf(S) = CHOOSE i \in S : \A j \in S : j <= i BY <1>2 DEF LastOf
  <2>4. LastOf(S) \in S BY <2>2, <2>3
  <2>5. LastOf(S) \in 1..n BY <2>4
  <2>6. 1..n \subseteq 0..n OBVIOUS
  <2> QED BY <2>5, <2>6
<1> QED BY <1>1, <1>2

LEMMA PlanLength ==
  ASSUME NEW p, IsPlan(p)
  PROVE  Len(p) \in Nat /\ DOMAIN p = 1..Len(p)
BY DEF IsPlan

LEMMA FunctionIsPlan ==
  ASSUME NEW n \in Nat, NEW f, f = [i \in 1..n |-> f[i]]
  PROVE  IsPlan(f)
<1> DEFINE S == {f[i] : i \in 1..n}
<1>1. f \in [1..n -> S] OBVIOUS
<1>2. f \in Seq(S) BY <1>1
<1> QED BY <1>2 DEF IsPlan

LEMMA InsertedPlan ==
  ASSUME NEW p, IsPlan(p), NEW k \in 1..(Len(p) + 1), NEW e
  PROVE  IsPlan(InsertAt(p, k, e))
<1>1. PICK S : p \in Seq(S) BY DEF IsPlan
<1> DEFINE T == S \cup {e}
<1>2. p \in Seq(T) BY <1>1
<1>3. Len(p) \in Nat BY <1>1
<1>4. SubSeq(p, 1, k - 1) \in Seq(T) BY <1>2, <1>3
<1>5. SubSeq(p, k, Len(p)) \in Seq(T) BY <1>2, <1>3
<1>6. <<e>> \in Seq(T) OBVIOUS
<1>7. InsertAt(p, k, e) \in Seq(T) BY <1>4, <1>5, <1>6 DEF InsertAt
<1> QED BY <1>7 DEF IsPlan

LEMMA KeptPlan ==
  ASSUME NEW p, IsPlan(p), NEW S \in SUBSET DOMAIN p
  PROVE  IsPlan(Keep(p, S))
<1>1. IsFiniteSet(DOMAIN p) BY PlanLength, FS_Interval
<1>2. Cardinality(S) \in Nat BY <1>1, FS_Subset, FS_CardinalityType
<1> DEFINE n == Cardinality(S)
           f == [k \in 1..n |-> p[SetToSortSeq(S, <)[k]]]
<1>3. Keep(p, S) = f BY DEF Keep
<1>4. f = [k \in 1..n |-> f[k]] OBVIOUS
<1> HIDE DEF n, f
<1>5. IsPlan(f) BY <1>2, <1>4, FunctionIsPlan DEF n
<1> QED BY <1>3, <1>5

LEMMA ConcatenatedPlan ==
  ASSUME NEW p, NEW q, IsPlan(p), IsPlan(q)
  PROVE  IsPlan(p \o q)
<1>1. PICK S : p \in Seq(S) BY DEF IsPlan
<1>2. PICK T : q \in Seq(T) BY DEF IsPlan
<1>3. p \in Seq(S \cup T) /\ q \in Seq(S \cup T) BY <1>1, <1>2
<1>4. p \o q \in Seq(S \cup T) BY <1>3
<1> QED BY <1>4 DEF IsPlan

LEMMA StepOverSteps ==
  ASSUME NEW p, IsPlan(p), NEW q, DOMAIN q = DOMAIN p, q = [i \in DOMAIN q |-> q[i]]
  PROVE  IsPlan(q)
<1>1. Len(p) \in Nat /\ DOMAIN q = 1..Len(p) BY PlanLength
<1>2. q = [i \in 1..Len(p) |-> q[i]] BY <1>1
<1> QED BY <1>1, <1>2, FunctionIsPlan

\* The places where the completion inserts lie in the plan or right behind it.
LEMMA PlacesInPlan ==
  ASSUME NEW p, IsPlan(p)
  PROVE  /\ \A S \in SUBSET DOMAIN p : /\ FirstOf(S, Len(p) + 1) \in 1..(Len(p) + 1)
                                       /\ LastOf(S) + 1 \in 1..(Len(p) + 1)
                                       /\ S # {} => FirstOf(S, 0) + 1 \in 1..(Len(p) + 1)
         /\ \A S \in SUBSET DOMAIN p : S # {} => FirstOf(S, 0) \in DOMAIN p
<1>1. Len(p) \in Nat /\ DOMAIN p = 1..Len(p) BY PlanLength
<1> DEFINE n == Len(p)
<1> HIDE DEF n
<1>2. ASSUME NEW S \in SUBSET (1..n), n \in Nat
      PROVE  /\ FirstOf(S, n + 1) \in 1..(n + 1) /\ LastOf(S) + 1 \in 1..(n + 1)
             /\ S # {} => FirstOf(S, 0) + 1 \in 1..(n + 1) /\ FirstOf(S, 0) \in 1..n
  <2>1. FirstOf(S, n + 1) = n + 1 \/ FirstOf(S, n + 1) \in 1..n BY <1>2, FirstIsThere
  <2>2. LastOf(S) \in 0..n BY <1>2, LastIsThere
  <2>3. ASSUME S # {} PROVE FirstOf(S, 0) \in 1..n
    <3>1. S \in SUBSET Nat OBVIOUS
    <3>2. \E i \in S : \A j \in S : i <= j BY <2>3, <3>1, LeastOfNats
    <3>3. FirstOf(S, 0) = CHOOSE i \in S : \A j \in S : i <= j BY <2>3 DEF FirstOf
    <3>4. FirstOf(S, 0) \in S BY <3>2, <3>3
    <3> QED BY <3>4
  <2> QED BY <1>2, <2>1, <2>2, <2>3
<1> QED BY <1>1, <1>2 DEF n

LEMMA ProposedPlan ==
  ASSUME NEW c, NEW p \in PlansFor(c)
  PROVE  IsPlan(p)
<1>1. CASE c.visible \/ c.only
  <2>1. p = FixedPlan(c) BY <1>1 DEF PlansFor
  <2>2. \A s : <<s>> \in Seq({s}) OBVIOUS
  <2>3. \E s : p = <<s>> BY <2>1 DEF FixedPlan
  <2> QED BY <2>2, <2>3 DEF IsPlan
<1>2. CASE ~(c.visible \/ c.only)
  <2>1. PICK n \in 1..MaxRaw : p \in [1..n -> RawSteps] BY <1>2 DEF PlansFor
  <2>2. n \in Nat OBVIOUS
  <2>3. p \in Seq(RawSteps) BY <2>1, <2>2
  <2> QED BY <2>3 DEF IsPlan
<1> QED BY <1>1, <1>2

LEMMA DestinationPlan ==
  ASSUME NEW c, NEW p, IsPlan(p)
  PROVE  IsPlan(WithDestination(c, p))
<1> DEFINE q == [i \in DOMAIN p |-> IF BecomesDestination(p[i])
                                    THEN Step("open_target", "site", "") ELSE p[i]]
           S == {i \in DOMAIN q : /\ ~Redundant(c, q[i])
                                  /\ i \in Destinations(q) => \A j \in Destinations(q) : i <= j}
<1>1. IsPlan(q)
  <2>1. DOMAIN q = DOMAIN p /\ q = [i \in DOMAIN q |-> q[i]] OBVIOUS
  <2> HIDE DEF q
  <2> QED BY <2>1, StepOverSteps
<1>2. WithDestination(c, p) = IF c.uri THEN Keep(q, S) ELSE p BY DEF WithDestination
<1>3. S \in SUBSET DOMAIN q OBVIOUS
<1> HIDE DEF q, S
<1>4. IsPlan(Keep(q, S)) BY <1>1, <1>3, KeptPlan
<1> QED BY <1>2, <1>4

LEMMA LocatedPlan ==
  ASSUME NEW c, NEW p, IsPlan(p)
  PROVE  IsPlan(WithLocation(c, p))
<1> DEFINE k == IF AppSteps(c, p) # {} THEN FirstOf(AppSteps(c, p), 0) + 1 ELSE Dependent(p)
           s == Step("open_location", "ws", OnlyApp(c, ""))
           q == InsertLocation(c, p)
<1>1. AppSteps(c, p) \in SUBSET DOMAIN p /\ Terminals(p) \cup Commands(p) \in SUBSET DOMAIN p
  BY DEF AppSteps, Opens, Terminals, Commands, Where
<1>2. k \in 1..(Len(p) + 1) BY <1>1, PlacesInPlan DEF Dependent
<1>3. InsertLocation(c, p) = IF Locations(p) # {} THEN p ELSE InsertAt(p, k, s)
  BY DEF InsertLocation
<1> HIDE DEF k, s
<1>4. IsPlan(InsertAt(p, k, s)) BY <1>2, InsertedPlan
<1>5. IsPlan(q) BY <1>3, <1>4
<1> HIDE DEF q
<1> DEFINE r == [i \in DOMAIN q |->
                   IF i \in Locations(q) THEN Step("open_location", "ws", OnlyApp(c, q[i].value))
                   ELSE IF i \in Commands(q) /\ q[i].target # "" THEN [q[i] EXCEPT !.target = "ws"]
                   ELSE q[i]]
<1>6. DOMAIN r = DOMAIN q /\ r = [i \in DOMAIN r |-> r[i]] OBVIOUS
<1>7. WithLocation(c, p) = IF ~(c.location /\ c.ws) THEN p ELSE r BY DEF WithLocation, q
<1> HIDE DEF r
<1>8. IsPlan(r) BY <1>5, <1>6, StepOverSteps
<1> QED BY <1>7, <1>8

LEMMA TerminalPlan ==
  ASSUME NEW c, NEW p, IsPlan(p)
  PROVE  IsPlan(WithTerminal(c, p))
<1> DEFINE s == Step("open_terminal", FirstApp(c), "")
           r == [i \in DOMAIN p |-> IF i \in Terminals(p) /\ p[i].target = ""
                                    THEN [p[i] EXCEPT !.target = FirstApp(c)] ELSE p[i]]
<1>1. Where(p, {"open_target", "open_location"}) \in SUBSET DOMAIN p /\ Commands(p) \in SUBSET DOMAIN p
  BY DEF Commands, Where
<1>2. TerminalPlace(p) \in 1..(Len(p) + 1) BY <1>1, PlacesInPlan DEF TerminalPlace
<1>3. DOMAIN r = DOMAIN p /\ r = [i \in DOMAIN r |-> r[i]] OBVIOUS
<1>4. WithTerminal(c, p) \in {p, InsertAt(p, TerminalPlace(p), s), r} BY DEF WithTerminal
<1> HIDE DEF s, r
<1>5. IsPlan(r) BY <1>3, StepOverSteps
<1>6. IsPlan(InsertAt(p, TerminalPlace(p), s)) BY <1>2, InsertedPlan
<1> QED BY <1>4, <1>5, <1>6

LEMMA CommandedPlan ==
  ASSUME NEW c, c.commands \in Nat, NEW p, IsPlan(p)
  PROVE  IsPlan(WithCommands(c, p))
<1> DEFINE n == Cardinality(MissingCommands(c, p))
           r == [k \in 1..n |-> Command(SetToSortSeq(MissingCommands(c, p), <)[k])]
<1>1. MissingCommands(c, p) \in SUBSET (1..c.commands) BY DEF MissingCommands
<1>2. IsFiniteSet(1..c.commands) BY FS_Interval
<1>3. n \in Nat BY <1>1, <1>2, FS_Subset, FS_CardinalityType
<1>4. r = [k \in 1..n |-> r[k]] OBVIOUS
<1>5. WithCommands(c, p) = p \o r BY DEF WithCommands
<1> HIDE DEF n, r
<1>6. IsPlan(r) BY <1>3, <1>4, FunctionIsPlan
<1> QED BY <1>5, <1>6, ConcatenatedPlan

LEMMA SearchedPlan ==
  ASSUME NEW c, NEW p, IsPlan(p)
  PROVE  IsPlan(WithSearch(c, p))
<1> DEFINE q == WithBrowser(c, p)
           s == Step("search_current_page", "", "query")
           r == [i \in DOMAIN q |-> IF i \in Searches(q) THEN s ELSE q[i]]
<1>1. IsPlan(q)
  <2> DEFINE e == Step("open_target", "site", "")
  <2>1. 1 \in 1..(Len(p) + 1) BY PlanLength
  <2>2. q \in {p, InsertAt(p, 1, e)} BY DEF WithBrowser
  <2> HIDE DEF e
  <2>3. IsPlan(InsertAt(p, 1, e)) BY <2>1, InsertedPlan
  <2> QED BY <2>2, <2>3
<1>2. WithSearch(c, p) \in {p, InsertAt(q, SearchPlace(c, q), s), r} BY DEF WithSearch
<1>3. DOMAIN r = DOMAIN q /\ r = [i \in DOMAIN r |-> r[i]] OBVIOUS
<1> HIDE DEF q, s, r
<1>4. IsPlan(r) BY <1>1, <1>3, StepOverSteps
<1>5. SearchPlace(c, q) \in 1..(Len(q) + 1)
  <2>1. Where(q, {"select_search_result"}) \in SUBSET DOMAIN q /\ Destinations(q) \in SUBSET DOMAIN q
    BY DEF Destinations, Where
  <2>2. Len(q) \in Nat BY <1>1, PlanLength
  <2>3. 1 \in 1..(Len(q) + 1) BY <2>2
  <2> QED BY <1>1, <2>1, <2>3, PlacesInPlan DEF SearchPlace
<1>6. IsPlan(InsertAt(q, SearchPlace(c, q), s)) BY <1>1, <1>5, InsertedPlan
<1> QED BY <1>2, <1>4, <1>6

LEMMA PlacedPlan ==
  ASSUME NEW c, NEW p, IsPlan(p)
  PROVE  IsPlan(WithPlace(c, p))
<1> DEFINE r == [i \in DOMAIN p |->
                   IF i \notin Locations(p) THEN p[i]
                   ELSE Step("open_location", Place(c, p, p[i]),
                             IF c.location THEN OnlyApp(c, p[i].value) ELSE p[i].value)]
<1>1. DOMAIN r = DOMAIN p /\ r = [i \in DOMAIN r |-> r[i]] OBVIOUS
<1>2. WithPlace(c, p) \in {p, r} BY DEF WithPlace
<1> HIDE DEF r
<1>3. IsPlan(r) BY <1>1, StepOverSteps
<1> QED BY <1>2, <1>3

LEMMA CompletedPlan ==
  ASSUME NEW c, c.commands \in Nat, NEW p, IsPlan(p)
  PROVE  IsPlan(Completed(c, p))
<1> DEFINE p1 == WithDestination(c, p)
           p2 == WithLocation(c, p1)
           p3 == WithTerminal(c, p2)
           p4 == WithCommands(c, p3)
           p5 == WithSearch(c, p4)
<1>1. IsPlan(p1) BY DestinationPlan
<1> HIDE DEF p1
<1>2. IsPlan(p2) BY <1>1, LocatedPlan
<1> HIDE DEF p2
<1>3. IsPlan(p3) BY <1>2, TerminalPlan
<1> HIDE DEF p3
<1>4. IsPlan(p4) BY <1>3, CommandedPlan
<1> HIDE DEF p4
<1>5. IsPlan(p5) BY <1>4, SearchedPlan
<1> HIDE DEF p5
<1>6. IsPlan(WithPlace(c, p5)) BY <1>5, PlacedPlan
<1> QED BY <1>6 DEF Completed, p1, p2, p3, p4, p5

-----------------------------------------------------------------------------
(* A run ends in success only along its whole plan.                        *)

RowType == [step : Nat, effect : Effects \cup {"acts"}, state : RowStates, started : BOOLEAN]
HasRow == {"prepared", "claimed", "started", "polling"}

Shows(k, i) == rows[k].step = i /\ rows[k].effect = EffectOf(plan[i]) /\ rows[k].state = "verified"

\* The steps behind the run have their effect verified, and so has the step in progress once it
\* is through; until then the row of its claim is its own.
AlongThePlan ==
  /\ at >= 1
  /\ \A i \in DOMAIN plan : i < at /\ EffectOf(plan[i]) # "acts" =>
       \E k \in DOMAIN rows : Shows(k, i)
  /\ at \in DOMAIN plan /\ EffectOf(plan[at]) # "acts" /\ pc = "verified" =>
       \E k \in DOMAIN rows : Shows(k, at)
  /\ pc \in HasRow => /\ claim \in DOMAIN rows
                      /\ rows[claim].step = at /\ rows[claim].effect = EffectOf(plan[at])

DRInvariant ==
  /\ goal \in Contracts \cup {NoGoal}
  /\ taskStatus = "succeeded" => stage = "returned" /\ SuccessIsEarned
  /\ stage # "returned" => /\ rows \in Seq(RowType) /\ at \in Nat
                           /\ \A k \in DOMAIN rows : rows[k].state # "in_doubt"
  /\ stage \in {"new", "proposed", "completed"} => pc = "step"
  /\ stage \in {"proposed", "completed"} => at = 1
  /\ stage \in {"proposed", "completed", "running"} => IsPlan(plan)
  /\ stage = "running" => AlongThePlan

LEMMA CancelledRows ==
  ASSUME rows \in Seq(RowType)
  PROVE  /\ CancelPrepared(rows) \in Seq(RowType)
         /\ DOMAIN CancelPrepared(rows) = DOMAIN rows
         /\ \A k \in DOMAIN rows :
              /\ CancelPrepared(rows)[k].step = rows[k].step
              /\ CancelPrepared(rows)[k].effect = rows[k].effect
              /\ CancelPrepared(rows)[k].state = IF rows[k].state = "prepared" THEN "cancelled" ELSE rows[k].state
              /\ CancelPrepared(rows)[k].started => rows[k].started
<1>1. \A k \in DOMAIN rows : rows[k] \in RowType OBVIOUS
<1>2. Len(rows) \in Nat /\ DOMAIN rows = 1..Len(rows) OBVIOUS
<1>3. \A k \in DOMAIN rows :
        CancelPrepared(rows)[k] = IF rows[k].state = "prepared" THEN [rows[k] EXCEPT !.state = "cancelled"]
                                  ELSE rows[k]
  BY DEF CancelPrepared
<1>4. \A k \in DOMAIN rows : CancelPrepared(rows)[k] \in RowType
  BY <1>1, <1>3 DEF RowType, RowStates
<1>5. CancelPrepared(rows) \in [1..Len(rows) -> RowType] BY <1>2, <1>4 DEF CancelPrepared
<1>6. ASSUME NEW k \in DOMAIN rows
      PROVE  /\ CancelPrepared(rows)[k].step = rows[k].step
             /\ CancelPrepared(rows)[k].effect = rows[k].effect
             /\ CancelPrepared(rows)[k].state = IF rows[k].state = "prepared" THEN "cancelled" ELSE rows[k].state
             /\ CancelPrepared(rows)[k].started => rows[k].started
  <2>1. rows[k] \in RowType BY <1>1
  <2>2. CASE rows[k].state = "prepared" BY <1>3, <2>1, <2>2 DEF RowType
  <2>3. CASE rows[k].state # "prepared" BY <1>3, <2>3
  <2> QED BY <2>2, <2>3
<1> QED BY <1>2, <1>5, <1>6

\* A run that goes on keeps what its earlier steps have verified.
LEMMA StillAlong ==
  ASSUME DRInvariant, stage = "running", stage' = "running", UNCHANGED <<goal, plan, at>>,
         taskStatus' # "succeeded",
         rows' \in Seq(RowType), DOMAIN rows \subseteq DOMAIN rows',
         \A k \in DOMAIN rows' : rows'[k].state # "in_doubt",
         \A k \in DOMAIN rows :
           /\ rows'[k].step = rows[k].step /\ rows'[k].effect = rows[k].effect
           /\ rows[k].state = "verified" /\ rows[k].step # at => rows'[k].state = "verified",
         pc' \in HasRow => /\ claim' \in DOMAIN rows'
                           /\ rows'[claim'].step = at /\ rows'[claim'].effect = EffectOf(plan[at]),
         at \in DOMAIN plan /\ EffectOf(plan[at]) # "acts" /\ pc' = "verified" =>
           \E k \in DOMAIN rows' : /\ rows'[k].step = at /\ rows'[k].effect = EffectOf(plan[at])
                                   /\ rows'[k].state = "verified"
  PROVE  DRInvariant'
<1>1. AlongThePlan /\ at \in Nat /\ IsPlan(plan) BY DEF DRInvariant
<1>2. ASSUME NEW i \in DOMAIN plan, i < at, EffectOf(plan[i]) # "acts"
      PROVE  \E k \in DOMAIN rows' : /\ rows'[k].step = i /\ rows'[k].effect = EffectOf(plan[i])
                                     /\ rows'[k].state = "verified"
  <2>1. PICK k \in DOMAIN rows : Shows(k, i) BY <1>1, <1>2 DEF AlongThePlan
  <2>2. i \in Nat BY <1>1, PlanLength
  <2>3. rows[k].step # at BY <1>1, <1>2, <2>1, <2>2 DEF Shows
  <2> QED BY <2>1, <2>3 DEF Shows
<1>3. \A s : EffectOf(s)' = EffectOf(s) BY DEF EffectOf
<1>4. AlongThePlan' BY <1>1, <1>2, <1>3 DEF AlongThePlan, Shows
<1> QED BY <1>1, <1>4 DEF DRInvariant

LEMMA ReturnsUnearned ==
  ASSUME goal \in Contracts \cup {NoGoal}, UNCHANGED goal, stage' = "returned", taskStatus' # "succeeded"
  PROVE  DRInvariant'
BY DEF DRInvariant

LEMMA RaisingReturns ==
  ASSUME DRInvariant, stage # "returned", NEW r,
         NEW s \in {taskStatus, "recovery_required", RequiresRecovery}, RaisesWith(r, s)
  PROVE  DRInvariant'
<1>1. goal \in Contracts \cup {NoGoal} /\ taskStatus # "succeeded" BY DEF DRInvariant
<1>2. s # "succeeded" BY <1>1 DEF RequiresRecovery
<1>3. UNCHANGED goal /\ stage' = "returned" /\ taskStatus' \in {"failed", s} BY DEF RaisesWith
<1> QED BY <1>1, <1>2, <1>3, ReturnsUnearned

\* One row more, or one row changed.
LEMMA AppendedRow ==
  ASSUME rows \in Seq(RowType), NEW row \in RowType
  PROVE  /\ Append(rows, row) \in Seq(RowType) /\ Len(rows) \in Nat
         /\ DOMAIN Append(rows, row) = DOMAIN rows \cup {Len(rows) + 1}
         /\ \A k \in DOMAIN rows : Append(rows, row)[k] = rows[k]
         /\ Append(rows, row)[Len(rows) + 1] = row
         /\ Len(rows) + 1 \notin DOMAIN rows
OBVIOUS

LEMMA SetRow ==
  ASSUME rows \in Seq(RowType), NEW i \in DOMAIN rows, NEW state \in RowStates, Set(i, state)
  PROVE  /\ rows' \in Seq(RowType) /\ DOMAIN rows' = DOMAIN rows
         /\ \A k \in DOMAIN rows : k # i => rows'[k] = rows[k]
         /\ rows'[i].step = rows[i].step /\ rows'[i].effect = rows[i].effect
         /\ rows'[i].state = state /\ (rows'[i].started => rows[i].started)
<1>1. rows[i] \in RowType /\ Len(rows) \in Nat /\ DOMAIN rows = 1..Len(rows) OBVIOUS
<1>2. rows' = [rows EXCEPT ![i] = [rows[i] EXCEPT !.state = state]] BY DEF Set
<1>3. rows'[i] = [rows[i] EXCEPT !.state = state] BY <1>2
<1>4. rows'[i] \in RowType BY <1>1, <1>3 DEF RowType
<1>5. rows' \in [1..Len(rows) -> RowType] BY <1>1, <1>2, <1>3, <1>4
<1> QED BY <1>1, <1>2, <1>3, <1>5 DEF RowType

LEMMA ActedRow ==
  ASSUME at \in Nat, NEW state \in RowStates
  PROVE  [step |-> at, effect |-> "acts", state |-> state, started |-> TRUE] \in RowType
BY DEF RowType

\* Planning, up to the first step.
LEMMA PlanningKeeps ==
  ASSUME DRInvariant, Propose \/ PlanFails \/ CompletePlan \/ ValidatePlan
  PROVE  DRInvariant'
<1>1. CASE Propose
  <2>1. goal' = goal /\ stage = "new" /\ taskStatus # "succeeded" /\ at' = 1 /\ UNCHANGED <<pc, rows>>
    BY <1>1 DEF Propose, DRInvariant
  <2>2. /\ rows' \in Seq(RowType) /\ \A k \in DOMAIN rows' : rows'[k].state # "in_doubt"
        /\ pc' = "step"
    BY <2>1 DEF DRInvariant
  <2>3. CASE stage' = "returned"
    <3>1. taskStatus' \in {taskStatus, "cancelled"} BY <1>1 DEF Propose
    <3> QED BY <2>1, <2>3, <3>1, ReturnsUnearned DEF DRInvariant
  <2>4. CASE stage' = "running" /\ \E k \in DirectSteps : plan' = DirectPlan(k)
    <3>1. IsPlan(plan')
      <4>1. \A s : <<s>> \in Seq({s}) OBVIOUS
      <4> QED BY <2>4, <4>1 DEF IsPlan, DirectPlan
    <3>2. UNCHANGED taskStatus BY <1>1, <2>4 DEF Propose
    <3>3. \A i \in DOMAIN plan' : ~(i < 1) BY <3>1, PlanLength
    <3>4. AlongThePlan' BY <2>1, <2>2, <3>3 DEF AlongThePlan, HasRow
    <3> QED BY <2>1, <2>2, <2>4, <3>1, <3>2, <3>4 DEF DRInvariant
  <2>5. CASE stage' = "proposed" /\ plan' \in PlansFor(goal)
    <3>1. IsPlan(plan') BY <2>5, ProposedPlan
    <3>2. UNCHANGED taskStatus BY <1>1, <2>5 DEF Propose
    <3> QED BY <2>1, <2>2, <2>5, <3>1, <3>2 DEF DRInvariant
  <2> QED BY <1>1, <2>3, <2>4, <2>5 DEF Propose
<1>2. ASSUME stage \in {"proposed", "completed"}, Raises PROVE DRInvariant'
  BY <1>2, RaisingReturns DEF Raises
<1>3. CASE CompletePlan
  <2>1. CASE Raises BY <1>2, <1>3, <2>1 DEF CompletePlan
  <2>2. CASE ~Raises
    <3>1. /\ plan' = Completed(goal, plan) /\ stage = "proposed" /\ stage' = "completed"
          /\ UNCHANGED <<goal, rows, taskStatus, at, pc>>
      BY <1>3, <2>2 DEF CompletePlan, step
    <3>2. goal.commands \in Nat BY DEF DRInvariant, Contracts, NoGoal
    <3>3. IsPlan(plan') BY <3>1, <3>2, CompletedPlan DEF DRInvariant
    <3> QED BY <3>1, <3>3 DEF DRInvariant
  <2> QED BY <2>1, <2>2
<1>4. CASE ValidatePlan
  <2>1. CASE Raises BY <1>2, <1>4, <2>1 DEF ValidatePlan
  <2>2. CASE ~Raises
    <3>1. /\ stage = "completed" /\ stage' = "running" /\ UNCHANGED <<goal, plan, rows, taskStatus, at, pc>>
      BY <1>4, <2>2 DEF ValidatePlan, step
    <3>2. at = 1 /\ pc = "step" /\ IsPlan(plan) BY <3>1 DEF DRInvariant
    <3>3. \A i \in DOMAIN plan : ~(i < 1) BY <3>2, PlanLength
    <3>4. AlongThePlan' BY <3>1, <3>2, <3>3 DEF AlongThePlan, HasRow
    <3> QED BY <3>1, <3>2, <3>4 DEF DRInvariant
  <2> QED BY <2>1, <2>2
<1>5. CASE PlanFails BY <1>2, <1>5 DEF PlanFails
<1> QED BY <1>1, <1>3, <1>4, <1>5

LEMMA RunningEnds ==
  ASSUME DRInvariant, stage # "returned", Raises \/ RaisesFailed \/ RaisesInDoubt
  PROVE  DRInvariant'
BY RaisingReturns DEF Raises, RaisesFailed, RaisesInDoubt

\* A step that leaves the rows alone, and does not reach the claim's.
LEMMA RowsAlone ==
  ASSUME DRInvariant, PlanRuns, UNCHANGED <<goal, plan, stage, at, rows, taskStatus>>,
         pc' \in HasRow => pc \in HasRow /\ UNCHANGED claim,
         pc' = "verified" => pc = "verified" \/ EffectOf(plan[at]) = "acts"
  PROVE  DRInvariant'
<1>1. stage = "running" /\ AlongThePlan /\ rows \in Seq(RowType) /\ taskStatus # "succeeded"
      /\ \A k \in DOMAIN rows : rows[k].state # "in_doubt"
  BY DEF PlanRuns, DRInvariant
<1>2. pc' \in HasRow => /\ claim' \in DOMAIN rows
                        /\ rows[claim'].step = at /\ rows[claim'].effect = EffectOf(plan[at])
  BY <1>1 DEF AlongThePlan
<1>3. at \in DOMAIN plan /\ EffectOf(plan[at]) # "acts" /\ pc' = "verified" =>
        \E k \in DOMAIN rows : /\ rows[k].step = at /\ rows[k].effect = EffectOf(plan[at])
                               /\ rows[k].state = "verified"
  BY <1>1 DEF AlongThePlan, Shows
<1> QED BY <1>1, <1>2, <1>3, StillAlong

\* A step that puts the row of its claim in a state.
LEMMA ClaimSet ==
  ASSUME DRInvariant, PlanRuns, pc \in HasRow, NEW state \in RowStates \ {"in_doubt"}, Set(claim, state),
         UNCHANGED <<goal, plan, stage, at, taskStatus, claim>>,
         pc' \in HasRow \/ (pc' = "verified" /\ state = "verified")
  PROVE  DRInvariant'
<1>1. stage = "running" /\ AlongThePlan /\ rows \in Seq(RowType) /\ taskStatus # "succeeded"
      /\ \A k \in DOMAIN rows : rows[k].state # "in_doubt"
  BY DEF PlanRuns, DRInvariant
<1>2. claim \in DOMAIN rows /\ rows[claim].step = at /\ rows[claim].effect = EffectOf(plan[at])
  BY <1>1 DEF AlongThePlan
<1>3. /\ rows' \in Seq(RowType) /\ DOMAIN rows' = DOMAIN rows
      /\ \A k \in DOMAIN rows : k # claim => rows'[k] = rows[k]
      /\ rows'[claim].step = at /\ rows'[claim].effect = EffectOf(plan[at]) /\ rows'[claim].state = state
  BY <1>1, <1>2, SetRow
<1> QED BY <1>1, <1>2, <1>3, StillAlong DEF HasRow

\* A step that appends the row of an accessible action.
LEMMA RowAdded ==
  ASSUME DRInvariant, PlanRuns, NEW state \in RowStates \ {"in_doubt"}, rows' = Acted(state),
         UNCHANGED <<goal, plan, stage, at, taskStatus, claim>>,
         pc' \in HasRow => pc \in HasRow,
         pc' = "verified" => EffectOf(plan[at]) = "acts"
  PROVE  DRInvariant'
<1>1. stage = "running" /\ AlongThePlan /\ rows \in Seq(RowType) /\ taskStatus # "succeeded"
      /\ at \in Nat /\ \A k \in DOMAIN rows : rows[k].state # "in_doubt"
  BY DEF PlanRuns, DRInvariant
<1> DEFINE row == [step |-> at, effect |-> "acts", state |-> state, started |-> TRUE]
<1>2. row \in RowType /\ row.state = state BY <1>1, ActedRow
<1>3. rows' = Append(rows, row) BY DEF Acted
<1> HIDE DEF row
<1>4. /\ rows' \in Seq(RowType) /\ DOMAIN rows' = DOMAIN rows \cup {Len(rows) + 1}
      /\ \A k \in DOMAIN rows : rows'[k] = rows[k]
      /\ rows'[Len(rows) + 1] = row
  BY <1>1, <1>2, <1>3, AppendedRow
<1>5. \A k \in DOMAIN rows' : rows'[k].state # "in_doubt" BY <1>1, <1>2, <1>4
<1>6. pc' \in HasRow => /\ claim \in DOMAIN rows
                        /\ rows[claim].step = at /\ rows[claim].effect = EffectOf(plan[at])
  BY <1>1 DEF AlongThePlan
<1> QED BY <1>1, <1>4, <1>5, <1>6, StillAlong

LEMMA RunKeeps ==
  ASSUME DRInvariant,
         \/ BeginStep \/ Fails \/ Act \/ Prepare \/ \E b \in BOOLEAN : Claim(b)
         \/ TargetUnobservable \/ Start \/ Dispatch \/ DispatchFails
  PROVE  DRInvariant'
<1>0. PlanRuns /\ stage = "running"
  BY DEF BeginStep, Fails, Act, Prepare, Claim, TargetUnobservable, Start, Dispatch, DispatchFails, PlanRuns
<1>1. ASSUME Raises \/ RaisesFailed \/ RaisesInDoubt PROVE DRInvariant'
  BY <1>0, <1>1, RunningEnds
<1>2. ASSUME NEW r, RaisesWith(r, taskStatus) \/ RaisesWith(r, "recovery_required") PROVE DRInvariant'
  BY <1>0, <1>2, RaisingReturns
<1>3. CASE BeginStep
  <2>1. CASE Raises BY <1>1, <2>1
  <2>2. CASE ~Raises
    <3>1. /\ UNCHANGED <<goal, plan, stage, at, rows, taskStatus>> /\ pc' \notin HasRow
          /\ pc' = "verified" => EffectOf(plan[at]) = "acts"
      BY <1>3, <2>2 DEF BeginStep, HasRow, Effect
    <3> QED BY <1>0, <3>1, RowsAlone
  <2> QED BY <2>1, <2>2
<1>4. CASE Fails BY <1>1, <1>4 DEF Fails
<1>5. CASE Act
  <2>1. ASSUME NEW r, RaisesWith(r, taskStatus) \/ RaisesWith(r, "recovery_required") PROVE DRInvariant'
    BY <1>2, <2>1
  <2>2. CASE \E r : RaisesWith(r, taskStatus) \/ RaisesWith(r, "recovery_required") BY <2>1, <2>2
  <2>3. CASE ActDone /\ \E state \in {"verified", "failed"} : rows' = Acted(state)
    <3>1. PICK state \in {"verified", "failed"} : rows' = Acted(state) BY <2>3
    <3>2. state \in RowStates \ {"in_doubt"} BY DEF RowStates
    <3>3. /\ UNCHANGED <<goal, plan, stage, at, taskStatus, claim>> /\ pc' \notin HasRow
          /\ pc' = "verified" => EffectOf(plan[at]) = "acts"
      BY <2>3 DEF ActDone, HasRow, Effect
    <3> QED BY <1>0, <3>1, <3>2, <3>3, RowAdded
  <2> QED BY <1>5, <1>1, <2>2, <2>3 DEF Act
<1>6. CASE Prepare
  <2>1. CASE Raises BY <1>1, <2>1
  <2>2. CASE ~Raises
    <3> DEFINE row == [step |-> at, effect |-> Effect, state |-> "prepared", started |-> FALSE]
    <3>1. /\ UNCHANGED <<goal, plan, stage, at, taskStatus>> /\ pc' = "prepared"
          /\ claim' = Len(rows) + 1 /\ rows' = Append(rows, row)
      BY <1>6, <2>2 DEF Prepare
    <3>2. /\ rows \in Seq(RowType) /\ at \in Nat /\ taskStatus # "succeeded"
          /\ \A k \in DOMAIN rows : rows[k].state # "in_doubt"
      BY <1>0 DEF DRInvariant
    <3>3. Effect \in Effects \cup {"acts"} BY DEF Effect, EffectOf, Effects
    <3>4. /\ row \in RowType /\ row.step = at /\ row.effect = EffectOf(plan[at]) /\ row.state = "prepared"
      BY <3>2, <3>3 DEF RowType, RowStates, Effect
    <3> HIDE DEF row
    <3>5. /\ rows' \in Seq(RowType) /\ DOMAIN rows' = DOMAIN rows \cup {Len(rows) + 1}
          /\ \A k \in DOMAIN rows : rows'[k] = rows[k]
          /\ rows'[Len(rows) + 1] = row
      BY <3>1, <3>2, <3>4, AppendedRow
    <3>6. \A k \in DOMAIN rows' : rows'[k].state # "in_doubt" BY <3>2, <3>4, <3>5
    <3> QED BY <1>0, <3>1, <3>2, <3>4, <3>5, <3>6, StillAlong
  <2> QED BY <2>1, <2>2
<1>7. CASE \E b \in BOOLEAN : Claim(b)
  <2>1. CASE Raises \/ \E r : RaisesWith(r, taskStatus) BY <1>1, <1>2, <2>1
  <2>2. CASE Set(claim, "in_flight") /\ Goes("claimed")
    <3>1. pc \in HasRow BY <1>7 DEF Claim, HasRow
    <3>2. UNCHANGED <<goal, plan, stage, at, taskStatus, claim>> /\ pc' \in HasRow BY <2>2 DEF Goes, HasRow
    <3>3. "in_flight" \in RowStates \ {"in_doubt"} BY DEF RowStates
    <3> QED BY <1>0, <2>2, <3>1, <3>2, <3>3, ClaimSet
  <2> QED BY <1>7, <2>1, <2>2 DEF Claim
<1>8. CASE TargetUnobservable BY <1>1, <1>8 DEF TargetUnobservable
<1>9. CASE Start
  <2>1. CASE Raises \/ RaisesFailed BY <1>1, <2>1
  <2>2. CASE rows' = [rows EXCEPT ![claim].started = TRUE] /\ Goes("started")
    <3>1. /\ rows \in Seq(RowType) /\ taskStatus # "succeeded" /\ AlongThePlan
          /\ \A k \in DOMAIN rows : rows[k].state # "in_doubt"
      BY <1>0 DEF DRInvariant
    <3>2. claim \in DOMAIN rows /\ rows[claim].step = at /\ rows[claim].effect = EffectOf(plan[at])
      BY <1>9, <3>1 DEF Start, AlongThePlan, HasRow
    <3>3. rows[claim] \in RowType /\ Len(rows) \in Nat /\ DOMAIN rows = 1..Len(rows) BY <3>1, <3>2
    <3>4. rows'[claim] = [rows[claim] EXCEPT !.started = TRUE] /\ DOMAIN rows' = DOMAIN rows
          /\ \A k \in DOMAIN rows : k # claim => rows'[k] = rows[k]
      BY <2>2, <3>1, <3>2
    <3>5. /\ rows'[claim] \in RowType /\ rows'[claim].step = at /\ rows'[claim].effect = EffectOf(plan[at])
          /\ rows'[claim].state = rows[claim].state
      BY <3>2, <3>3, <3>4 DEF RowType
    <3>6. rows' \in Seq(RowType)
      <4> DEFINE row == [rows[claim] EXCEPT !.started = TRUE]
      <4>1. rows' = [rows EXCEPT ![claim] = row] BY <2>2
      <4>2. row \in RowType BY <3>4, <3>5
      <4> HIDE DEF row
      <4>3. rows \in [1..Len(rows) -> RowType] BY <3>1
      <4>4. rows' \in [1..Len(rows) -> RowType] BY <4>1, <4>2, <4>3
      <4> QED BY <3>3, <4>4
    <3>7. \A k \in DOMAIN rows' : rows'[k].state # "in_doubt" BY <3>1, <3>2, <3>4, <3>5
    <3>8. UNCHANGED <<goal, plan, stage, at, taskStatus, claim>> /\ pc' = "started" BY <2>2 DEF Goes
    <3> QED BY <1>0, <3>1, <3>2, <3>4, <3>5, <3>6, <3>7, <3>8, StillAlong
  <2> QED BY <1>9, <2>1, <2>2 DEF Start
<1>10. CASE Dispatch
  <2>1. CASE RaisesFailed BY <1>1, <2>1
  <2>2. CASE ~RaisesFailed
    <3>1. /\ UNCHANGED <<goal, plan, stage, at, rows, taskStatus, claim>> /\ pc' = "polling"
          /\ pc \in HasRow
      BY <1>10, <2>2 DEF Dispatch, HasRow
    <3> QED BY <1>0, <3>1, RowsAlone
  <2> QED BY <2>1, <2>2
<1>11. CASE DispatchFails BY <1>1, <1>11 DEF DispatchFails
<1> QED BY <1>3, <1>4, <1>5, <1>6, <1>7, <1>8, <1>9, <1>10, <1>11

LEMMA PollKeeps ==
  ASSUME DRInvariant, PollStep
  PROVE  DRInvariant'
<1>0. Polling /\ PlanRuns /\ stage = "running" /\ pc = "polling" /\ pc \in HasRow
  BY DEF PollStep, ActorExits, Observe, HearStop, Exited, Verify, NestedAct, VerifierFails,
         PollEnds, DeadlinePasses, NotShown, Polling, PlanRuns, HasRow
<1>1. ASSUME Raises \/ RaisesFailed \/ RaisesInDoubt PROVE DRInvariant'
  BY <1>0, <1>1, RunningEnds
<1>2. ASSUME NEW r, RaisesWith(r, taskStatus) \/ RaisesWith(r, "recovery_required") PROVE DRInvariant'
  BY <1>0, <1>2, RaisingReturns
<1>3. CASE (\E r \in {"ok", "failed"} : ActorExits(r)) \/ Observe
  <2>1. UNCHANGED <<goal, plan, stage, at, rows, taskStatus, pc, claim>>
    BY <1>3 DEF ActorExits, Observe
  <2> QED BY <1>0, <2>1, RowsAlone
<1>4. CASE Verify
  <2>1. Set(claim, "verified") /\ pc' = "verified" /\ UNCHANGED <<goal, plan, stage, at, taskStatus, claim>>
    BY <1>4 DEF Verify, Goes
  <2>2. "verified" \in RowStates \ {"in_doubt"} BY DEF RowStates
  <2> QED BY <1>0, <2>1, <2>2, ClaimSet
<1>5. CASE NestedAct
  <2>1. CASE \E r : RaisesWith(r, taskStatus) \/ RaisesWith(r, "recovery_required") BY <1>2, <2>1
  <2>2. CASE rows' = Acted("verified") /\ Goes("polling")
    <3>1. pc' = pc /\ UNCHANGED <<goal, plan, stage, at, taskStatus, claim>> BY <1>0, <2>2 DEF Goes
    <3>2. "verified" \in RowStates \ {"in_doubt"} BY DEF RowStates
    <3> QED BY <1>0, <2>2, <3>1, <3>2, RowAdded
  <2>3. CASE RaisesFailed BY <1>1, <2>3
  <2> QED BY <1>5, <2>1, <2>2, <2>3 DEF NestedAct
<1>6. CASE HearStop BY <1>1, <1>6 DEF HearStop
<1>7. CASE Exited BY <1>1, <1>7 DEF Exited
<1>8. CASE VerifierFails BY <1>1, <1>8 DEF VerifierFails
<1>9. CASE PollEnds BY <1>1, <1>9 DEF PollEnds, DeadlinePasses, NotShown
<1> QED BY <1>3, <1>4, <1>5, <1>6, <1>7, <1>8, <1>9 DEF PollStep

LEMMA EndsKeep ==
  ASSUME DRInvariant, EndStep \/ FinishRun
  PROVE  DRInvariant'
<1>0. /\ stage = "running" /\ AlongThePlan /\ rows \in Seq(RowType) /\ taskStatus # "succeeded" /\ at \in Nat
      /\ IsPlan(plan) /\ goal \in Contracts \cup {NoGoal} /\ \A k \in DOMAIN rows : rows[k].state # "in_doubt"
  BY DEF EndStep, FinishRun, PlanRuns, DRInvariant
<1>1. ASSUME Raises PROVE DRInvariant' BY <1>0, <1>1, RunningEnds
<1>2. CASE EndStep
  <2>1. CASE Raises BY <1>1, <2>1
  <2>2. CASE ~Raises
    <3>1. /\ UNCHANGED <<goal, plan, stage, rows, taskStatus>> /\ at' = at + 1 /\ pc' = "step"
          /\ pc = "verified" /\ at \in DOMAIN plan
      BY <1>2, <2>2 DEF EndStep, PlanRuns
    <3>2. ASSUME NEW i \in DOMAIN plan, i < at + 1, EffectOf(plan[i]) # "acts"
          PROVE  \E k \in DOMAIN rows : Shows(k, i)
      <4>1. i \in Nat BY <1>0, PlanLength
      <4>2. i < at \/ i = at BY <1>0, <3>2, <4>1
      <4> QED BY <1>0, <3>1, <3>2, <4>2 DEF AlongThePlan
    <3>3. \A s : EffectOf(s)' = EffectOf(s) BY <3>1 DEF EffectOf
    <3>4. AlongThePlan' BY <1>0, <3>1, <3>2, <3>3 DEF AlongThePlan, Shows, HasRow
    <3> QED BY <1>0, <3>1, <3>4 DEF DRInvariant
  <2> QED BY <2>1, <2>2
<1>3. CASE FinishRun
  <2>1. CASE Raises BY <1>1, <2>1
  <2>2. CASE ~Raises
    <3>1. /\ UNCHANGED <<goal, plan, results>> /\ stage' = "returned" /\ Missing = {} /\ at = Len(plan) + 1
          /\ taskStatus' = "succeeded" => InState({"in_flight"}) = {} /\ rows' = CancelPrepared(rows)
      BY <1>0, <1>3, <2>2 DEF FinishRun
    <3>2. CASE taskStatus' # "succeeded" BY <1>0, <3>1, <3>2, ReturnsUnearned
    <3>3. CASE taskStatus' = "succeeded"
      <4>1. \A i \in DOMAIN plan : i < at BY <1>0, <3>1, PlanLength
      <4>2. /\ DOMAIN rows' = DOMAIN rows
            /\ \A k \in DOMAIN rows :
                 /\ rows'[k].step = rows[k].step /\ rows'[k].effect = rows[k].effect
                 /\ rows'[k].state = IF rows[k].state = "prepared" THEN "cancelled" ELSE rows[k].state
        BY <1>0, <3>1, <3>3, CancelledRows
      <4>3. InState({"in_flight", "in_doubt", "prepared"})' = {}
        BY <1>0, <3>1, <3>3, <4>2 DEF InState
      <4>4. \A s : EffectOf(s)' = EffectOf(s) BY <3>1 DEF EffectOf
      <4>5. ASSUME NEW i \in DOMAIN plan, EffectOf(plan[i]) # "acts"
            PROVE  \E k \in DOMAIN rows' : /\ rows'[k].step = i /\ rows'[k].effect = EffectOf(plan[i])
                                           /\ rows'[k].state = "verified"
        <5>1. PICK k \in DOMAIN rows : Shows(k, i) BY <1>0, <4>1, <4>5 DEF AlongThePlan
        <5> QED BY <4>2, <5>1 DEF Shows
      <4>6. Missing' = {} BY <3>1 DEF Missing
      <4>7. SuccessIsEarned' BY <3>1, <4>3, <4>4, <4>5, <4>6 DEF SuccessIsEarned
      <4> QED BY <1>0, <3>1, <4>7 DEF DRInvariant
    <3> QED BY <3>2, <3>3
  <2> QED BY <2>1, <2>2
<1> QED BY <1>2, <1>3

\* The owner's stop and the death of the process.
LEMMA OwnerKeeps ==
  ASSUME DRInvariant, RequestStop \/ FinalizeStop \/ Restart
  PROVE  DRInvariant'
<1>1. CASE RequestStop
  <2>1. taskStatus # "succeeded" /\ UNCHANGED <<goal, plan, stage, rows, taskStatus, at, pc, claim>>
    BY <1>1 DEF RequestStop, step
  <2>2. \A s : EffectOf(s)' = EffectOf(s) BY <2>1 DEF EffectOf
  <2>3. AlongThePlan => AlongThePlan' BY <2>1, <2>2 DEF AlongThePlan, Shows
  <2> QED BY <2>1, <2>3 DEF DRInvariant
<1>2. CASE FinalizeStop
  <2>1. /\ taskStatus' = "cancelled" /\ rows' = CancelPrepared(rows)
        /\ UNCHANGED <<goal, plan, stage, at, pc, claim>>
    BY <1>2 DEF FinalizeStop, step
  <2>2. CASE stage = "returned" BY <2>1, <2>2, ReturnsUnearned DEF DRInvariant
  <2>3. CASE stage # "returned"
    <3>1. rows \in Seq(RowType) /\ \A k \in DOMAIN rows : rows[k].state # "in_doubt"
      BY <2>3 DEF DRInvariant
    <3>2. /\ rows' \in Seq(RowType) /\ DOMAIN rows' = DOMAIN rows
          /\ \A k \in DOMAIN rows :
                 /\ rows'[k].step = rows[k].step /\ rows'[k].effect = rows[k].effect
                 /\ rows'[k].state = IF rows[k].state = "prepared" THEN "cancelled" ELSE rows[k].state
      BY <2>1, <3>1, CancelledRows
    <3>3. \A k \in DOMAIN rows' : rows'[k].state # "in_doubt" BY <3>1, <3>2
    <3>4. \A s : EffectOf(s)' = EffectOf(s) BY <2>1 DEF EffectOf
    <3>5. AlongThePlan => AlongThePlan'
      <4>1. \A k \in DOMAIN rows, i \in DOMAIN plan : Shows(k, i) => Shows(k, i)'
        BY <2>1, <3>2, <3>4 DEF Shows
      <4> QED BY <2>1, <3>2, <3>4, <4>1 DEF AlongThePlan
    <3> QED BY <2>1, <2>3, <3>2, <3>3, <3>5 DEF DRInvariant
  <2> QED BY <2>2, <2>3
<1>3. CASE Restart
  <2>1. taskStatus # "succeeded" BY <1>3 DEF Restart, DRInvariant
  <2>2. taskStatus' # "succeeded" BY <1>3, <2>1 DEF Restart, RequiresRecovery
  <2> QED BY <1>3, <2>2, ReturnsUnearned DEF Restart, DRInvariant
<1> QED BY <1>1, <1>2, <1>3

LEMMA DRInvariantHolds == DRSpec => []DRInvariant
<1>1. DRInit => DRInvariant
  <2>1. DRInit => rows \in Seq(RowType) /\ DOMAIN rows = {} BY DEF DRInit
  <2> QED BY <2>1 DEF DRInit, DRInvariant
<1>2. DRInvariant /\ [DRNext]_drVars => DRInvariant'
  <2> SUFFICES ASSUME DRInvariant, [DRNext]_drVars PROVE DRInvariant'
    OBVIOUS
  <2>1. CASE RunnerStep BY <2>1, PlanningKeeps, RunKeeps, EndsKeep DEF RunnerStep
  <2>2. CASE PollStep BY <2>2, PollKeeps
  <2>3. CASE RequestStop \/ FinalizeStop \/ Restart BY <2>3, OwnerKeeps
  <2>4. CASE UNCHANGED drVars
    <3>1. UNCHANGED <<goal, plan, stage, rows, taskStatus, at, pc, claim, results>> BY <2>4 DEF drVars
    <3>2. \A s : EffectOf(s)' = EffectOf(s) BY <3>1 DEF EffectOf
    <3>3. AlongThePlan => AlongThePlan' BY <3>1, <3>2 DEF AlongThePlan, Shows
    <3>4. SuccessIsEarned => SuccessIsEarned' BY <3>1, <3>2 DEF SuccessIsEarned, Missing, InState
    <3> QED BY <3>1, <3>3, <3>4 DEF DRInvariant
  <2> QED BY <2>1, <2>2, <2>3, <2>4 DEF DRNext
<1> QED BY <1>1, <1>2, PTL DEF DRSpec

\* A task that succeeded has every result its request requires, and a verified row for every
\* effect its plan dispatches: the run reaches complete only behind its last step, and a step is
\* behind it only once its effect was verified or the step had none to dispatch.
THEOREM SuccessNeedsItsEffects == DRSpec => []SuccessIsEarned
<1>1. DRInvariant => SuccessIsEarned BY DEF DRInvariant, SuccessIsEarned
<1> QED BY <1>1, DRInvariantHolds, PTL

-----------------------------------------------------------------------------
(* What a step may start.                                                  *)

NoneStarted == (\E k \in DOMAIN rows : rows[k].state = "in_doubt") \/ stopFlag =>
  \A k \in DOMAIN rows' : rows'[k].started => k \in DOMAIN rows /\ rows[k].started

LEMMA ClosedRow ==
  ASSUME rows \in Seq(RowType), NEW i, NEW state
  PROVE  /\ DOMAIN RowClosed(i, state) = DOMAIN rows
         /\ \A k \in DOMAIN rows : RowClosed(i, state)[k].started => rows[k].started
<1>1. DOMAIN RowClosed(i, state) = DOMAIN rows BY DEF RowClosed
<1>2. ASSUME NEW k \in DOMAIN rows PROVE RowClosed(i, state)[k].started => rows[k].started
  <2>1. rows[k] \in RowType OBVIOUS
  <2>2. CASE k = i
    <3>1. RowClosed(i, state)[k] = [rows[k] EXCEPT !.state = state] BY <2>2 DEF RowClosed
    <3> QED BY <2>1, <3>1 DEF RowType
  <2>3. CASE k # i BY <2>3 DEF RowClosed
  <2> QED BY <2>2, <2>3
<1> QED BY <1>1, <1>2

\* An exception that leaves no row started that was not leaves none through its handler.
LEMMA RaisingStartsNone ==
  ASSUME NEW r, NEW s, RaisesWith(r, s), DOMAIN r = DOMAIN rows,
         \A k \in DOMAIN rows : r[k].started => rows[k].started
  PROVE  NoneStarted
<1>1. /\ DOMAIN CancelPrepared(r) = DOMAIN r
      /\ \A k \in DOMAIN r : CancelPrepared(r)[k] \in {r[k], [r[k] EXCEPT !.state = "cancelled"]}
  BY DEF CancelPrepared
<1>2. rows' \in {r, CancelPrepared(r)} BY DEF RaisesWith
<1>3. CASE rows' = r BY <1>3 DEF NoneStarted
<1>4. CASE rows' = CancelPrepared(r)
  <2>1. ASSUME NEW k \in DOMAIN r, rows'[k].started PROVE r[k].started
    <3>1. CASE rows'[k] = r[k] BY <2>1, <3>1
    <3>2. CASE rows'[k] = [r[k] EXCEPT !.state = "cancelled"]
      BY <2>1, <3>2
    <3> QED BY <1>1, <1>4, <3>1, <3>2
  <2> QED BY <1>1, <1>4, <2>1 DEF NoneStarted
<1> QED BY <1>2, <1>3, <1>4

LEMMA SameRowsStartNone ==
  ASSUME UNCHANGED rows
  PROVE  NoneStarted
BY DEF NoneStarted

LEMMA RaisedStartsNone ==
  ASSUME DRInvariant, stage # "returned",
         \/ Raises \/ RaisesFailed \/ RaisesInDoubt
         \/ \E i, state, s : RaisesWith(RowClosed(i, state), s)
  PROVE  NoneStarted
<1>1. rows \in Seq(RowType) BY DEF DRInvariant
<1>2. CASE Raises BY <1>2, RaisingStartsNone DEF Raises
<1>3. ASSUME NEW i, NEW state, NEW s, RaisesWith(RowClosed(i, state), s) PROVE NoneStarted
  BY <1>1, <1>3, ClosedRow, RaisingStartsNone
<1> QED BY <1>2, <1>3 DEF RaisesFailed, RaisesInDoubt

LEMMA OpenIsUndoubted ==
  ASSUME DRInvariant, stage # "returned", ~stopFlag
  PROVE  NoneStarted
BY DEF DRInvariant, NoneStarted

LEMMA RunStartsNone ==
  ASSUME DRInvariant, RunnerStep
  PROVE  NoneStarted
<1>0. stage # "returned"
  BY DEF RunnerStep, Propose, PlanFails, CompletePlan, ValidatePlan, BeginStep, Fails, Act, Prepare, Claim,
         TargetUnobservable, Start, Dispatch, DispatchFails, EndStep, FinishRun, PlanRuns
<1>1. ASSUME Raises \/ RaisesFailed \/ RaisesInDoubt \/ \E i, state, s : RaisesWith(RowClosed(i, state), s)
      PROVE  NoneStarted
  BY <1>0, <1>1, RaisedStartsNone
<1>2. CASE ~stopFlag BY <1>0, <1>2, OpenIsUndoubted
<1>3. rows \in Seq(RowType) BY <1>0 DEF DRInvariant
<1>4. CASE Propose \/ PlanFails \/ CompletePlan \/ ValidatePlan
  <2>1. Raises \/ UNCHANGED rows BY <1>4 DEF Propose, PlanFails, CompletePlan, ValidatePlan
  <2> QED BY <1>1, <2>1, SameRowsStartNone
<1>5. CASE stopFlag /\ (BeginStep \/ Fails \/ Act \/ Prepare \/ Start)
  <2>1. Raises \/ RaisesFailed BY <1>5 DEF BeginStep, Fails, Act, Prepare, Start, Open
  <2> QED BY <1>1, <2>1
<1>6. CASE stopFlag /\ \E b \in BOOLEAN : Claim(b)
  <2>1. Raises BY <1>6 DEF Claim, Open
  <2> QED BY <1>1, <2>1
<1>7. CASE TargetUnobservable \/ Dispatch \/ DispatchFails \/ EndStep
  <2>1. Raises \/ RaisesFailed \/ RaisesInDoubt \/ UNCHANGED rows
    BY <1>7 DEF TargetUnobservable, Dispatch, DispatchFails, EndStep
  <2> QED BY <1>1, <2>1, SameRowsStartNone
<1>8. CASE FinishRun
  <2>1. CASE Raises BY <1>1, <2>1
  <2>2. CASE ~Raises
    <3>1. rows' \in {rows, CancelPrepared(rows)} BY <1>8, <2>2 DEF FinishRun
    <3> QED BY <1>3, <3>1, CancelledRows DEF NoneStarted
  <2> QED BY <2>1, <2>2
<1> QED BY <1>2, <1>4, <1>5, <1>6, <1>7, <1>8 DEF RunnerStep

LEMMA PollStartsNone ==
  ASSUME DRInvariant, PollStep
  PROVE  NoneStarted
<1>0. PlanRuns /\ stage # "returned" /\ pc = "polling"
  BY DEF PollStep, ActorExits, Observe, HearStop, Exited, Verify, NestedAct, VerifierFails,
         PollEnds, DeadlinePasses, NotShown, Polling, PlanRuns
<1>1. ASSUME Raises \/ RaisesFailed \/ RaisesInDoubt PROVE NoneStarted
  BY <1>0, <1>1, RaisedStartsNone
<1>2. CASE ~stopFlag BY <1>0, <1>2, OpenIsUndoubted
<1>3. CASE stopFlag /\ NestedAct
  <2>1. RaisesFailed BY <1>3 DEF NestedAct, Open
  <2> QED BY <1>1, <2>1
<1>4. CASE Verify
  <2>1. rows \in Seq(RowType) /\ AlongThePlan BY <1>0 DEF DRInvariant, PlanRuns
  <2>2. claim \in DOMAIN rows BY <1>0, <2>1 DEF AlongThePlan, HasRow
  <2>3. "verified" \in RowStates /\ Set(claim, "verified") BY <1>4 DEF Verify, RowStates
  <2> QED BY <2>1, <2>2, <2>3, SetRow DEF NoneStarted
<1>5. CASE (\E r \in {"ok", "failed"} : ActorExits(r)) \/ Observe \/ HearStop \/ Exited \/ VerifierFails \/ PollEnds
  <2>1. Raises \/ RaisesFailed \/ RaisesInDoubt \/ UNCHANGED rows
    BY <1>5 DEF ActorExits, Observe, HearStop, Exited, VerifierFails, PollEnds, DeadlinePasses, NotShown
  <2> QED BY <1>1, <2>1, SameRowsStartNone
<1> QED BY <1>2, <1>3, <1>4, <1>5 DEF PollStep

LEMMA OwnerStartsNone ==
  ASSUME RequestStop \/ FinalizeStop \/ Restart
  PROVE  NoneStarted
<1>1. CASE RequestStop BY <1>1, SameRowsStartNone DEF RequestStop
<1>2. ASSUME NEW new, DOMAIN rows' = DOMAIN rows,
             \A k \in DOMAIN rows : rows'[k] \in {rows[k], [rows[k] EXCEPT !.state = new]}
      PROVE  NoneStarted
  <2>1. ASSUME NEW k \in DOMAIN rows, rows'[k].started PROVE rows[k].started
    <3>1. CASE rows'[k] = rows[k] BY <2>1, <3>1
    <3>2. CASE rows'[k] = [rows[k] EXCEPT !.state = new] BY <2>1, <3>2
    <3> QED BY <1>2, <3>1, <3>2
  <2> QED BY <1>2, <2>1 DEF NoneStarted
<1>3. CASE FinalizeStop BY <1>2, <1>3 DEF FinalizeStop, CancelPrepared
<1>4. CASE Restart BY <1>2, <1>4 DEF Restart
<1> QED BY <1>1, <1>3, <1>4

\* Once an effect of the task is in doubt, or the owner asked it to stop, no row is started: every
\* way into a start asks the ledger, whose task is then closed to it (prepare, claim and
\* mark_execution_started), and what goes in doubt ends the run.
THEOREM DoubtAndStopEndStarts == DRSpec => NothingStartsAfterDoubtOrStop
<1>1. DRInvariant /\ [DRNext]_drVars => NoneStarted
  BY RunStartsNone, PollStartsNone, OwnerStartsNone, SameRowsStartNone DEF DRNext, drVars
<1>2. NoneStarted => (InState({"in_doubt"}) # {} \/ stopFlag => Started' \subseteq Started)
  BY DEF NoneStarted, InState, Started
<1>3. DRInvariant /\ [DRNext]_drVars
      => [InState({"in_doubt"}) # {} \/ stopFlag => Started' \subseteq Started]_drVars
  BY <1>1, <1>2
<1> QED BY <1>3, DRInvariantHolds, PTL DEF DRSpec, NothingStartsAfterDoubtOrStop

-----------------------------------------------------------------------------
(* The physical gates: positions of the events a gate has seen.             *)

\* Where the events, the cursors and the evidence of the gate shown are.
GatesShape ==
  /\ IsPlan(log) /\ IsPlan(gateResults)
  /\ gate \in 1..10 /\ halt \in 0..Len(log)
  /\ cursor \in 0..batch /\ batch \in 0..Len(log)
  /\ since \in Nat \ {0} /\ playback.seq \in Nat
  /\ gate = 3 => playback.seq # 0
  /\ click # 0 => Gates[click] \in Confirmable

\* What an accepted stop rests on: once it is recorded its gate is left behind.
StopHeeded ==
  \E c, a \in 1..halt - 1 :
    /\ c < a /\ log[c].k = "cut" /\ log[a].k = "asked"
    /\ \A i \in c..halt : log[i].k \notin Responses

StopRecorded == \E n \in DOMAIN gateResults : gateResults[n] = <<5, TRUE>>

GatesInvariant == GatesShape /\ (StopRecorded => gate > 5 /\ StopHeeded)

LEMMA GateNames ==
  /\ DOMAIN Gates = 1..10
  /\ \A g \in 1..10 : /\ Gates[g] = "learning_continuation" <=> g = 2
                      /\ Gates[g] = "learning_output" <=> g = 3
                      /\ Gates[g] = "barge_in" <=> g = 4
                      /\ Gates[g] = "spoken_stop" <=> g = 5
                      /\ Gates[g] = "no_stale_playback" <=> g = 6
                      /\ Gates[g] = "isolated_assessment" <=> g = 9
                      /\ Gates[g] = "ui_voice_synchronization" <=> g = 10
<1>1. DOMAIN Gates = 1..10 BY DEF Gates
<1>2. ASSUME NEW g \in 1..10
      PROVE  /\ Gates[g] = "learning_continuation" <=> g = 2
             /\ Gates[g] = "learning_output" <=> g = 3
             /\ Gates[g] = "barge_in" <=> g = 4
             /\ Gates[g] = "spoken_stop" <=> g = 5
             /\ Gates[g] = "no_stale_playback" <=> g = 6
             /\ Gates[g] = "isolated_assessment" <=> g = 9
             /\ Gates[g] = "ui_voice_synchronization" <=> g = 10
  <2>1. g \in {1, 2, 3, 4, 5, 6, 7, 8, 9, 10} OBVIOUS
  <2> QED BY <2>1 DEF Gates
<1> QED BY <1>1, <1>2

LEMMA EarliestIsSeen ==
  ASSUME since \in Nat, NEW S \in SUBSET Seen, S # {}
  PROVE  /\ EarliestOf(S) \in S
         /\ \A j \in S : EarliestOf(S) <= j
<1>1. S \in SUBSET Nat BY DEF Seen
<1>2. \E i \in S : \A j \in S : i <= j BY <1>1, LeastOfNats
<1> QED BY <1>2 DEF EarliestOf

LEMMA LatestIsSeen ==
  ASSUME since \in Nat \ {0}, cursor \in Nat, NEW S \in SUBSET Seen, S # {}
  PROVE  LatestOf(S) \in S
<1>1. S \in SUBSET (1..cursor) BY DEF Seen
<1>2. \E i \in S : \A j \in S : j <= i BY <1>1, GreatestOfSome
<1> QED BY <1>2 DEF LatestOf

LEMMA SeenEvents ==
  ASSUME GatesShape, NEW kinds, NEW i
  PROVE  /\ Of(kinds) \in SUBSET Seen /\ After(kinds, i) \in SUBSET Seen
         /\ \A j \in Seen : j \in Nat /\ since <= j /\ j <= cursor
         /\ \A j \in Of(kinds) : log[j].k \in kinds
         /\ \A j \in After(kinds, i) : log[j].k \in kinds /\ i < j
         /\ \A j \in Seen : log[j].k \in kinds /\ i < j => j \in After(kinds, i)
<1>1. cursor \in Nat /\ since \in Nat BY DEF GatesShape
<1> QED BY <1>1 DEF Of, After, Seen

-----------------------------------------------------------------------------
(* What the verdict of a gate rests on.                                     *)

LEMMA Passes ==
  ASSUME NEW f \in BOOLEAN, NEW p \in BOOLEAN, Choose(f, p) = "pass"
  PROVE  ~f /\ p
BY DEF Choose

\* A stop is accepted after the interruption of the playback, its transcript and the stop,
\* with no response from the interruption to the stop.
LEMMA StopAccepted ==
  ASSUME GatesShape, StopVerdict = "pass",
         NEW cut, cut = EarliestOf({i \in After({"cut"}, playback.seq) :
                                      playback.t = 0 \/ log[i].t = playback.t}),
         NEW ask, ask = EarliestOf(After({"asked"}, cut)),
         NEW stop, stop = EarliestOf(After({"stopped"}, ask))
  PROVE  /\ cut \in Seen /\ ask \in Seen /\ stop \in Seen
         /\ cut < ask /\ ask < stop
         /\ log[cut].k = "cut" /\ log[ask].k = "asked"
         /\ \A i \in cut..stop : log[i].k \notin Responses
<1> DEFINE cuts == {i \in After({"cut"}, playback.seq) : playback.t = 0 \/ log[i].t = playback.t}
           heard == After(Transcripts, cut)
           asks == After({"asked"}, cut)
           stops == After({"stopped"}, ask)
           answered == {i \in After(Responses, cut) : asks # {} /\ stops # {} => i < stop}
<1>1. /\ cuts # {} /\ asks # {} /\ stops # {} /\ answered = {}
  <2>1. StopVerdict =
          IF playback.seq = 0 THEN "wait"
          ELSE IF cuts = {}
          THEN Choose(After({"spoken"}, playback.seq) # {} \/ Of({"asked"}) # {}, FALSE)
          ELSE IF asks # {} /\ stops # {} THEN Choose(answered # {}, answered = {})
          ELSE Choose(\/ asks = {} /\ heard # {}
                      \/ asks = {} /\ After({"idle"}, cut) # {}
                      \/ answered # {}
                      \/ asks = {} /\ Of({"stopped"}) # {}, FALSE)
    BY DEF StopVerdict
  <2> HIDE DEF cuts, asks, stops, answered, heard
  <2> QED BY <2>1 DEF Choose
<1>2. cut \in cuts /\ log[cut].k = "cut" /\ cut \in Seen
  <2>1. cuts \in SUBSET Seen /\ \A i \in cuts : log[i].k = "cut" BY SeenEvents
  <2> QED BY <1>1, <2>1, EarliestIsSeen DEF GatesShape
<1>3. ask \in Seen /\ log[ask].k = "asked" /\ cut < ask
  <2>1. asks \in SUBSET Seen /\ \A i \in asks : log[i].k = "asked" /\ cut < i BY SeenEvents
  <2> QED BY <1>1, <2>1, EarliestIsSeen DEF GatesShape
<1>4. stop \in Seen /\ log[stop].k = "stopped" /\ ask < stop
  <2>1. stops \in SUBSET Seen /\ \A i \in stops : log[i].k = "stopped" /\ ask < i BY SeenEvents
  <2> QED BY <1>1, <2>1, EarliestIsSeen DEF GatesShape
<1>5. ASSUME NEW i \in cut..stop, log[i].k \in Responses PROVE FALSE
  <2>1. /\ since \in Nat /\ cursor \in Nat /\ cut \in Nat /\ stop \in Nat
        /\ since <= cut /\ stop <= cursor
    BY <1>2, <1>4 DEF GatesShape, Seen
  <2>2. i \in Seen BY <2>1 DEF Seen
  <2>3. "cut" \notin Responses /\ "stopped" \notin Responses BY DEF Responses, Spoken
  <2>4. i # cut /\ i # stop BY <1>2, <1>4, <1>5, <2>3
  <2>5. cut < i /\ i < stop BY <2>1, <2>4
  <2>6. i \in After(Responses, cut) BY <1>5, <2>2, <2>5, SeenEvents
  <2>7. i \in answered BY <2>5, <2>6
  <2> QED BY <1>1, <2>7
<1> QED BY <1>2, <1>3, <1>4, <1>5

-----------------------------------------------------------------------------
(* Recording a verdict and showing the next gate.                           *)

\* A response that is published lies behind every event the gate has seen.
LEMMA GatesPublishing ==
  ASSUME GatesInvariant, NEW k, NEW t, Publish(k, t)
  PROVE  GatesInvariant'
<1>1. /\ IsPlan(log') /\ Len(log') = Len(log) + 1 /\ Len(log) \in Nat
      /\ \A i \in 1..Len(log) : log'[i] = log[i]
  <2>1. PICK S : log \in Seq(S) BY DEF GatesInvariant, GatesShape, IsPlan
  <2>2. log \in Seq(S \cup {[k |-> k, t |-> t]}) BY <2>1, SeqMonotonic
  <2> QED BY <2>2, AppendProperties DEF Publish, IsPlan
<1>2. UNCHANGED pgGate /\ UNCHANGED <<cursor, batch, click>> BY DEF Publish
<1>3. GatesShape' BY <1>1, <1>2 DEF GatesInvariant, GatesShape, pgGate
<1>4. StopHeeded => StopHeeded'
  <2> SUFFICES ASSUME StopHeeded PROVE StopHeeded'
    OBVIOUS
  <2>1. halt' = halt /\ halt \in 0..Len(log) BY <1>2 DEF pgGate, GatesInvariant, GatesShape
  <2>2. \A i \in 1..halt : log'[i] = log[i] BY <1>1, <2>1
  <2>3. PICK c, a \in 1..halt - 1 : /\ c < a /\ log[c].k = "cut" /\ log[a].k = "asked"
                                    /\ \A i \in c..halt : log[i].k \notin Responses
    BY DEF StopHeeded
  <2>4. log'[c].k = "cut" /\ log'[a].k = "asked" BY <2>1, <2>2, <2>3
  <2>5. \A i \in c..halt : log'[i].k \notin Responses BY <2>1, <2>2, <2>3
  <2> QED BY <2>1, <2>3, <2>4, <2>5 DEF StopHeeded
<1> QED BY <1>2, <1>3, <1>4 DEF GatesInvariant, StopRecorded, pgGate

\* A result is written behind the others; only an accepted stop is one more of them.
LEMMA ResultsGrow ==
  ASSUME GatesInvariant, NEW passed, Record(passed), ~(passed = TRUE /\ gate = 5)
  PROVE  IsPlan(gateResults') /\ (StopRecorded' => StopRecorded)
<1>1. PICK S : gateResults \in Seq(S) BY DEF GatesInvariant, GatesShape, IsPlan
<1>2. gateResults \in Seq(S \cup {<<gate, passed>>}) BY <1>1, SeqMonotonic
<1>3. /\ IsPlan(gateResults') /\ Len(gateResults) \in Nat
      /\ DOMAIN gateResults = 1..Len(gateResults)
      /\ DOMAIN gateResults' = 1..(Len(gateResults) + 1)
      /\ \A i \in 1..Len(gateResults) : gateResults'[i] = gateResults[i]
      /\ gateResults'[Len(gateResults) + 1] = <<gate, passed>>
  BY <1>2, AppendProperties DEF Record, IsPlan
<1> DEFINE entry == <<gate, passed>>
           accepted == <<5, TRUE>>
<1>4. entry # accepted OBVIOUS
<1>5. /\ StopRecorded <=> \E n \in DOMAIN gateResults : gateResults[n] = accepted
      /\ StopRecorded' <=> \E n \in DOMAIN gateResults' : gateResults'[n] = accepted
  BY DEF StopRecorded
<1>6. gateResults'[Len(gateResults) + 1] = entry BY <1>3
<1> HIDE DEF entry, accepted
<1>7. ASSUME NEW n \in DOMAIN gateResults', gateResults'[n] = accepted
      PROVE  n \in DOMAIN gateResults /\ gateResults[n] = accepted
  BY <1>3, <1>4, <1>6, <1>7
<1> QED BY <1>3, <1>5, <1>7

LEMMA ResultIsAdded ==
  ASSUME GatesInvariant, NEW passed, Record(passed)
  PROVE  IsPlan(gateResults')
<1>1. PICK S : gateResults \in Seq(S) BY DEF GatesInvariant, GatesShape, IsPlan
<1>2. gateResults \in Seq(S \cup {<<gate, passed>>}) BY <1>1, SeqMonotonic
<1> QED BY <1>2, AppendProperties DEF Record, IsPlan

LEMMA HeededRests ==
  ASSUME GatesInvariant, log' = log, halt' = halt, StopRecorded' => StopRecorded, gate' >= gate,
         gate' \in 1..10
  PROVE  StopRecorded' => gate' > 5 /\ StopHeeded'
<1>1. gate \in 1..10 BY DEF GatesInvariant, GatesShape
<1>2. StopHeeded => StopHeeded' BY DEF StopHeeded
<1> QED BY <1>1, <1>2 DEF GatesInvariant

LEMMA GateFailing ==
  ASSUME GatesInvariant, FailGate, UNCHANGED <<log, batch>>, cursor' \in 0..batch,
         click' \in {0, click}
  PROVE  GatesInvariant'
<1>1. Record(FALSE) /\ UNCHANGED <<gate, since, playback, halt>> BY DEF FailGate
<1>2. IsPlan(gateResults') /\ (StopRecorded' => StopRecorded) BY <1>1, ResultsGrow
<1>3. GatesShape' BY <1>1, <1>2 DEF GatesInvariant, GatesShape
<1>4. gate' >= gate /\ gate' \in 1..10 BY <1>1 DEF GatesInvariant, GatesShape
<1> QED BY <1>1, <1>2, <1>3, <1>4, HeededRests DEF GatesInvariant

\* Any gate but the one about the stop is passed, with evidence from a position on.
LEMMA GatePassing ==
  ASSUME GatesInvariant, UNCHANGED <<log, batch, cursor>>, click' \in {0, click},
         NEW from, NEW sound, ShowNext(from, sound, halt), Record(TRUE),
         gate \notin {5, 10}, from \in Nat \ {0}, sound.seq \in Nat, gate = 2 => sound.seq # 0
  PROVE  GatesInvariant'
<1>1. gate' = gate + 1 /\ since' = from /\ playback' = sound /\ halt' = halt BY DEF ShowNext
<1>2. gate \in 1..10 BY DEF GatesInvariant, GatesShape
<1>3. IsPlan(gateResults') /\ (StopRecorded' => StopRecorded) BY ResultsGrow
<1>4. gate' \in 1..10 /\ gate' >= gate BY <1>1, <1>2
<1>5. GatesShape' BY <1>1, <1>2, <1>3, <1>4 DEF GatesInvariant, GatesShape
<1> QED BY <1>1, <1>3, <1>4, <1>5, HeededRests DEF GatesInvariant

\* The gate about the stop: what is recorded has been heeded.
LEMMA StopPassing ==
  ASSUME GatesInvariant, UNCHANGED <<log, batch, cursor, click>>, PassGate, gate = 5,
         StopVerdict = "pass"
  PROVE  GatesInvariant'
<1> DEFINE cut == EarliestOf({i \in After({"cut"}, playback.seq) :
                                playback.t = 0 \/ log[i].t = playback.t})
           ask == EarliestOf(After({"asked"}, cut))
           stop == EarliestOf(After({"stopped"}, ask))
<1>1. Shown = "spoken_stop" BY GateNames DEF Shown
<1>2. Record(TRUE) /\ ShowNext(stop, NoSound, stop) BY <1>1 DEF PassGate
<1>3. /\ cut \in Seen /\ ask \in Seen /\ stop \in Seen
      /\ cut < ask /\ ask < stop
      /\ log[cut].k = "cut" /\ log[ask].k = "asked"
      /\ \A i \in cut..stop : log[i].k \notin Responses
  BY StopAccepted DEF GatesInvariant
<1> HIDE DEF cut, ask, stop
<1>4. /\ since \in Nat \ {0} /\ cursor \in 0..batch /\ batch \in 0..Len(log) /\ Len(log) \in Nat
  BY PlanLength DEF GatesInvariant, GatesShape
<1>5. cut \in 1..cursor /\ ask \in 1..cursor /\ stop \in 1..cursor BY <1>3, <1>4 DEF Seen
<1>6. gate' = 6 /\ since' = stop /\ playback' = NoSound /\ halt' = stop
  BY <1>2 DEF ShowNext
<1>7. GatesShape'
  <2>1. IsPlan(gateResults') BY <1>2, ResultIsAdded
  <2> QED BY <1>4, <1>5, <1>6, <2>1 DEF GatesInvariant, GatesShape, NoSound
<1>8. StopHeeded' BY <1>3, <1>5, <1>6 DEF StopHeeded
<1> QED BY <1>6, <1>7, <1>8 DEF GatesInvariant

-----------------------------------------------------------------------------
(* One evaluation of the gate that is shown.                                *)

LEMMA GateEvaluating ==
  ASSUME GatesInvariant, UNCHANGED <<log, batch, cursor, click>>, Evaluate
  PROVE  GatesInvariant'
<1>0. /\ GatesShape /\ gate \in 1..10 /\ since \in Nat \ {0} /\ playback.seq \in Nat
      /\ cursor \in Nat
  BY PlanLength DEF GatesInvariant, GatesShape
<1>a. cursor' \in 0..batch /\ click' \in {0, click} BY DEF GatesInvariant, GatesShape
<1>1. CASE Verdict = "fail" BY <1>1, <1>a, GateFailing DEF Evaluate
<1>2. CASE Verdict # "fail" /\ Verdict # "pass"
  <2>1. UNCHANGED <<gate, since, playback, halt, gateResults>>
    BY <1>2 DEF Evaluate, pgGate
  <2>2. GatesShape' BY <2>1 DEF GatesInvariant, GatesShape
  <2>3. gate' >= gate /\ gate' \in 1..10 BY <1>0, <2>1
  <2>4. StopRecorded' => StopRecorded BY <2>1 DEF StopRecorded
  <2> QED BY <2>1, <2>2, <2>3, <2>4, HeededRests DEF GatesInvariant
<1>3. CASE Verdict = "pass"
  <2>1. PassGate BY <1>3 DEF Evaluate
  <2>2. CASE Shown = "isolated_assessment" /\ phase = "answer"
    <3>1. since' = cursor + 1 /\ UNCHANGED <<gate, playback, halt, gateResults>>
      BY <2>1, <2>2 DEF PassGate, Next1
    <3>2. GatesShape' BY <1>0, <3>1 DEF GatesInvariant, GatesShape
    <3>3. gate' >= gate /\ gate' \in 1..10 BY <1>0, <3>1
    <3>4. StopRecorded' => StopRecorded BY <3>1 DEF StopRecorded
    <3> QED BY <3>1, <3>2, <3>3, <3>4, HeededRests DEF GatesInvariant
  <2>3. CASE Shown = "learning_continuation"
    <3>1. gate = 2 BY <1>0, <2>3, GateNames DEF Shown
    <3>2. ContinuationVerdict = "pass" BY <1>3, <2>3 DEF Verdict
    <3>3. Of({"asked"}) # {} /\ Of({"speaks"}) # {}
      BY <3>2, Passes DEF ContinuationVerdict
    <3>4. LatestOf(Of({"asked"})) \in Seen /\ LatestOf(Of({"speaks"})) \in Seen
      BY <1>0, <3>3, SeenEvents, LatestIsSeen
    <3>5. LatestOf(Of({"asked"})) \in Nat \ {0} /\ LatestOf(Of({"speaks"})) \in Nat \ {0}
      BY <1>0, <3>4 DEF Seen
    <3> DEFINE from  == LatestOf(Of({"asked"}))
               sound == [seq |-> LatestOf(Of({"speaks"})), t |-> log[LatestOf(Of({"answer"}))].t]
    <3>6. Record(TRUE) /\ ShowNext(from, sound, halt) BY <2>1, <2>3 DEF PassGate
    <3>7. from \in Nat \ {0} /\ sound.seq \in Nat /\ sound.seq # 0 BY <3>5
    <3> HIDE DEF from, sound
    <3>8. gate \notin {5, 10} /\ (gate = 2 => sound.seq # 0) BY <3>1, <3>7
    <3> QED BY <1>a, <3>6, <3>7, <3>8, GatePassing
  <2>4. CASE Shown = "barge_in"
    <3> DEFINE cuts == After({"cut"}, playback.seq)
               cut == EarliestOf(cuts)
               ask == EarliestOf(After({"asked"}, cut))
               speech == EarliestOf(After({"speaks"}, ask))
    <3>1. gate = 4 BY <1>0, <2>4, GateNames DEF Shown
    <3>2. BargeInVerdict = "pass" BY <1>3, <2>4 DEF Verdict
    <3>3. After({"speaks"}, ask) # {}
      BY <3>2 DEF BargeInVerdict, Choose
    <3>4. speech \in Seen BY <1>0, <3>3, SeenEvents, EarliestIsSeen
    <3>5. speech \in Nat \ {0} BY <1>0, <3>4 DEF Seen
    <3> DEFINE sound == [seq |-> speech, t |-> log[speech].t]
    <3>6. Record(TRUE) /\ ShowNext(speech, sound, halt) BY <2>1, <2>4 DEF PassGate
    <3>7. sound.seq \in Nat BY <3>5
    <3> HIDE DEF speech, sound
    <3>8. gate \notin {5, 10} /\ (gate = 2 => sound.seq # 0) BY <3>1
    <3> QED BY <1>a, <3>5, <3>6, <3>7, <3>8, GatePassing
  <2>5. CASE Shown = "spoken_stop"
    <3>1. gate = 5 BY <1>0, <2>5, GateNames DEF Shown
    <3>2. StopVerdict = "pass" BY <1>3, <2>5 DEF Verdict
    <3> QED BY <2>1, <3>1, <3>2, StopPassing
  <2>6. CASE /\ Shown \notin {"learning_continuation", "barge_in", "spoken_stop"}
             /\ ~(Shown = "isolated_assessment" /\ phase = "answer")
    <3>1. Record(TRUE) /\ ShowNext(Next1, NoSound, halt) BY <2>1, <2>6 DEF PassGate
    <3>2. gate \notin {2, 5} BY <1>0, <2>6, GateNames DEF Shown
    <3>3. gate # 10
      <4> SUFFICES ASSUME gate = 10 PROVE FALSE
        OBVIOUS
      <4>1. Shown = "ui_voice_synchronization" BY GateNames DEF Shown
      <4>2. Verdict = "wait" BY <4>1 DEF Verdict
      <4> QED BY <1>3, <4>2
    <3>4. Next1 \in Nat \ {0} /\ NoSound.seq \in Nat BY <1>0 DEF Next1, NoSound
    <3> QED BY <1>a, <3>1, <3>2, <3>3, <3>4, GatePassing
  <2> QED BY <2>2, <2>3, <2>4, <2>5, <2>6
<1> QED BY <1>1, <1>2, <1>3

LEMMA GatesStep == GatesInvariant /\ [PGNext]_pgVars => GatesInvariant'
<1> SUFFICES ASSUME GatesInvariant, [PGNext]_pgVars PROVE GatesInvariant'
  OBVIOUS
<1>0. /\ gate \in 1..10 /\ since \in Nat \ {0} /\ playback.seq \in Nat /\ cursor \in Nat
      /\ batch \in Nat /\ Len(log) \in Nat /\ cursor \in 0..batch
      /\ gate = 3 => playback.seq # 0
      /\ click # 0 => Gates[click] \in Confirmable
  BY PlanLength DEF GatesInvariant, GatesShape
<1>1. ASSUME UNCHANGED <<log, gate, since, playback, halt, gateResults>>,
             cursor' \in 0..batch', batch' \in 0..Len(log),
             click' # 0 => Gates[click'] \in Confirmable
      PROVE  GatesInvariant'
  <2>1. GatesShape' BY <1>1 DEF GatesInvariant, GatesShape
  <2>2. gate' >= gate /\ gate' \in 1..10 BY <1>0, <1>1
  <2>3. StopRecorded' => StopRecorded BY <1>1 DEF StopRecorded
  <2> QED BY <1>1, <2>1, <2>2, <2>3, HeededRests DEF GatesInvariant
<1>2. CASE UNCHANGED pgVars
  <2>1. cursor' \in 0..batch' /\ batch' \in 0..Len(log)
    BY <1>2 DEF pgVars, GatesInvariant, GatesShape
  <2> QED BY <1>0, <1>1, <1>2, <2>1 DEF pgVars
<1>3. CASE PublishExpected BY <1>3, GatesPublishing DEF PublishExpected
<1>4. CASE PublishNoise BY <1>4, GatesPublishing DEF PublishNoise
<1>5. CASE Confirm
  <2>1. cursor' \in 0..batch' /\ batch' \in 0..Len(log)
    BY <1>5 DEF Confirm, GatesInvariant, GatesShape
  <2> QED BY <1>1, <1>5, <2>1 DEF Confirm, Shown, pgCandidate, pgGate
<1>6. CASE QuietSecondsPass
  <2>1. cursor' \in 0..batch' /\ batch' \in 0..Len(log)
    BY <1>6 DEF QuietSecondsPass, GatesInvariant, GatesShape
  <2> QED BY <1>0, <1>1, <1>6, <2>1 DEF QuietSecondsPass, pgCandidate
<1>7. CASE Consume
  <2>1. click' = 0 /\ UNCHANGED <<log, cursor, batch>> BY <1>7 DEF Consume, pgCandidate
  <2>2. cursor' \in 0..batch /\ cursor' \in 0..batch' /\ batch' \in 0..Len(log)
    BY <2>1 DEF GatesInvariant, GatesShape
  <2>3. CASE UNCHANGED pgGate BY <1>1, <2>1, <2>2, <2>3 DEF pgGate
  <2>4. CASE FailGate BY <2>1, <2>2, <2>4, GateFailing
  <2>5. CASE click = gate /\ Shown = "learning_output" /\ ~FailGate /\ ~UNCHANGED pgGate
    <3>1. gate = 3 BY <1>0, <2>5, GateNames DEF Shown
    <3>2. Record(TRUE) /\ ShowNext(playback.seq, playback, halt)
      BY <1>0, <1>7, <2>5 DEF Consume
    <3>3. playback.seq \in Nat \ {0} BY <1>0, <3>1
    <3>4. gate \notin {5, 10} /\ (gate = 2 => playback.seq # 0) BY <3>1
    <3> QED BY <2>1, <3>2, <3>3, <3>4, GatePassing
  <2>6. CASE click = gate /\ Shown = "no_stale_playback" /\ ~FailGate /\ ~UNCHANGED pgGate
    <3>1. gate = 6 BY <1>0, <2>6, GateNames DEF Shown
    <3>2. Record(TRUE) /\ ShowNext(Next1, NoSound, halt)
      BY <1>0, <1>7, <2>6 DEF Consume
    <3>3. Next1 \in Nat \ {0} /\ NoSound.seq \in Nat BY <1>0 DEF Next1, NoSound
    <3>4. gate \notin {5, 10} /\ (gate = 2 => NoSound.seq # 0) BY <3>1
    <3> QED BY <2>1, <3>2, <3>3, <3>4, GatePassing
  <2>7. CASE /\ click = gate /\ Shown \notin {"learning_output", "no_stale_playback"}
             /\ ~FailGate /\ ~UNCHANGED pgGate
    <3>1. Record(TRUE) /\ UNCHANGED <<gate, since, playback, halt>>
      BY <1>0, <1>7, <2>7 DEF Consume
    <3>2. Shown \in Confirmable BY <1>0, <2>7 DEF Shown
    <3>3. gate # 5 BY <1>0, <3>2, GateNames DEF Shown, Confirmable
    <3>4. IsPlan(gateResults') /\ (StopRecorded' => StopRecorded)
      BY <3>1, <3>3, ResultsGrow
    <3>5. gate' >= gate /\ gate' \in 1..10 BY <1>0, <3>1
    <3>6. GatesShape' BY <2>1, <3>1, <3>4 DEF GatesInvariant, GatesShape
    <3> QED BY <2>1, <3>1, <3>4, <3>5, <3>6, HeededRests DEF GatesInvariant
  <2>8. click = 0 \/ click # gate => UNCHANGED pgGate BY <1>7 DEF Consume
  <2> QED BY <2>3, <2>4, <2>5, <2>6, <2>7, <2>8
<1>8. CASE SampleHealth
  <2>1. cursor' \in 0..batch' /\ batch' \in 0..Len(log)
    BY <1>8 DEF SampleHealth, GatesInvariant, GatesShape
  <2> QED BY <1>0, <1>1, <1>8, <2>1 DEF SampleHealth, pgCandidate, pgGate
<1>9. CASE ReadEvents
  <2>1. cursor' = cursor /\ batch' \in {cursor, Len(log)} BY <1>9 DEF ReadEvents
  <2>2. cursor' \in 0..batch' /\ batch' \in 0..Len(log)
    BY <1>0, <2>1 DEF GatesInvariant, GatesShape
  <2> QED BY <1>0, <1>1, <1>9, <2>2 DEF ReadEvents, pgCandidate, pgGate
<1>10. CASE Expire
  <2>1. FailGate /\ UNCHANGED <<log, cursor, batch, click>> BY <1>10 DEF Expire, pgCandidate
  <2>2. cursor' \in 0..batch BY <1>0, <2>1
  <2> QED BY <2>1, <2>2, GateFailing
<1>11. CASE TakeEvent
  <2>1. /\ UNCHANGED <<log, batch, click>> /\ cursor' = cursor + 1 /\ cursor < batch
        /\ FailGate \/ UNCHANGED pgGate
    BY <1>11 DEF TakeEvent, pgCandidate
  <2>2. cursor' \in 0..batch BY <1>0, <2>1
  <2>3. CASE FailGate BY <2>1, <2>2, <2>3, GateFailing
  <2>4. CASE UNCHANGED pgGate
    <3>1. cursor' \in 0..batch' /\ batch' \in 0..Len(log)
      BY <2>1, <2>2 DEF GatesInvariant, GatesShape
    <3> QED BY <1>0, <1>1, <2>1, <2>4, <3>1 DEF pgGate
  <2> QED BY <2>1, <2>3, <2>4
<1>12. CASE JudgeEvent BY <1>12, GateEvaluating DEF JudgeEvent, pgCandidate
<1>13. CASE JudgeBatch BY <1>13, GateEvaluating DEF JudgeBatch, pgCandidate
<1> QED BY <1>2, <1>3, <1>4, <1>5, <1>6, <1>7, <1>8, <1>9, <1>10, <1>11, <1>12, <1>13
        DEF PGNext, MainLoop

\* When the stop gate has passed, nothing answered the owner between the interruption of the
\* playback and the accepted stop: however late the events were read, whatever else the
\* candidate said, and however often the gate was judged before (_evaluate_spoken_stop, the
\* main loop of the candidate orchestrator).
THEOREM AcceptedStopsWereHeeded == PGSpec => []StopWasHeededFirst
<1>1. PGInit => GatesInvariant
  <2> SUFFICES ASSUME PGInit PROVE GatesInvariant
    OBVIOUS
  <2>1. IsPlan(<< >>) /\ Len(<< >>) = 0 /\ DOMAIN << >> = {}
    BY EmptySeq, LenProperties DEF IsPlan
  <2>2. GatesShape BY <2>1 DEF PGInit, GatesShape, NoSound
  <2>3. ~StopRecorded BY <2>1 DEF PGInit, StopRecorded
  <2> QED BY <2>2, <2>3 DEF GatesInvariant
<1>2. GatesInvariant => StopWasHeededFirst
  <2> SUFFICES ASSUME GatesInvariant PROVE StopWasHeededFirst
    OBVIOUS
  <2>1. DOMAIN gateResults = 1..Len(gateResults) BY PlanLength DEF GatesInvariant, GatesShape
  <2> QED BY <2>1 DEF GatesInvariant, StopRecorded, StopHeeded, StopWasHeededFirst
<1> QED BY <1>1, <1>2, GatesStep, PTL DEF PGSpec
=============================================================================
