------------------------------ MODULE GoalPlan ------------------------------
(***************************************************************************)
(* The plan of a computer goal, desktop/goal_planner.py and the planning   *)
(* half of desktop/runner.py: the contract derived from the owner's words, *)
(* the plan the local model proposes, its completion by the runner and the *)
(* two validations it must pass before its first step.  No state: the      *)
(* operators are functions of a contract c and a plan p.                   *)
(*                                                                         *)
(* Abstracted: the owner's words are the contract's fields; an operand is  *)
(* a member of a small set, with "" for an operand the plan left out and   *)
(* "other" for one the owner never named; of the installed applications    *)
(* there are the default browser, the directory handler ("files") and one  *)
(* with an integrated terminal ("code").                                   *)
(***************************************************************************)
EXTENDS Naturals, Sequences, FiniteSets, SequencesExt

CONSTANTS
  MaxRaw,       \* bound: steps of a proposed plan
  MaxRequired,  \* bound: results a contract requires
  PlanLimit     \* steps of a completed plan, 8 in the code

ASSUME GoalPlanAssumption == MaxRaw \in Nat \ {0} /\ MaxRequired \in Nat /\ PlanLimit \in Nat

AppOrder == <<"browser", "code", "files">>  \* sorted(mentioned)
Apps == {"browser", "code", "files"}

When(b, r) == IF b THEN {r} ELSE {}

Step(kind, target, value) == [kind |-> kind, target |-> target, value |-> value]

(* What _goal_contract reads out of the request.  ws: it names the current *)
(* workspace and no path; explicit: one absolute path; visible: it opens a *)
(* folder by its place on screen; only: it is a search and nothing else.   *)
Required(c) ==
  When(c.create, <<"directory_created">>)
  \cup When(c.location, <<"requested_location_opened">>)
  \cup {<<"application_opened", a>> : a \in c.apps}
  \cup When(c.terminal, <<"integrated_terminal_ready">>)
  \cup {<<"command_output", i>> : i \in 1..c.commands}
  \cup When(c.query, <<"browser_search_results_verified">>)
  \cup When(c.uri, <<"requested_browser_destination_opened">>)

Contracts ==
  {c \in [location : BOOLEAN, create : BOOLEAN, terminal : BOOLEAN, commands : 0..1,
          apps : SUBSET Apps, query : BOOLEAN, uri : BOOLEAN, ws : BOOLEAN,
          explicit : BOOLEAN, visible : BOOLEAN, only : BOOLEAN] :
     /\ Cardinality(Required(c)) \in 1..MaxRequired
     /\ c.uri => c.query
     /\ c.only => c.query /\ ~c.uri
     /\ c.ws \/ c.explicit \/ c.visible => c.location
     /\ ~(c.ws /\ c.explicit)
     /\ c.visible => ~c.ws /\ ~c.explicit /\ ~c.create /\ ~c.terminal /\ ~c.query
                     /\ c.commands = 0 /\ c.apps \subseteq {"files"}}

(* The shapes plan_goal lets through. *)
RawSteps ==
  {Step("open_target", t, "") : t \in Apps \cup {"site", "other"}}
  \cup {Step("open_location", t, v) : t \in {"ws", "dir", "it", "site", "browser"},
                                      v \in {"", "browser", "code", "files"}}
  \cup {Step("create_directory", "name", "")}
  \cup {Step("open_terminal", t, "") : t \in {"", "code", "other"}}
  \cup {Step("run_read_only_command", t, v) : t \in {"", "ws"}, v \in {"1", "other"}}
  \cup {Step("search_current_page", "", v) : v \in {"query", "other"}}
  \cup {Step(k, "named", "") : k \in {"select_search_result", "native_action"}}
  \cup {Step("activate_visible_target", "named", "open"), Step("scroll", "", "down")}

Command(i) == Step("run_read_only_command", "", ToString(i))

(* The requests for which no model is asked. *)
FixedPlan(c) ==
  IF c.visible THEN <<Step("activate_visible_target", "named", "open")>>
  ELSE <<Step("search_current_page", "", "query")>>

PlansFor(c) ==
  IF c.visible \/ c.only THEN {FixedPlan(c)}
  ELSE UNION {[1..n -> RawSteps] : n \in 1..MaxRaw}

-----------------------------------------------------------------------------
(* Positions in a plan. *)

Where(p, K) == {i \in DOMAIN p : p[i].kind \in K}
FirstOf(S, default) == IF S = {} THEN default ELSE CHOOSE i \in S : \A j \in S : i <= j
LastOf(S) == IF S = {} THEN 0 ELSE CHOOSE i \in S : \A j \in S : j <= i
Keep(p, S) ==
  LET order == SetToSortSeq(S, <) IN [k \in 1..Cardinality(S) |-> p[order[k]]]

Locations(p) == Where(p, {"open_location"})
Terminals(p) == Where(p, {"open_terminal"})
Commands(p) == Where(p, {"run_read_only_command"})
Searches(p) == Where(p, {"search_current_page"})
Creations(p) == Where(p, {"create_directory"})
Destinations(p) == {i \in Where(p, {"open_target"}) : p[i].target = "site"}
Opens(p, a) == {i \in Where(p, {"open_target"}) : p[i].target = a}
FirstApp(c) == IF c.apps = {} THEN "" ELSE SelectSeq(AppOrder, LAMBDA a : a \in c.apps)[1]
OnlyApp(c, default) == IF Cardinality(c.apps) = 1 THEN FirstApp(c) ELSE default

-----------------------------------------------------------------------------
(* _complete_goal_plan, stage by stage; XFits: the stage does not refuse.  *)

ImplicitBrowser(c) == "browser" \notin c.apps

BecomesDestination(s) ==
  /\ s.kind = "open_location" /\ "site" \in {s.target, s.value}
  /\ {s.target, s.value} \subseteq {"", "site", "browser"}

Redundant(c, s) ==
  /\ ImplicitBrowser(c)
  /\ \/ s.kind = "open_location" /\ "browser" \in {s.target, s.value}
        /\ {s.target, s.value} \subseteq {"", "browser"}
     \/ s.kind = "open_target" /\ s.target = "browser"

DestinationFits(c, p) == c.uri => Opens(p, "other") = {}

WithDestination(c, p) ==
  LET q == [i \in DOMAIN p |-> IF BecomesDestination(p[i])
                               THEN Step("open_target", "site", "") ELSE p[i]]
  IN IF c.uri
     THEN Keep(q, {i \in DOMAIN q : /\ ~Redundant(c, q[i])
                                    /\ i \in Destinations(q) =>
                                         \A j \in Destinations(q) : i <= j})
     ELSE p

Dependent(p) == FirstOf(Terminals(p) \cup Commands(p), Len(p) + 1)
AppSteps(c, p) == UNION {Opens(p, a) : a \in c.apps}

LocationFits(c, p) ==
  c.location /\ c.ws =>
    /\ Cardinality(Locations(p)) <= 1
    /\ Locations(p) = {} => /\ Len(p) < PlanLimit
                            /\ AppSteps(c, p) # {} => FirstOf(AppSteps(c, p), 0) < Dependent(p)

InsertLocation(c, p) ==
  IF Locations(p) # {} THEN p
  ELSE InsertAt(p, IF AppSteps(c, p) # {} THEN FirstOf(AppSteps(c, p), 0) + 1 ELSE Dependent(p),
                Step("open_location", "ws", OnlyApp(c, "")))

WithLocation(c, p) ==
  IF ~(c.location /\ c.ws) THEN p
  ELSE LET q == InsertLocation(c, p) IN
       [i \in DOMAIN q |->
          IF i \in Locations(q) THEN Step("open_location", "ws", OnlyApp(c, q[i].value))
          ELSE IF i \in Commands(q) /\ q[i].target # "" THEN [q[i] EXCEPT !.target = "ws"]
          ELSE q[i]]

TerminalFits(c, p) ==
  /\ ~c.terminal => Terminals(p) = {}
  /\ c.terminal => Cardinality(Terminals(p)) <= 1
  /\ c.terminal /\ Terminals(p) = {} => Len(p) < PlanLimit

TerminalPlace(p) ==
  LET opened == LastOf(Where(p, {"open_target", "open_location"})) + 1
      command == FirstOf(Commands(p), Len(p) + 1)
  IN IF opened <= command THEN opened ELSE command

WithTerminal(c, p) ==
  IF ~c.terminal THEN p
  ELSE IF Terminals(p) = {}
       THEN InsertAt(p, TerminalPlace(p), Step("open_terminal", FirstApp(c), ""))
       ELSE [i \in DOMAIN p |-> IF i \in Terminals(p) /\ p[i].target = ""
                                THEN [p[i] EXCEPT !.target = FirstApp(c)] ELSE p[i]]

Runs(p, i) == {k \in Commands(p) : p[k].value = ToString(i)}
MissingCommands(c, p) == {i \in 1..c.commands : Runs(p, i) = {}}

CommandsFit(c, p) ==
  /\ \A i \in 1..c.commands : Cardinality(Runs(p, i)) <= 1
  /\ Len(p) + Cardinality(MissingCommands(c, p)) <= PlanLimit \/ MissingCommands(c, p) = {}

WithCommands(c, p) ==
  p \o [k \in 1..Cardinality(MissingCommands(c, p)) |->
          Command(SetToSortSeq(MissingCommands(c, p), <)[k])]

SearchFits(c, p) ==
  c.query =>
    /\ Cardinality(Searches(p)) <= 1
    /\ Cardinality(Destinations(p)) <= 1 \/ ~c.uri
    /\ Len(p) + (IF c.uri /\ Destinations(p) = {} THEN 1 ELSE 0)
              + (IF Searches(p) = {} THEN 1 ELSE 0) <= PlanLimit
       \/ ((c.uri => Destinations(p) # {}) /\ Searches(p) # {})

WithBrowser(c, p) ==
  IF c.uri /\ Destinations(p) = {} THEN InsertAt(p, 1, Step("open_target", "site", "")) ELSE p

SearchPlace(c, p) ==
  LET result == FirstOf(Where(p, {"select_search_result"}), Len(p) + 1)
      after == IF c.uri THEN LastOf(Destinations(p)) + 1 ELSE 1
  IN IF result >= after THEN result ELSE after

WithSearch(c, p) ==
  IF ~c.query THEN p
  ELSE LET q == WithBrowser(c, p)
           search == Step("search_current_page", "", "query")
       IN IF Searches(q) = {} THEN InsertAt(q, SearchPlace(c, q), search)
          ELSE [i \in DOMAIN q |-> IF i \in Searches(q) THEN search ELSE q[i]]

(* The unique location is bound to what the owner asked to have opened. *)
Place(c, p, s) ==
  IF c.create /\ c.location /\ Cardinality(Creations(p)) = 1 THEN "it"
  ELSE IF c.location /\ c.explicit /\ ~c.create THEN "dir" ELSE s.target

WithPlace(c, p) ==
  IF Cardinality(Locations(p)) # 1 THEN p
  ELSE [i \in DOMAIN p |->
          IF i \notin Locations(p) THEN p[i]
          ELSE Step("open_location", Place(c, p, p[i]),
                    IF c.location THEN OnlyApp(c, p[i].value) ELSE p[i].value)]

Completes(c, p) ==
  LET p1 == WithDestination(c, p)
      p2 == WithLocation(c, p1)
      p3 == WithTerminal(c, p2)
      p4 == WithCommands(c, p3)
  IN /\ DestinationFits(c, p) /\ LocationFits(c, p1) /\ TerminalFits(c, p2)
     /\ CommandsFit(c, p3) /\ SearchFits(c, p4)

Completed(c, p) ==
  WithPlace(c, WithSearch(c, WithCommands(c, WithTerminal(c, WithLocation(c, WithDestination(c, p))))))

-----------------------------------------------------------------------------
(* _validate_general_plan: every operand is bound to the owner's words.    *)

NamedPlaces(c) ==
  When(c.ws, "ws")
  \cup When(c.location /\ ~c.ws /\ ~c.create, "dir")
  \cup When(c.location /\ c.create, "it")

OwnerNamed(c, p, i) ==
  LET s == p[i] IN
  CASE s.kind = "open_target" -> s.target \in c.apps \/ (s.target = "site" /\ c.uri)
    [] s.kind = "open_location" -> s.target \in NamedPlaces(c) /\ s.value \in c.apps \cup {""}
    [] s.kind = "create_directory" -> c.create
    [] s.kind = "open_terminal" -> c.terminal /\ s.target \in c.apps \cup {""}
    [] s.kind = "run_read_only_command" ->
         /\ \E k \in 1..c.commands : s.value = ToString(k)
         /\ s.target # "" => c.ws
    [] s.kind = "search_current_page" -> c.query /\ s.value = "query"
    [] s.kind = "select_search_result" -> \E j \in Searches(p) : j < i
    [] s.kind = "activate_visible_target" -> c.visible /\ Len(p) = 1
    [] OTHER -> TRUE

DestinationThenSearch(c, p) ==
  c.uri => /\ Cardinality(Destinations(p)) = 1
           /\ \A d \in Destinations(p), s \in Searches(p) : d < s

BoundToOwner(c, p) ==
  /\ Len(p) \in 1..PlanLimit
  /\ \A i \in DOMAIN p : OwnerNamed(c, p, i)
  /\ c.create => Cardinality(Creations(p)) = 1
  /\ c.query => Cardinality(Searches(p)) = 1 /\ DestinationThenSearch(c, p)

(* _validate_goal_contract: the plan covers what was asked, in its order.  *)

VisibleOpens(c, p) == IF c.visible THEN Where(p, {"activate_visible_target"}) ELSE {}

Precede(S, T) == \A i \in S, j \in T : i < j

AppNamed(c, p, a) ==
  VisibleOpens(c, p) # {} \/ \E i \in DOMAIN p : a \in {p[i].target, p[i].value}

AppCovered(c, p, a) ==
  LET seen == VisibleOpens(c, p) # {} /\ a = "files"
      bound == {i \in Locations(p) : p[i].value = a}
  IN /\ Opens(p, a) \cup bound # {} \/ seen
     /\ c.location /\ ~seen => bound # {}
     /\ c.terminal => \E i \in Terminals(p) : p[i].target = a

LocationCovered(c, p) ==
  /\ c.location => Cardinality(Locations(p)) <= 1
  /\ c.location => Locations(p) # {} \/ VisibleOpens(c, p) # {}
  /\ VisibleOpens(c, p) = {} \/ Locations(p) = {}
  /\ c.create /\ c.location => Precede(Creations(p), Locations(p))
  /\ c.location => Precede(Locations(p), Commands(p))

TerminalCovered(c, p) ==
  c.terminal => /\ Cardinality(Terminals(p)) = 1
                /\ Precede(Locations(p), Terminals(p)) /\ Precede(Terminals(p), Commands(p))

CommandsCovered(c, p) ==
  LET order == SetToSortSeq(Commands(p), <) IN
  /\ Cardinality(Commands(p)) = c.commands
  /\ \A k \in 1..c.commands : p[order[k]].value = ToString(k)

CoversContract(c, p) ==
  /\ c.create => Cardinality(Creations(p)) = 1
  /\ LocationCovered(c, p) /\ TerminalCovered(c, p) /\ CommandsCovered(c, p)
  /\ c.query => Cardinality(Searches(p)) = 1 /\ DestinationThenSearch(c, p)
  /\ \A a \in c.apps : AppCovered(c, p, a)

Accepted(c, p) == BoundToOwner(c, p) /\ CoversContract(c, p)

-----------------------------------------------------------------------------
(* The result a verified step adds to satisfied_requirements. *)

Achieves(c, p, i) ==
  LET s == p[i] IN
  CASE s.kind = "open_target" /\ s.target = "site" ->
         IF ~c.uri THEN {}
         ELSE {<<"requested_browser_destination_opened">>}
              \cup {<<"application_opened", a>> : a \in c.apps \cap {"browser"}}
    [] s.kind = "open_target" /\ s.target # "site" -> {<<"application_opened", s.target>>}
    [] s.kind = "open_location" ->
         {<<"requested_location_opened">>}
         \cup (IF s.value = "" THEN {} ELSE {<<"application_opened", s.value>>})
    [] s.kind = "create_directory" -> {<<"directory_created">>}
    [] s.kind = "run_read_only_command" ->
         {<<"command_output", Cardinality({j \in Commands(p) : j <= i})>>}
    [] s.kind = "open_terminal" -> {<<"integrated_terminal_ready">>}
    [] s.kind = "search_current_page" -> {<<"browser_search_results_verified">>}
    [] s.kind = "activate_visible_target" ->
         {<<"requested_location_opened">>}
         \cup {<<"application_opened", a>> : a \in c.apps \cap {"files"}}
    [] OTHER -> {}
=============================================================================
