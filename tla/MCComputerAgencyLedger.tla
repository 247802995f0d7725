----------------------- MODULE MCComputerAgencyLedger -----------------------
(* Instances of the ledger for TLC. *)
EXTENDS ComputerAgencyLedger, TLC

Spec1(kind, risk, bound) == [kind |-> kind, risk |-> risk, bound |-> bound]

\* a location-bar read and its dismissal
DiscoverySpecs == {Spec1("hotkey", "low", "unbound"), Spec1("press_key", "low", "unbound")}
\* a step of an owner plan, and a read the task may ask a question after
MCSpecs == DiscoverySpecs \cup {Spec1("activate_accessible", "low", "windowed")}
\* a plan step, and an action the ledger must never let through
PlanSpecs == {Spec1("activate_accessible", "low", "windowed"),
              Spec1("activate_accessible", "consequential", "expected")}

\* a location-bar read, a step of an owner plan, and an action the ledger must
\* never let through
MixedSpecs == PlanSpecs \cup {Spec1("hotkey", "low", "unbound")}

CallerSymmetry == Permutations(Callers)
=============================================================================
