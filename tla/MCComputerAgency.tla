-------------------------- MODULE MCComputerAgency --------------------------
(* Instances of the computer agency for TLC. *)
EXTENDS ComputerAgency, TLC

CONSTANTS r1, r2, q1, p1, p2

Step(bound) == [kind |-> "activate_accessible", risk |-> "low", bound |-> bound]
OneSpec == {Step("windowed")}

TwoProcesses == (r1 :> p1) @@ (r2 :> p2) @@ (q1 :> p1)
OneProcess == (r1 :> p1) @@ (q1 :> p1)
=============================================================================
