-------------------------- MODULE MCTaskLifecycle --------------------------
(* A small instance of TaskLifecycle for TLC.                              *)
EXTENDS TaskLifecycle, TLC

(* Requests and idempotency keys are interchangeable.                      *)
Symmetric == Permutations(Callers) \cup Permutations(Keys)

============================================================================
