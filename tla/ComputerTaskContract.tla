------------------------ MODULE ComputerTaskContract ------------------------
(***************************************************************************)
(* What the computer agency promises the owner about one task: physical    *)
(* effects happen while the task is open and within its budget; once a     *)
(* stop is durable, or the task is over, at most the one action that had   *)
(* already crossed the actor-start boundary may still land; and a task     *)
(* that is over stays over.                                                *)
(***************************************************************************)
EXTENDS Naturals

CONSTANTS Tasks, Budget


VARIABLES
  phase,    \* of each task: none, open, stopping, over
  effects,  \* physical effects of each task so far
  late      \* of those, the ones after the stop or the end

cvars == <<phase, effects, late>>

ContractInit ==
  /\ phase = [t \in Tasks |-> "none"]
  /\ effects = [t \in Tasks |-> 0]
  /\ late = [t \in Tasks |-> 0]

Open(t) ==
  /\ phase[t] = "none"
  /\ phase' = [phase EXCEPT ![t] = "open"]
  /\ UNCHANGED <<effects, late>>

Effect(t) ==
  /\ phase[t] = "open" /\ effects[t] < Budget
  /\ effects' = [effects EXCEPT ![t] = @ + 1]
  /\ UNCHANGED <<phase, late>>

LateEffect(t) ==
  /\ phase[t] \in {"stopping", "over"} /\ late[t] = 0 /\ effects[t] < Budget
  /\ effects' = [effects EXCEPT ![t] = @ + 1]
  /\ late' = [late EXCEPT ![t] = 1]
  /\ UNCHANGED phase

\* One stop may name several tasks.
Stop(S) ==
  /\ S # {} /\ \A t \in S : phase[t] = "open"
  /\ phase' = [t \in Tasks |-> IF t \in S THEN "stopping" ELSE phase[t]]
  /\ UNCHANGED <<effects, late>>

End(t) ==
  /\ phase[t] \in {"open", "stopping"}
  /\ phase' = [phase EXCEPT ![t] = "over"]
  /\ UNCHANGED <<effects, late>>

ContractNext ==
  \/ \E t \in Tasks : Open(t) \/ Effect(t) \/ LateEffect(t) \/ End(t)
  \/ \E S \in SUBSET Tasks : Stop(S)

Contract == ContractInit /\ [][ContractNext]_cvars
=============================================================================
