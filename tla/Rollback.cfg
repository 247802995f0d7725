SPECIFICATION Spec
CONSTANTS
  Ops = {o1}
  Keys = {k1, k2}
  Callers = {c1, c2}
  Contents = {b, e}
  Baseline = b
  MaxCheckpoints = 3
  Agent = Agent
  None = None
  Partial = Partial
  Agents = TRUE
SYMMETRY Symmetric
INVARIANT AgentAndRestoreExclude
INVARIANT OneRestorePerReview
PROPERTY NoContentIsLost
CHECK_DEADLOCK FALSE
