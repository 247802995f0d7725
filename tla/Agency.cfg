SPECIFICATION FairAgencySpec
CONSTANTS
  Tasks = {t1}
  r1 = r1
  r2 = r2
  q1 = q1
  p1 = p1
  p2 = p2
  Callers = {r1, r2, q1}
  Runners = {r1, r2}
  Procs = {p1, p2}
  ProcOf <- TwoProcesses
  Budget = 1
  ActionSpecs <- OneSpec
  PlanSteps = 1
  MaxActions = 1
  MaxClarifications = 1
  None = None
INVARIANT EffectAtMostOnce
PROPERTY ImplementsContract
PROPERTY CancelIsNotStarved
CHECK_DEADLOCK FALSE
